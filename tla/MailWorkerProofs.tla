-------------------------- MODULE MailWorkerProofs --------------------------
(***************************************************************************)
(* Theorems about MailWorker, for every set of rows, workers and domains   *)
(* and every value of the bounds; the theorems about copies, at the end,   *)
(* for every finite set of workers.                                        *)
(***************************************************************************)
EXTENDS MailWorker, FiniteSetTheorems, TLAPS

\* Most leaves are first-order steps, for Zenon. The leaves with arithmetic or
\* with equal sets and functions name SMT.
USE Zenon

-----------------------------------------------------------------------------
(***************************************************************************)
(* The inductive invariant.  Beside the types it says, for every worker,   *)
(* what its program counter implies about its own state (WorkerOK), what   *)
(* the domains it has struck off took (ProgressOK), and what its lease     *)
(* implies about the rows it holds (LeaseOK).                              *)
(***************************************************************************)
Engaged(s) == s.pc \notin {"idle", "lease", "batch"}

Copying == {"copy", "copyRecord", "copyDelete"}

WorkerOK(s) ==
  /\ s \in WorkerStates
  /\ Engaged(s) => s.row \in Rows \ s.batch
  /\ ~Engaged(s) => s.row = None
  /\ s.pc \in {"host", "bounce"} => s.domain \in s.todo
  /\ s.pc = "host" => s.hosts > 0

\* took: the copies every domain took of every row
ProgressOK(s, took) ==
  s.pc \in {"domains", "host"} =>
    /\ s.todo \subseteq dest[s.row]
    /\ \A d \in dest[s.row] \ s.todo : took[s.row][d] > 0

LeaseOK(s) ==
  \A r \in HoldsOf(s) :
    /\ rows[r].status # "absent"
    /\ \/ r \in overrun
       \/ rows[r].status = "sending"
       \/ rows[r].status = "sent" /\ r = s.row /\ s.pc \in Copying

SubmitOK ==
  \A r \in Rows : submit[r] \in {"idle", "staged", "plain", "both"}
                    => rows[r].status = "absent"

IInv ==
  /\ TypeOK
  /\ \A w \in Workers : /\ WorkerOK(workers[w])
                       /\ ProgressOK(workers[w], accepted)
                       /\ LeaseOK(workers[w])
  /\ SubmitOK
  /\ SentMeansDelivered
  /\ LeaseExclusive
-----------------------------------------------------------------------------
\* The SQL statements of mailmeta/outbox.go keep the type of a row.
LEMMA StatementTypes ==
  /\ NoOutboxRow \in OutboxRows
  /\ \A c \in CopyStates : InsertOutboxMeta(c) \in OutboxRows
  /\ \A row \in OutboxRows :
       /\ LeaseRow(row) \in OutboxRows
       /\ MarkOutboxSent(row) \in OutboxRows
       /\ RecordSentCopy(row) \in OutboxRows
       /\ RetryOutboxEntry(row) \in OutboxRows
       /\ MarkOutboxFailed(row, TRUE) \in OutboxRows
       /\ MarkOutboxFailed(row, FALSE) \in OutboxRows
       /\ [row EXCEPT !.wait = 0] \in OutboxRows
       /\ [row EXCEPT !.stale = TRUE] \in OutboxRows
       /\ Recovered(row) \in OutboxRows
<1>1. \A k \in 0..8 : 60 * 2 ^ k \in Waits
  BY DEF Waits
<1>2. \A n \in Nat : RetryDelay(n) \in Waits
  <2>1. \A n \in Nat : (IF n < 8 THEN n ELSE 8) \in 0..8
    BY SMT
  <2> QED
    BY <1>1, <2>1 DEF RetryDelay
<1>3. 0 \in Waits
  BY DEF Waits
<1>4. ASSUME NEW row \in OutboxRows
      PROVE  row.attempts \in Nat /\ row.attempts + 1 \in Nat
  BY SMT DEF OutboxRows
<1>5. ASSUME NEW row \in OutboxRows
      PROVE  MarkOutboxFailed(row, TRUE) \in OutboxRows /\ MarkOutboxFailed(row, FALSE) \in OutboxRows
  BY <1>2, <1>4 DEF OutboxRows, MarkOutboxFailed, Statuses
<1>6. ASSUME NEW row \in OutboxRows
      PROVE  /\ LeaseRow(row) \in OutboxRows
             /\ MarkOutboxSent(row) \in OutboxRows
             /\ RecordSentCopy(row) \in OutboxRows
             /\ [row EXCEPT !.wait = 0] \in OutboxRows
             /\ [row EXCEPT !.stale = TRUE] \in OutboxRows
             /\ Recovered(row) \in OutboxRows
  BY <1>3 DEF OutboxRows, LeaseRow, MarkOutboxSent, RecordSentCopy,
    Recovered, Statuses, CopyStates
<1>7. 0 \in Nat
  OBVIOUS
<1>8. ASSUME NEW row \in OutboxRows PROVE RetryOutboxEntry(row) \in OutboxRows
  BY <1>3, <1>7 DEF OutboxRows, RetryOutboxEntry, Statuses
<1>9. NoOutboxRow \in OutboxRows /\ \A c \in CopyStates : InsertOutboxMeta(c) \in OutboxRows
  BY <1>3, <1>7 DEF OutboxRows, NoOutboxRow, InsertOutboxMeta, Statuses, CopyStates
<1> QED
  BY <1>5, <1>6, <1>8, <1>9

\* Which status each of those statements leaves behind.
LEMMA StatementStatus ==
  /\ \A c \in CopyStates : InsertOutboxMeta(c).status = "pending"
  /\ \A row \in OutboxRows :
       /\ LeaseRow(row).status = "sending"
       /\ MarkOutboxSent(row).status = "sent"
       /\ RecordSentCopy(row).status = row.status
       /\ RetryOutboxEntry(row).status = "pending"
       /\ MarkOutboxFailed(row, TRUE).status = "pending"
       /\ MarkOutboxFailed(row, FALSE).status = "failed"
       /\ [row EXCEPT !.wait = 0].status = row.status
       /\ [row EXCEPT !.stale = TRUE].status = row.status
       /\ Recovered(row).status = "pending"
BY DEF OutboxRows, InsertOutboxMeta, LeaseRow, MarkOutboxSent, RecordSentCopy,
  RetryOutboxEntry, MarkOutboxFailed, Recovered

\* An idle worker holds nothing.
LEMMA IdleOK == WorkerOK(IdleWorker) /\ ProgressOK(IdleWorker, accepted) /\ HoldsOf(IdleWorker) = {}
<1>1. IdleWorker \in WorkerStates
  BY WorkerAssumption, SMT DEF IdleWorker, WorkerStates, WorkerPCs
<1> QED
  BY <1>1 DEF WorkerOK, ProgressOK, HoldsOf, Engaged, IdleWorker

\* One worker changes its own state and no row changes its status.
LEMMA LocalStep ==
  ASSUME IInv, NEW w \in Workers, NEW s,
         WorkerOK(s), ProgressOK(s, accepted'), HoldsOf(s) \subseteq Holds(w),
         workers[w].pc \in Copying /\ workers[w].row \in HoldsOf(s)
           => s.row = workers[w].row /\ s.pc \in Copying,
         workers' = [workers EXCEPT ![w] = s],
         rows' \in [Rows -> OutboxRows],
         \A r \in Rows : rows'[r].status = rows[r].status,
         payload' = payload, staging' \in SUBSET Rows, bounces' \in SUBSET (Rows \X Domains),
         copies' \in [Rows -> Nat], lost' \in [Rows -> [Domains -> Nat]],
         accepted' \in [Rows -> [Domains -> Nat]],
         \A r \in Rows, d \in Domains : accepted[r][d] > 0 => accepted'[r][d] > 0,
         UNCHANGED <<dest, submit, leases, overrun>>
  PROVE  IInv'
<1>1. workers'[w] = s /\ \A v \in Workers \ {w} : workers'[v] = workers[v]
  BY DEF IInv, TypeOK
<1>2. TypeOK'
  <2>1. workers' \in [Workers -> WorkerStates]
    BY DEF IInv, TypeOK, WorkerOK
  <2> QED
    BY <2>1 DEF IInv, TypeOK
<1>3. ASSUME NEW v \in Workers
      PROVE  WorkerOK(workers[v])' /\ ProgressOK(workers[v], accepted)'
  <2>1. CASE v = w
    BY <1>1, <2>1 DEF WorkerOK, ProgressOK, Engaged
  <2>2. CASE v # w
    <3>1. WorkerOK(workers[v])'
      BY <1>1, <2>2 DEF IInv, WorkerOK, Engaged
    <3>2. workers[v].pc \in {"domains", "host"} => workers[v].row \in Rows
      BY DEF IInv, WorkerOK, Engaged
    <3>3. \A r \in Rows : dest[r] \subseteq Domains
      BY DEF IInv, TypeOK
    <3>4. ProgressOK(workers[v], accepted)
      BY DEF IInv
    <3>5. ProgressOK(workers[v], accepted)'
      BY <1>1, <2>2, <3>2, <3>3, <3>4 DEF ProgressOK
    <3> QED
      BY <3>1, <3>5
  <2> QED
    BY <2>1, <2>2
<1>4. ASSUME NEW v \in Workers PROVE LeaseOK(workers[v])'
  <2>1. CASE v = w
    <3>1. ASSUME NEW r \in HoldsOf(s)
          PROVE  /\ rows'[r].status # "absent"
                 /\ \/ r \in overrun'
                    \/ rows'[r].status = "sending"
                    \/ rows'[r].status = "sent" /\ r = s.row /\ s.pc \in Copying
      <4>1. r \in Holds(w) /\ r \in Rows
        BY DEF WorkerOK, WorkerStates, HoldsOf
      <4> QED
        BY <4>1 DEF IInv, LeaseOK, Holds
    <3> QED
      BY <1>1, <2>1, <3>1 DEF LeaseOK, HoldsOf
  <2>2. CASE v # w
    <3>1. HoldsOf(workers[v]) \subseteq Rows
      BY DEF IInv, WorkerOK, WorkerStates, HoldsOf
    <3>2. LeaseOK(workers[v])
      BY DEF IInv
    <3> QED
      BY <1>1, <2>2, <3>1, <3>2, ZenonT(30) DEF LeaseOK, HoldsOf
  <2> QED
    BY <2>1, <2>2
<1>5. SubmitOK' /\ SentMeansDelivered'
  <2>1. \A r \in Rows : dest[r] \subseteq Domains
    BY DEF IInv, TypeOK
  <2> QED
    BY <2>1 DEF IInv, SubmitOK, SentMeansDelivered
<1>6. LeaseExclusive'
  <2>1. \A v \in Workers : Holds(v)' \subseteq Holds(v)
    BY <1>1 DEF Holds
  <2> QED
    BY <2>1 DEF IInv, LeaseExclusive
<1> QED
  BY <1>2, <1>3, <1>4, <1>5, <1>6 DEF IInv

\* Rows become pending that nobody holds, or that are from now on overrun.
LEMMA StoreStep ==
  ASSUME IInv,
         rows' \in [Rows -> OutboxRows], submit' \in [Rows -> SubmitStates],
         payload' \in SUBSET Rows, staging' \in SUBSET Rows,
         overrun' \in SUBSET Rows, overrun \subseteq overrun',
         UNCHANGED <<dest, bounces, accepted, lost, copies, leases>>,
         SubmitOK',
         \A r \in Rows :
           \/ rows'[r].status = rows[r].status
           \/ /\ rows'[r].status = "pending"
              /\ r \in overrun' \/ \A v \in Workers : r \notin Holds(v),
         workers' \in [Workers -> WorkerStates],
         \A v \in Workers : /\ WorkerOK(workers'[v])
                            /\ HoldsOf(workers'[v]) = HoldsOf(workers[v])
                            /\ \/ workers'[v] = workers[v]
                               \/ ~Engaged(workers[v]) /\ ~Engaged(workers'[v])
  PROVE  IInv'
<1>1. TypeOK'
  BY DEF IInv, TypeOK
<1>2. ASSUME NEW v \in Workers
      PROVE  WorkerOK(workers[v])' /\ ProgressOK(workers[v], accepted)'
  <2>1. ~Engaged(workers'[v]) => workers'[v].pc \notin {"domains", "host"}
    BY DEF Engaged
  <2> QED
    BY <2>1 DEF IInv, WorkerOK, ProgressOK, Engaged
<1>3. ASSUME NEW v \in Workers PROVE LeaseOK(workers[v])'
  <2>1. HoldsOf(workers[v]) \subseteq Rows
    BY SMT DEF IInv, WorkerOK, WorkerStates, HoldsOf
  <2>2. ~Engaged(workers[v]) => workers[v].pc \notin Copying
    BY DEF Engaged, Copying
  <2>3. ASSUME NEW r \in HoldsOf(workers[v])
        PROVE  /\ rows'[r].status # "absent"
               /\ \/ r \in overrun'
                  \/ rows'[r].status = "sending"
                  \/ /\ rows'[r].status = "sent" /\ r = workers'[v].row
                     /\ workers'[v].pc \in Copying
    <3>1. r \in Rows /\ r \in Holds(v)
      BY <2>1 DEF Holds
    <3> QED
      BY <2>2, <3>1 DEF IInv, LeaseOK
  <2> QED
    BY <2>3 DEF LeaseOK, HoldsOf
<1>4. SentMeansDelivered'
  BY DEF IInv, SentMeansDelivered
<1>5. LeaseExclusive'
  <2>1. \A v \in Workers : Holds(v)' = Holds(v)
    BY DEF Holds, HoldsOf
  <2> QED
    BY <2>1, SMT DEF IInv, LeaseExclusive
<1> QED
  BY <1>1, <1>2, <1>3, <1>4, <1>5 DEF IInv

\* Worker w rewrites the row it is delivering, and lets go of it unless it goes on to
\* store the sent copy.
LEMMA SettleStep ==
  ASSUME IInv, NEW w \in Workers, NEW r \in Rows, NEW s, NEW row \in OutboxRows,
         r = workers[w].row, Engaged(workers[w]), workers[w].pc \notin Copying,
         WorkerOK(s), ProgressOK(s, accepted), HoldsOf(s) \subseteq Holds(w),
         r \in HoldsOf(s) => row.status = "sent" /\ s.row = r /\ s.pc \in Copying,
         row.status \in {"pending", "failed", "sent"},
         row.status = "sent" => \A d \in dest[r] : accepted[r][d] > 0,
         workers' = [workers EXCEPT ![w] = s],
         rows' = [rows EXCEPT ![r] = row],
         UNCHANGED <<dest, submit, payload, staging, bounces, history>>
  PROVE  IInv'
<1> USE DEF history
<1>1. workers'[w] = s /\ \A v \in Workers \ {w} : workers'[v] = workers[v]
  BY DEF IInv, TypeOK
<1>2. rows'[r] = row /\ \A q \in Rows \ {r} : rows'[q] = rows[q]
  BY DEF IInv, TypeOK
<1>3. r \in Holds(w)
  BY WorkerAssumption DEF Holds, HoldsOf
<1>4. TypeOK'
  <2>1. workers' \in [Workers -> WorkerStates]
    BY DEF IInv, TypeOK, WorkerOK
  <2>2. rows' \in [Rows -> OutboxRows]
    BY DEF IInv, TypeOK
  <2> QED
    BY <2>1, <2>2 DEF IInv, TypeOK
<1>5. ASSUME NEW v \in Workers
      PROVE  WorkerOK(workers[v])' /\ ProgressOK(workers[v], accepted)'
  BY <1>1, SMT DEF IInv, WorkerOK, ProgressOK, Engaged
<1>6. ASSUME NEW v \in Workers PROVE LeaseOK(workers[v])'
  <2>1. HoldsOf(workers[v]) \subseteq Rows /\ HoldsOf(s) \subseteq Rows
    BY DEF IInv, WorkerOK, WorkerStates, HoldsOf
  <2>2. CASE v = w
    <3>1. ASSUME NEW q \in HoldsOf(s)
          PROVE  /\ rows'[q].status # "absent"
                 /\ \/ q \in overrun'
                    \/ rows'[q].status = "sending"
                    \/ rows'[q].status = "sent" /\ q = s.row /\ s.pc \in Copying
      <4>1. q \in Holds(w) /\ q \in Rows
        BY <2>1
      <4> QED
        BY <1>2, <4>1 DEF IInv, LeaseOK, Holds
    <3> QED
      BY <1>1, <2>2, <3>1 DEF LeaseOK, HoldsOf
  <2>3. CASE v # w
    <3>1. r \in HoldsOf(workers[v]) => r \in overrun
      BY <1>3, <2>3 DEF IInv, LeaseExclusive, Holds
    <3> QED
      BY <1>1, <1>2, <2>1, <2>3, <3>1, SMT DEF IInv, LeaseOK, HoldsOf
  <2> QED
    BY <2>2, <2>3
<1>7. SubmitOK' /\ SentMeansDelivered'
  <2>1. rows[r].status # "absent"
    BY <1>3 DEF IInv, LeaseOK, Holds
  <2> QED
    BY <1>2, <2>1 DEF IInv, SubmitOK, SentMeansDelivered
<1>8. LeaseExclusive'
  <2>1. \A v \in Workers : Holds(v)' \subseteq Holds(v)
    BY <1>1 DEF Holds
  <2> QED
    BY <2>1 DEF IInv, LeaseExclusive
<1> QED
  BY <1>4, <1>5, <1>6, <1>7, <1>8 DEF IInv

Released(w) == [workers[w] EXCEPT !.pc = "batch", !.row = None, !.todo = {},
                                  !.domain = None, !.hosts = 0, !.reply = "none"]

\* A worker that is done with its row holds the rest of its batch.
LEMMA ReleasedOK ==
  ASSUME IInv, NEW w \in Workers
  PROVE  /\ RowDone(w) = [workers EXCEPT ![w] = Released(w)]
         /\ WorkerOK(Released(w)) /\ ProgressOK(Released(w), accepted)
         /\ HoldsOf(Released(w)) = workers[w].batch
<1>1. workers[w] \in WorkerStates
  BY DEF IInv, WorkerOK
<1>2. 0 \in 0..MaxHosts
  BY WorkerAssumption, SMT
<1>3. Released(w) \in WorkerStates
  BY <1>1, <1>2 DEF Released, WorkerStates, WorkerPCs
<1>4. /\ Released(w).pc = "batch" /\ Released(w).row = None
      /\ Released(w).batch = workers[w].batch
  BY <1>1 DEF Released, WorkerStates
<1>5. RowDone(w) = [workers EXCEPT ![w] = Released(w)]
  BY DEF RowDone, Released
<1> QED
  BY <1>3, <1>4, <1>5 DEF WorkerOK, ProgressOK, HoldsOf, Engaged

\* A step of a submission keeps the invariant.
LEMMA SubmitPreserves ==
  ASSUME IInv, NEW r \in Rows, Submit(r) PROVE IInv'
<1> USE DEF history, stores
<1>1. \A v \in Workers : WorkerOK(workers[v])
  BY DEF IInv
<1>2. CASE SubmitStageCopy(r) \/ SubmitStorePayload(r) \/ SubmitCrash(r)
  <2>1. UNCHANGED <<rows, dest, bounces, workers, accepted, lost, copies, leases, overrun>>
    BY <1>2 DEF SubmitStageCopy, SubmitStorePayload, SubmitCrash
  <2>2. payload' \in SUBSET Rows /\ staging' \in SUBSET Rows
    BY <1>2 DEF IInv, TypeOK, SubmitStageCopy, SubmitStorePayload, SubmitCrash, BestEffortDelete
  <2>3. submit' \in [Rows -> SubmitStates]
    BY <1>2 DEF IInv, TypeOK, SubmitStageCopy, SubmitStorePayload, SubmitCrash, SubmitStates
  <2>4. SubmitOK'
    BY <1>2, <2>1 DEF IInv, TypeOK, SubmitOK, SubmitStageCopy, SubmitStorePayload, SubmitCrash
  <2> QED
    BY <1>1, <2>1, <2>2, <2>3, <2>4, StoreStep DEF IInv, TypeOK
<1>3. CASE SubmitInsert(r)
  <2>1. PICK c \in CopyStates : rows' \in {rows, [rows EXCEPT ![r] = InsertOutboxMeta(c)]}
    <3>1. (IF submit[r] = "both" THEN "staged" ELSE "none") \in CopyStates
      BY DEF CopyStates
    <3> QED
      BY <1>3, <3>1 DEF SubmitInsert
  <2>2. InsertOutboxMeta(c) \in OutboxRows /\ InsertOutboxMeta(c).status = "pending"
    BY StatementTypes, StatementStatus
  <2>3. rows' \in [Rows -> OutboxRows]
    BY <2>1, <2>2 DEF IInv, TypeOK
  <2>4. submit[r] \in {"plain", "both"} /\ rows[r].status = "absent"
    BY <1>3 DEF IInv, SubmitOK, SubmitInsert
  <2>5. \A v \in Workers : r \notin Holds(v)
    BY <2>4 DEF IInv, LeaseOK, Holds
  <2>6. \A q \in Rows : rows'[q].status = rows[q].status
                          \/ (q = r /\ rows'[q].status = "pending")
    <3>1. rows \in [Rows -> OutboxRows]
      BY DEF IInv, TypeOK
    <3>2. CASE rows' = rows
      BY <3>2
    <3>3. CASE rows' = [rows EXCEPT ![r] = InsertOutboxMeta(c)]
      BY <2>2, <3>1, <3>3
    <3> QED
      BY <2>1, <3>2, <3>3
  <2>7. /\ UNCHANGED <<dest, bounces, workers, accepted, lost, copies, leases, overrun>>
        /\ payload' \in SUBSET Rows /\ staging' \in SUBSET Rows
    BY <1>3 DEF IInv, TypeOK, SubmitInsert, BestEffortDelete
  <2>8. /\ submit' \in [Rows -> SubmitStates]
        /\ submit'[r] \in {"accepted", "refused"}
        /\ \A q \in Rows \ {r} : submit'[q] = submit[q]
    BY <1>3 DEF IInv, TypeOK, SubmitInsert, SubmitStates
  <2>9. SubmitOK'
    BY <2>6, <2>8 DEF IInv, SubmitOK
  <2> QED
    BY <1>1, <2>3, <2>5, <2>6, <2>7, <2>8, <2>9, StoreStep DEF IInv, TypeOK
<1> QED
  BY <1>2, <1>3 DEF Submit

\* The clock and the administrator touch the status of a failed row only.
LEMMA ClockPreserves ==
  ASSUME IInv, NEW r \in Rows, BackoffElapses(r) \/ LeaseAges(r) \/ AdminRetry(r)
  PROVE  IInv'
<1> USE DEF history
<1>1. rows[r] \in OutboxRows
  BY DEF IInv, TypeOK
<1>2. PICK row \in OutboxRows :
        /\ rows' = [rows EXCEPT ![r] = row]
        /\ \/ row.status = rows[r].status
           \/ rows[r].status = "failed" /\ row.status = "pending"
  <2>1. CASE BackoffElapses(r)
    <3>1. rows' = [rows EXCEPT ![r] = [rows[r] EXCEPT !.wait = 0]]
      BY <2>1 DEF BackoffElapses
    <3>2. /\ [rows[r] EXCEPT !.wait = 0] \in OutboxRows
          /\ [rows[r] EXCEPT !.wait = 0].status = rows[r].status
      BY <1>1, StatementTypes, StatementStatus
    <3> QED
      BY <3>1, <3>2
  <2>2. CASE LeaseAges(r)
    <3>1. rows' = [rows EXCEPT ![r] = [rows[r] EXCEPT !.stale = TRUE]]
      BY <2>2 DEF LeaseAges
    <3>2. /\ [rows[r] EXCEPT !.stale = TRUE] \in OutboxRows
          /\ [rows[r] EXCEPT !.stale = TRUE].status = rows[r].status
      BY <1>1, StatementTypes, StatementStatus
    <3> QED
      BY <3>1, <3>2
  <2>3. CASE AdminRetry(r)
    <3>1. rows[r].status = "failed" /\ rows' = [rows EXCEPT ![r] = RetryOutboxEntry(rows[r])]
      BY <2>3 DEF AdminRetry
    <3>2. /\ RetryOutboxEntry(rows[r]) \in OutboxRows
          /\ RetryOutboxEntry(rows[r]).status = "pending"
      BY <1>1, StatementTypes, StatementStatus
    <3> QED
      BY <3>1, <3>2
  <2> QED
    BY <2>1, <2>2, <2>3
<1>3. rows' \in [Rows -> OutboxRows]
  BY <1>2 DEF IInv, TypeOK
<1>4. \A q \in Rows : rows'[q].status = rows[q].status
                        \/ (q = r /\ rows[q].status = "failed" /\ rows'[q].status = "pending")
  BY <1>2 DEF IInv, TypeOK
<1>5. rows[r].status = "failed" => r \in overrun \/ \A v \in Workers : r \notin Holds(v)
  BY DEF IInv, LeaseOK, Holds
<1>6. UNCHANGED <<dest, submit, payload, staging, bounces, workers, accepted, lost,
                  copies, leases, overrun>>
  BY DEF BackoffElapses, LeaseAges, AdminRetry
<1>7. SubmitOK'
  BY <1>4, <1>6 DEF IInv, SubmitOK
<1>8. \A v \in Workers : WorkerOK(workers[v])
  BY DEF IInv
<1> QED
  BY <1>3, <1>4, <1>5, <1>6, <1>7, <1>8, StoreStep DEF IInv, TypeOK

\* A crash keeps the invariant.
LEMMA CrashPreserves ==
  ASSUME IInv, NEW w \in Workers, WorkerCrash(w) PROVE IInv'
BY IdleOK, LocalStep DEF WorkerCrash, IInv, TypeOK, stores, history

\* A failing statement of RunOnce keeps it.
LEMMA RunOnceErrorPreserves ==
  ASSUME IInv, NEW w \in Workers, RunOnceError(w) PROVE IInv'
<1> USE DEF stores, history
<1>1. CASE workers' = [workers EXCEPT ![w] = IdleWorker]
  BY <1>1, IdleOK, LocalStep DEF RunOnceError, IInv, TypeOK
<1>2. CASE At(w, "idle") /\ workers' = [workers EXCEPT ![w].pc = "lease"]
  <2> DEFINE s == [workers[w] EXCEPT !.pc = "lease"]
  <2>1. workers[w] \in WorkerStates /\ workers[w].row = None /\ workers[w].pc = "idle"
    BY <1>2 DEF IInv, WorkerOK, Engaged, At
  <2>2. s \in WorkerStates /\ s.pc = "lease" /\ s.row = None /\ s.batch = workers[w].batch
    BY <2>1 DEF WorkerStates, WorkerPCs
  <2>3. WorkerOK(s) /\ ProgressOK(s, accepted) /\ HoldsOf(s) \subseteq Holds(w)
    BY <2>2 DEF WorkerOK, ProgressOK, HoldsOf, Holds, Engaged
  <2>4. workers' = [workers EXCEPT ![w] = s] /\ workers[w].pc \notin Copying
    BY <1>2, <2>1 DEF Copying
  <2> HIDE DEF s
  <2> QED
    BY <2>3, <2>4, LocalStep DEF RunOnceError, IInv, TypeOK
<1> QED
  BY <1>1, <1>2 DEF RunOnceError

\* Taking the next row keeps it.
LEMMA NextRowPreserves ==
  ASSUME IInv, NEW w \in Workers, NextRow(w) PROVE IInv'
<1> USE DEF stores, history
<1>1. CASE workers' = [workers EXCEPT ![w] = IdleWorker]
  BY <1>1, IdleOK, LocalStep DEF NextRow, IInv, TypeOK
<1>2. ASSUME NEW r \in workers[w].batch,
             workers' = [workers EXCEPT ![w] = [@ EXCEPT !.pc = "prepare", !.row = r,
                                                         !.batch = workers[w].batch \ {r}]]
      PROVE  IInv'
  <2> DEFINE s == [workers[w] EXCEPT !.pc = "prepare", !.row = r, !.batch = workers[w].batch \ {r}]
  <2>1. /\ workers[w] \in WorkerStates /\ workers[w].pc = "batch"
        /\ r \in Rows /\ workers[w].batch \ {r} \in SUBSET Rows
    BY DEF NextRow, At, IInv, WorkerOK, WorkerStates
  <2>2. s \in WorkerStates
    BY <2>1 DEF WorkerStates, WorkerPCs
  <2>3. s.pc = "prepare" /\ s.row = r /\ s.batch = workers[w].batch \ {r}
    BY <2>1 DEF WorkerStates
  <2>4. workers' = [workers EXCEPT ![w] = s]
    BY <1>2
  <2> HIDE DEF s
  <2>5. WorkerOK(s) /\ ProgressOK(s, accepted) /\ HoldsOf(s) \subseteq Holds(w)
    BY <2>1, <2>2, <2>3 DEF WorkerOK, ProgressOK, HoldsOf, Holds, Engaged
  <2> QED
    BY <2>1, <2>4, <2>5, LocalStep DEF NextRow, IInv, TypeOK, Copying
<1> QED
  BY <1>1, <1>2 DEF NextRow

\* Preparing a message keeps it.
LEMMA PreparePreserves ==
  ASSUME IInv, NEW w \in Workers, Prepare(w) PROVE IInv'
<1> USE DEF stores, history
<1>1. /\ workers[w] \in WorkerStates /\ workers[w].pc = "prepare"
      /\ workers[w].row \in Rows \ workers[w].batch
  BY DEF Prepare, At, IInv, WorkerOK, Engaged
<1>2. PICK s : /\ workers' = [workers EXCEPT ![w] = s]
               /\ s \in WorkerStates
               /\ s.row = workers[w].row /\ s.batch = workers[w].batch
               /\ s.pc \in {"domains", "failPermanent", "failTransient"}
               /\ s.pc = "domains" => s.todo = dest[s.row]
  <2>1. CASE workers' = [workers EXCEPT ![w] = [@ EXCEPT !.pc = "domains",
                                                         !.todo = dest[workers[w].row]]]
    <3> DEFINE s == [workers[w] EXCEPT !.pc = "domains", !.todo = dest[workers[w].row]]
    <3>1. dest[workers[w].row] \in SUBSET Domains
      BY <1>1 DEF IInv, TypeOK
    <3>2. s \in WorkerStates
      BY <1>1, <3>1 DEF WorkerStates, WorkerPCs
    <3>3. /\ s.row = workers[w].row /\ s.batch = workers[w].batch
          /\ s.pc = "domains" /\ s.todo = dest[workers[w].row]
      BY <1>1 DEF WorkerStates
    <3>4. workers' = [workers EXCEPT ![w] = s]
      BY <2>1
    <3> HIDE DEF s
    <3> QED
      BY <3>2, <3>3, <3>4
  <2>2. ASSUME NEW pc \in {"failPermanent", "failTransient"},
               workers' = [workers EXCEPT ![w].pc = pc]
        PROVE  \E s : /\ workers' = [workers EXCEPT ![w] = s]
                      /\ s \in WorkerStates
                      /\ s.row = workers[w].row /\ s.batch = workers[w].batch
                      /\ s.pc \in {"domains", "failPermanent", "failTransient"}
                      /\ s.pc = "domains" => s.todo = dest[s.row]
    <3> DEFINE s == [workers[w] EXCEPT !.pc = pc]
    <3>1. s \in WorkerStates /\ s.row = workers[w].row /\ s.batch = workers[w].batch /\ s.pc = pc
      BY <1>1 DEF WorkerStates, WorkerPCs
    <3>2. workers' = [workers EXCEPT ![w] = s]
      BY <2>2
    <3> HIDE DEF s
    <3> QED
      BY <3>1, <3>2
  <2> QED
    BY <2>1, <2>2 DEF Prepare
<1>3. WorkerOK(s) /\ ProgressOK(s, accepted) /\ HoldsOf(s) \subseteq Holds(w)
  BY <1>1, <1>2 DEF WorkerOK, ProgressOK, HoldsOf, Holds, Engaged
<1> QED
  BY <1>1, <1>2, <1>3, LocalStep DEF Prepare, IInv, TypeOK, Copying

\* Going to the next domain keeps it.
LEMMA NextDomainPreserves ==
  ASSUME IInv, NEW w \in Workers, NextDomain(w) PROVE IInv'
<1> USE DEF stores, history
<1>1. PICK d \in workers[w].todo, n \in 1..MaxHosts :
        workers' = [workers EXCEPT ![w] = [@ EXCEPT !.pc = "host", !.domain = d,
                                                    !.hosts = n, !.reply = "none"]]
  BY DEF NextDomain
<1> DEFINE s == [workers[w] EXCEPT !.pc = "host", !.domain = d, !.hosts = n, !.reply = "none"]
<1>2. /\ workers[w] \in WorkerStates /\ workers[w].pc = "domains" /\ d \in Domains
      /\ workers[w].row \in Rows \ workers[w].batch
  BY DEF NextDomain, At, IInv, WorkerOK, WorkerStates, Engaged
<1>3. n \in 0..MaxHosts /\ n > 0
  BY WorkerAssumption, SMT
<1>4. s \in WorkerStates
  BY <1>2, <1>3 DEF WorkerStates, WorkerPCs
<1>5. /\ s.pc = "host" /\ s.row = workers[w].row /\ s.batch = workers[w].batch
      /\ s.domain = d /\ s.todo = workers[w].todo /\ s.hosts = n
  BY <1>2 DEF WorkerStates
<1>6. workers' = [workers EXCEPT ![w] = s]
  BY <1>1
<1> HIDE DEF s
<1>7. WorkerOK(s) /\ HoldsOf(s) \subseteq Holds(w)
  BY <1>2, <1>3, <1>4, <1>5 DEF WorkerOK, HoldsOf, Holds, Engaged
<1>8. ProgressOK(s, accepted)
  BY <1>2, <1>5 DEF IInv, ProgressOK
<1> QED
  BY <1>2, <1>6, <1>7, <1>8, LocalStep DEF NextDomain, IInv, TypeOK, Copying

\* Recording bounces keeps it.
LEMMA InsertBouncesPreserves ==
  ASSUME IInv, NEW w \in Workers, InsertBounces(w) PROVE IInv'
<1> USE DEF history
<1> DEFINE s == [workers[w] EXCEPT !.pc = "failPermanent"]
<1>1. /\ workers[w] \in WorkerStates /\ workers[w].pc = "bounce"
      /\ workers[w].row \in Rows \ workers[w].batch
      /\ workers[w].domain \in Domains
  BY DEF InsertBounces, At, IInv, WorkerOK, WorkerStates, Engaged
<1>2. /\ s \in WorkerStates /\ s.pc = "failPermanent"
      /\ s.row = workers[w].row /\ s.batch = workers[w].batch
  BY <1>1 DEF WorkerStates, WorkerPCs
<1>3. workers' = [workers EXCEPT ![w] = s]
  BY DEF InsertBounces
<1> HIDE DEF s
<1>4. WorkerOK(s) /\ ProgressOK(s, accepted) /\ HoldsOf(s) \subseteq Holds(w)
  BY <1>1, <1>2 DEF WorkerOK, ProgressOK, HoldsOf, Holds, Engaged
<1>5. bounces' \in SUBSET (Rows \X Domains)
  BY <1>1, SMT DEF InsertBounces, IInv, TypeOK
<1> QED
  BY <1>1, <1>3, <1>4, <1>5, LocalStep DEF InsertBounces, IInv, TypeOK, Copying

\* Recording a failure keeps it.
LEMMA SettleFailedPreserves ==
  ASSUME IInv, NEW w \in Workers, SettleFailed(w) PROVE IInv'
<1>1. /\ workers[w].pc \in {"failTransient", "failPermanent"}
      /\ workers[w].row \in Rows \ workers[w].batch
  BY DEF SettleFailed, At, IInv, WorkerOK, Engaged
<1> DEFINE r == workers[w].row
           row == MarkOutboxFailed(rows[r], At(w, "failTransient"))
<1>2. /\ workers' = [workers EXCEPT ![w] = Released(w)]
      /\ WorkerOK(Released(w)) /\ ProgressOK(Released(w), accepted)
      /\ HoldsOf(Released(w)) \subseteq Holds(w) /\ r \notin HoldsOf(Released(w))
  BY <1>1, ReleasedOK DEF SettleFailed, Holds, HoldsOf
<1>3. CASE rows' = rows
  BY <1>1, <1>2, <1>3, LocalStep DEF SettleFailed, IInv, TypeOK, Copying, history
<1>4. CASE rows' = [rows EXCEPT ![r] = row]
  <2>1. row \in OutboxRows /\ row.status \in {"pending", "failed"}
    <3>1. rows[r] \in OutboxRows
      BY <1>1 DEF IInv, TypeOK
    <3>2. row = MarkOutboxFailed(rows[r], TRUE) \/ row = MarkOutboxFailed(rows[r], FALSE)
      BY DEF MarkOutboxFailed
    <3> HIDE DEF row
    <3>3. \A t \in OutboxRows : /\ MarkOutboxFailed(t, TRUE) \in OutboxRows
                                /\ MarkOutboxFailed(t, FALSE) \in OutboxRows
                                /\ MarkOutboxFailed(t, TRUE).status = "pending"
                                /\ MarkOutboxFailed(t, FALSE).status = "failed"
      BY StatementTypes, StatementStatus
    <3> QED
      BY <3>1, <3>2, <3>3
  <2>2. Engaged(workers[w]) /\ workers[w].pc \notin Copying
    BY <1>1 DEF Engaged, Copying
  <2> HIDE DEF row
  <2> QED
    BY <1>1, <1>2, <1>4, <2>1, <2>2, SettleStep DEF SettleFailed
<1> QED
  BY <1>3, <1>4 DEF SettleFailed

\* Marking a row sent keeps it.
LEMMA SettleSentPreserves ==
  ASSUME IInv, NEW w \in Workers, SettleSent(w) PROVE IInv'
<1> DEFINE r == workers[w].row
           copying == [workers[w] EXCEPT !.pc = "copy"]
<1>1. /\ workers[w] \in WorkerStates /\ workers[w].pc = "domains" /\ workers[w].todo = {}
      /\ r \in Rows \ workers[w].batch
  BY DEF SettleSent, At, IInv, WorkerOK, Engaged
<1>2. \A d \in dest[r] : accepted[r][d] > 0
  BY <1>1 DEF IInv, ProgressOK
<1>3. PICK s : /\ workers' = [workers EXCEPT ![w] = s]
               /\ WorkerOK(s) /\ ProgressOK(s, accepted) /\ HoldsOf(s) \subseteq Holds(w)
               /\ r \in HoldsOf(s) => s.row = r /\ s.pc \in Copying
  <2>1. /\ WorkerOK(Released(w)) /\ ProgressOK(Released(w), accepted)
        /\ HoldsOf(Released(w)) \subseteq Holds(w) /\ r \notin HoldsOf(Released(w))
        /\ RowDone(w) = [workers EXCEPT ![w] = Released(w)]
    BY <1>1, ReleasedOK DEF Holds, HoldsOf
  <2>2. /\ copying \in WorkerStates /\ copying.pc = "copy"
        /\ copying.row = r /\ copying.batch = workers[w].batch
    BY <1>1 DEF WorkerStates, WorkerPCs
  <2>3. [workers EXCEPT ![w].pc = "copy"] = [workers EXCEPT ![w] = copying]
    OBVIOUS
  <2> HIDE DEF copying
  <2>4. /\ WorkerOK(copying) /\ ProgressOK(copying, accepted)
        /\ HoldsOf(copying) \subseteq Holds(w) /\ copying.pc \in Copying
    BY <1>1, <2>2 DEF WorkerOK, ProgressOK, HoldsOf, Holds, Engaged, Copying
  <2> QED
    BY <2>1, <2>2, <2>3, <2>4 DEF SettleSent
<1>4. CASE rows' = rows
  BY <1>1, <1>3, <1>4, LocalStep DEF SettleSent, IInv, TypeOK, Copying, history
<1>5. CASE rows' = [rows EXCEPT ![r] = MarkOutboxSent(rows[r])]
  <2>1. MarkOutboxSent(rows[r]) \in OutboxRows /\ MarkOutboxSent(rows[r]).status = "sent"
    BY <1>1, StatementTypes, StatementStatus, ZenonT(30) DEF IInv, TypeOK
  <2>2. Engaged(workers[w]) /\ workers[w].pc \notin Copying
    BY <1>1 DEF Engaged, Copying
  <2> QED
    BY <1>1, <1>2, <1>3, <1>5, <2>1, <2>2, SettleStep DEF SettleSent
<1> QED
  BY <1>4, <1>5 DEF SettleSent

\* Storing the sent copy keeps it.
LEMMA PersistPreserves ==
  ASSUME IInv, NEW w \in Workers, PersistSentCopy(w) PROVE IInv'
<1> USE DEF stores, history
<1>1. /\ workers[w] \in WorkerStates /\ workers[w].pc \in Copying
      /\ workers[w].row \in Rows \ workers[w].batch
  BY DEF PersistSentCopy, IngestSentCopy, PersistRecord, PersistDelete, At, IInv, WorkerOK,
    Engaged, Copying
<1>2. ASSUME NEW pc \in Copying,
             workers' = [workers EXCEPT ![w].pc = pc]
      PROVE  \E s : /\ workers' = [workers EXCEPT ![w] = s]
                    /\ WorkerOK(s) /\ ProgressOK(s, accepted) /\ HoldsOf(s) \subseteq Holds(w)
                    /\ workers[w].row \in HoldsOf(s)
                         => s.row = workers[w].row /\ s.pc \in Copying
  <2> DEFINE s == [workers[w] EXCEPT !.pc = pc]
  <2>1. /\ s \in WorkerStates /\ s.pc = pc
        /\ s.row = workers[w].row /\ s.batch = workers[w].batch
    BY <1>1 DEF WorkerStates, WorkerPCs, Copying
  <2>2. workers' = [workers EXCEPT ![w] = s]
    BY <1>2
  <2> HIDE DEF s
  <2>3. WorkerOK(s) /\ ProgressOK(s, accepted) /\ HoldsOf(s) \subseteq Holds(w)
    BY <1>1, <2>1 DEF WorkerOK, ProgressOK, HoldsOf, Holds, Engaged, Copying
  <2> QED
    BY <2>1, <2>2, <2>3
<1>3. PICK s : /\ workers' = [workers EXCEPT ![w] = s]
               /\ WorkerOK(s) /\ ProgressOK(s, accepted) /\ HoldsOf(s) \subseteq Holds(w)
               /\ workers[w].row \in HoldsOf(s)
                    => s.row = workers[w].row /\ s.pc \in Copying
  <2>1. CASE workers' = RowDone(w)
    <3>1. /\ WorkerOK(Released(w)) /\ ProgressOK(Released(w), accepted)
          /\ HoldsOf(Released(w)) \subseteq Holds(w) /\ workers[w].row \notin HoldsOf(Released(w))
          /\ RowDone(w) = [workers EXCEPT ![w] = Released(w)]
      BY <1>1, ReleasedOK DEF Holds, HoldsOf
    <3> QED
      BY <2>1, <3>1
  <2>2. \/ workers' = RowDone(w)
        \/ workers' = [workers EXCEPT ![w].pc = "copyRecord"]
        \/ workers' = [workers EXCEPT ![w].pc = "copyDelete"]
    BY DEF PersistSentCopy, IngestSentCopy, PersistRecord, PersistDelete
  <2> QED
    BY <1>2, <2>1, <2>2 DEF Copying
<1>4. /\ rows' \in [Rows -> OutboxRows]
      /\ \A q \in Rows : rows'[q].status = rows[q].status
  <2>1. RecordSentCopy(rows[workers[w].row]) \in OutboxRows
        /\ RecordSentCopy(rows[workers[w].row]).status = rows[workers[w].row].status
    BY <1>1, StatementTypes, StatementStatus, ZenonT(30) DEF IInv, TypeOK
  <2>2. \/ rows' = rows
        \/ rows' = [rows EXCEPT ![workers[w].row] = RecordSentCopy(rows[workers[w].row])]
    BY DEF PersistSentCopy, IngestSentCopy, PersistRecord, PersistDelete
  <2> QED
    BY <1>1, <2>1, <2>2, ZenonT(30) DEF IInv, TypeOK
<1>5. copies' \in [Rows -> Nat] /\ staging' \in SUBSET Rows
  BY <1>1, SMT DEF IInv, TypeOK, PersistSentCopy, IngestSentCopy, PersistRecord, PersistDelete,
    BestEffortDelete
<1>6. UNCHANGED <<dest, submit, payload, bounces, accepted, lost, leases, overrun>>
  BY DEF PersistSentCopy, IngestSentCopy, PersistRecord, PersistDelete
<1> QED
  BY <1>3, <1>4, <1>5, <1>6, LocalStep DEF IInv, TypeOK

\* Recovering stuck rows keeps it.
LEMMA RecoverPreserves ==
  ASSUME IInv, NEW w \in Workers, RunOnceRecover(w) PROVE IInv'
<1> DEFINE s == [workers[w] EXCEPT !.pc = "lease"]
<1>1. workers[w] \in WorkerStates /\ workers[w].row = None /\ ~Engaged(workers[w])
  BY DEF RunOnceRecover, IInv, WorkerOK, Engaged, At
<1>2. s \in WorkerStates /\ s.pc = "lease" /\ s.row = None /\ s.batch = workers[w].batch
  BY <1>1 DEF WorkerStates, WorkerPCs
<1>3. workers' = [workers EXCEPT ![w] = s]
  BY DEF RunOnceRecover
<1> HIDE DEF s
<1>4. WorkerOK(s) /\ HoldsOf(s) = HoldsOf(workers[w]) /\ ~Engaged(s)
  BY <1>1, <1>2 DEF WorkerOK, HoldsOf, Engaged
<1>5. /\ workers' \in [Workers -> WorkerStates]
      /\ \A v \in Workers : /\ WorkerOK(workers'[v])
                            /\ HoldsOf(workers'[v]) = HoldsOf(workers[v])
                            /\ \/ workers'[v] = workers[v]
                               \/ ~Engaged(workers[v]) /\ ~Engaged(workers'[v])
  <2>1. \A v \in Workers : workers'[v] = workers[v] \/ (v = w /\ workers'[v] = s)
    BY <1>3 DEF IInv, TypeOK
  <2>2. \A v \in Workers : WorkerOK(workers[v])
    BY DEF IInv
  <2>3. workers' \in [Workers -> WorkerStates]
    BY <1>2, <1>3 DEF IInv, TypeOK
  <2> QED
    BY <1>1, <1>4, <2>1, <2>2, <2>3
<1>6. /\ rows' \in [Rows -> OutboxRows]
      /\ \A r \in Rows : rows'[r].status = rows[r].status
                          \/ (Stuck(rows[r]) /\ rows'[r].status = "pending")
  <2>1. rows' = [r \in Rows |-> IF Stuck(rows[r]) THEN Recovered(rows[r]) ELSE rows[r]]
    BY DEF RunOnceRecover, RecoverStuckSending, IInv, TypeOK
  <2>2. \A r \in Rows : /\ rows[r] \in OutboxRows
                        /\ Recovered(rows[r]) \in OutboxRows
                        /\ Recovered(rows[r]).status = "pending"
    BY StatementTypes, StatementStatus, ZenonT(30) DEF IInv, TypeOK
  <2> QED
    BY <2>1, <2>2
<1>7. /\ overrun' \in SUBSET Rows /\ overrun \subseteq overrun'
      /\ \A r \in Rows : Stuck(rows[r]) =>
           r \in overrun' \/ \A v \in Workers : r \notin Holds(v)
  BY DEF RunOnceRecover, IInv, TypeOK
<1>8. UNCHANGED <<dest, submit, payload, staging, bounces, accepted, lost, copies, leases>>
  BY DEF RunOnceRecover
<1>9. SubmitOK'
  BY <1>6, <1>8 DEF IInv, SubmitOK, Stuck
<1> QED
  BY <1>5, <1>6, <1>7, <1>8, <1>9, StoreStep DEF IInv, TypeOK

\* Leasing a batch keeps it.
LEMMA LeasePreserves ==
  ASSUME IInv, NEW w \in Workers, RunOnceLease(w) PROVE IInv'
<1>1. PICK leased \in SUBSET {r \in Rows : Leasable(rows[r])} :
        /\ rows' = [r \in Rows |-> IF r \in leased THEN LeaseRow(rows[r]) ELSE rows[r]]
        /\ leases' = [r \in Rows |-> IF r \in leased THEN leases[r] + 1 ELSE leases[r]]
        /\ workers' = [workers EXCEPT ![w] =
             [@ EXCEPT !.pc = "batch", !.batch = leased,
                       !.staged = {r \in leased : rows[r].copy = "staged"}]]
  BY DEF RunOnceLease
<1>2. UNCHANGED <<dest, submit, payload, staging, bounces, accepted, lost, copies, overrun>>
  BY DEF RunOnceLease
<1> DEFINE staged == {r \in leased : rows[r].copy = "staged"}
           s == [workers[w] EXCEPT !.pc = "batch", !.batch = leased, !.staged = staged]
<1>3. /\ workers[w] \in WorkerStates /\ workers[w].row = None
      /\ leased \in SUBSET Rows /\ staged \in SUBSET Rows
  BY DEF RunOnceLease, IInv, WorkerOK, Engaged, At
<1> HIDE DEF staged
<1>4. s \in WorkerStates
  BY <1>3 DEF WorkerStates, WorkerPCs
<1>5. s.pc = "batch" /\ s.row = None /\ s.batch = leased
  BY <1>3 DEF WorkerStates
<1>6. workers' = [workers EXCEPT ![w] = s]
  BY <1>1 DEF staged
<1> HIDE DEF s
<1>7. HoldsOf(s) = leased /\ WorkerOK(s) /\ ProgressOK(s, accepted)
  BY <1>3, <1>4, <1>5 DEF HoldsOf, WorkerOK, ProgressOK, Engaged
<1>8. workers'[w] = s /\ \A v \in Workers \ {w} : workers'[v] = workers[v]
  BY <1>6 DEF IInv, TypeOK
<1>9. \A r \in Rows : rows[r] \in OutboxRows /\ LeaseRow(rows[r]) \in OutboxRows
                        /\ LeaseRow(rows[r]).status = "sending"
  BY StatementTypes, StatementStatus DEF IInv, TypeOK
<1>10. /\ \A r \in leased : rows'[r].status = "sending" /\ rows[r].status = "pending"
       /\ \A r \in Rows \ leased : rows'[r] = rows[r]
  BY <1>1, <1>9 DEF Leasable
<1>11. \A v \in Workers : \A r \in leased : r \in Holds(v) => r \in overrun
  <2>1. \A v \in Workers : LeaseOK(workers[v])
    BY DEF IInv
  <2> QED
    BY <1>10, <2>1 DEF LeaseOK, Holds
<1>12. TypeOK'
  <2>1. workers' \in [Workers -> WorkerStates]
    BY <1>4, <1>6 DEF IInv, TypeOK
  <2>2. rows' \in [Rows -> OutboxRows] /\ leases' \in [Rows -> Nat]
    BY <1>1, <1>9, SMT DEF IInv, TypeOK
  <2> QED
    BY <1>2, <2>1, <2>2 DEF IInv, TypeOK
<1>13. ASSUME NEW v \in Workers
       PROVE  WorkerOK(workers[v])' /\ ProgressOK(workers[v], accepted)'
  BY <1>2, <1>7, <1>8, ZenonT(30) DEF IInv, WorkerOK, ProgressOK, Engaged
<1>14. ASSUME NEW v \in Workers PROVE LeaseOK(workers[v])'
  <2>1. CASE v = w
    <3>1. \A r \in HoldsOf(s) : rows'[r].status = "sending"
      BY <1>7, <1>10
    <3> QED
      BY <1>8, <2>1, <3>1 DEF LeaseOK, HoldsOf
  <2>2. CASE v # w
    <3>1. HoldsOf(workers[v]) \subseteq Rows /\ LeaseOK(workers[v])
      BY DEF IInv, WorkerOK, WorkerStates, HoldsOf
    <3>2. \A r \in HoldsOf(workers[v]) : r \in leased => r \in overrun
      BY <1>11 DEF Holds
    <3> QED
      BY <1>2, <1>8, <1>10, <2>2, <3>1, <3>2, SMT DEF LeaseOK, HoldsOf
  <2> QED
    BY <2>1, <2>2
<1>15. SubmitOK' /\ SentMeansDelivered'
  BY <1>2, <1>10 DEF IInv, SubmitOK, SentMeansDelivered
<1>16. LeaseExclusive'
  <2>1. Holds(w)' = leased /\ \A v \in Workers \ {w} : Holds(v)' = Holds(v)
    BY <1>7, <1>8 DEF Holds, HoldsOf
  <2> QED
    BY <1>2, <1>11, <2>1, SMT DEF IInv, LeaseExclusive
<1> QED
  BY <1>12, <1>13, <1>14, <1>15, <1>16 DEF IInv

\* One more copy is counted for domain d.
LEMMA CountOneMore ==
  ASSUME NEW f \in [Rows -> [Domains -> Nat]], NEW r \in Rows, NEW d \in Domains,
         NEW g, g = [f EXCEPT ![r][d] = f[r][d] + 1]
  PROVE  /\ g \in [Rows -> [Domains -> Nat]]
         /\ g[r][d] > 0
         /\ \A q \in Rows, e \in Domains : f[q][e] > 0 => g[q][e] > 0
<1> DEFINE h == [f[r] EXCEPT ![d] = f[r][d] + 1]
<1>1. h \in [Domains -> Nat] /\ h[d] = f[r][d] + 1 /\ \A e \in Domains \ {d} : h[e] = f[r][e]
  BY SMT
<1>2. g = [f EXCEPT ![r] = h]
  OBVIOUS
<1> HIDE DEF h
<1>3. g \in [Rows -> [Domains -> Nat]] /\ g[r] = h /\ \A q \in Rows \ {r} : g[q] = f[q]
  BY <1>1, <1>2
<1>4. f[r][d] \in Nat /\ g[r][d] > 0
  BY <1>1, <1>3, SMT
<1> QED
  BY <1>1, <1>3, <1>4

\* Asking one MX host keeps it.
LEMMA DeliverPreserves ==
  ASSUME IInv, NEW w \in Workers, DeliverHost(w) PROVE IInv'
<1> DEFINE r == workers[w].row
           d == workers[w].domain
<1>1. /\ workers[w] \in WorkerStates /\ workers[w].pc = "host"
      /\ r \in Rows \ workers[w].batch
      /\ d \in workers[w].todo /\ d \in Domains
      /\ workers[w].hosts \in 1..MaxHosts
  BY WorkerAssumption, SMT DEF DeliverHost, At, IInv, WorkerOK, WorkerStates, Engaged
<1>2. /\ workers[w].todo \subseteq dest[r]
      /\ \A e \in dest[r] \ workers[w].todo : accepted[r][e] > 0
  BY <1>1 DEF IInv, ProgressOK
<1>3. /\ accepted' \in [Rows -> [Domains -> Nat]] /\ lost' \in [Rows -> [Domains -> Nat]]
      /\ \A q \in Rows, e \in Domains : accepted[q][e] > 0 => accepted'[q][e] > 0
  <2>1. \/ accepted' = accepted
        \/ accepted' = [accepted EXCEPT ![r][d] = accepted[r][d] + 1]
    BY DEF DeliverHost
  <2>2. \/ lost' = lost
        \/ lost' = [lost EXCEPT ![r][d] = lost[r][d] + 1]
    BY DEF DeliverHost
  <2>3. /\ accepted \in [Rows -> [Domains -> Nat]] /\ lost \in [Rows -> [Domains -> Nat]]
        /\ r \in Rows /\ d \in Domains
    BY <1>1 DEF IInv, TypeOK
  <2> HIDE DEF r, d
  <2>4. lost' \in [Rows -> [Domains -> Nat]]
    BY <2>2, <2>3, CountOneMore
  <2>5. CASE accepted' = accepted
    BY <2>3, <2>4, <2>5
  <2>6. CASE accepted' = [accepted EXCEPT ![r][d] = accepted[r][d] + 1]
    <3>1. /\ accepted' \in [Rows -> [Domains -> Nat]]
          /\ \A q \in Rows, e \in Domains : accepted[q][e] > 0 => accepted'[q][e] > 0
      BY <2>3, <2>6, CountOneMore
    <3> QED
      BY <2>4, <3>1
  <2> QED
    BY <2>1, <2>5, <2>6
<1>4. UNCHANGED <<rows, dest, submit, payload, staging, bounces, copies, leases, overrun>>
  BY DEF DeliverHost, stores
<1>5. ASSUME NEW s \in WorkerStates, s.row = r, s.batch = workers[w].batch,
             workers' = [workers EXCEPT ![w] = s],
             s.pc \in {"domains", "host", "bounce", "failTransient"},
             s.pc \in {"host", "bounce"} => s.domain \in s.todo,
             s.pc = "host" => s.hosts > 0,
             s.todo \subseteq workers[w].todo,
             \A e \in workers[w].todo \ s.todo : accepted'[r][e] > 0
      PROVE  IInv'
  <2>1. WorkerOK(s) /\ HoldsOf(s) \subseteq Holds(w)
    BY <1>1, <1>5 DEF WorkerOK, HoldsOf, Holds, Engaged
  <2>2. dest[r] \subseteq Domains
    BY <1>1 DEF IInv, TypeOK
  <2>3. ProgressOK(s, accepted')
    BY <1>1, <1>2, <1>3, <1>5, <2>2 DEF ProgressOK
  <2>4. workers[w].pc \notin Copying
    BY <1>1 DEF Copying
  <2> QED
    BY <1>3, <1>4, <1>5, <2>1, <2>3, <2>4, LocalStep DEF IInv, TypeOK
<1>6. CASE DomainAccepted(w) /\ accepted' = [accepted EXCEPT ![r][d] = @ + 1]
  <2> DEFINE s == [workers[w] EXCEPT !.pc = "domains", !.todo = workers[w].todo \ {d},
                                     !.domain = None, !.reply = "2xx"]
  <2>1. workers[w].todo \ {d} \in SUBSET Domains
    BY <1>1 DEF WorkerStates
  <2>2. s \in WorkerStates
    BY <1>1, <2>1 DEF WorkerStates, WorkerPCs
  <2>3. /\ s.pc = "domains" /\ s.row = r /\ s.batch = workers[w].batch
        /\ s.todo = workers[w].todo \ {d}
    BY <1>1 DEF WorkerStates
  <2>4. workers' = [workers EXCEPT ![w] = s]
    BY <1>6 DEF DomainAccepted
  <2>5. accepted'[r][d] > 0
    BY <1>1, <1>6, SMT DEF IInv, TypeOK
  <2> HIDE DEF s
  <2> QED
    BY <1>5, <2>2, <2>3, <2>4, <2>5
<1>7. ASSUME NEW reply \in {"none", "4xx", "5xx"}, HostFailed(w, reply) PROVE IInv'
  <2> DEFINE pc == IF workers[w].hosts = 1 THEN "failTransient" ELSE "host"
             s == [workers[w] EXCEPT !.hosts = workers[w].hosts - 1, !.reply = reply, !.pc = pc]
  <2>1. /\ pc \in {"failTransient", "host"} /\ workers[w].hosts - 1 \in 0..MaxHosts
        /\ pc = "host" => workers[w].hosts - 1 > 0
    BY <1>1, WorkerAssumption, SMT
  <2>2. workers' = [workers EXCEPT ![w] = s]
    BY <1>7 DEF HostFailed
  <2> HIDE DEF pc
  <2>3. s \in WorkerStates
    BY <1>1, <2>1 DEF WorkerStates, WorkerPCs
  <2>4. /\ s.pc = pc /\ s.row = r /\ s.batch = workers[w].batch
        /\ s.todo = workers[w].todo /\ s.domain = d /\ s.hosts = workers[w].hosts - 1
    BY <1>1 DEF WorkerStates
  <2> HIDE DEF s
  <2> QED
    BY <1>1, <1>5, <2>1, <2>2, <2>3, <2>4
<1>8. CASE HostRejected(w, "5xx")
  <2> DEFINE s == [workers[w] EXCEPT !.pc = "bounce", !.reply = "5xx"]
  <2>1. s \in WorkerStates
    BY <1>1 DEF WorkerStates, WorkerPCs
  <2>2. /\ s.pc = "bounce" /\ s.row = r /\ s.batch = workers[w].batch
        /\ s.todo = workers[w].todo /\ s.domain = d
    BY <1>1 DEF WorkerStates
  <2>3. workers' = [workers EXCEPT ![w] = s]
    BY <1>8 DEF HostRejected
  <2> HIDE DEF s
  <2> QED
    BY <1>1, <1>5, <2>1, <2>2, <2>3
<1> QED
  BY <1>6, <1>7, <1>8 DEF DeliverHost

\* The invariant holds at the start.
LEMMA InitIInv == Init => IInv
<1> SUFFICES ASSUME Init PROVE IInv
  OBVIOUS
<1>1. TypeOK
  BY StatementTypes, IdleOK DEF Init, TypeOK, SubmitStates, WorkerOK
<1>2. \A w \in Workers : workers[w] = IdleWorker
  BY DEF Init
<1>3. \A w \in Workers : /\ WorkerOK(workers[w]) /\ ProgressOK(workers[w], accepted)
                        /\ LeaseOK(workers[w]) /\ Holds(w) = {}
  BY <1>2, IdleOK DEF LeaseOK, Holds
<1>4. \A r \in Rows : rows[r].status = "absent"
  BY DEF Init, NoOutboxRow
<1> QED
  BY <1>1, <1>3, <1>4 DEF IInv, SubmitOK, SentMeansDelivered, LeaseExclusive

\* Every step keeps the invariant.
LEMMA NextIInv == IInv /\ [Next]_vars => IInv'
<1> SUFFICES ASSUME IInv, [Next]_vars PROVE IInv'
  OBVIOUS
<1>1. ASSUME NEW r \in Rows, Submit(r) PROVE IInv'
  BY <1>1, SubmitPreserves
<1>2. ASSUME NEW r \in Rows, BackoffElapses(r) \/ LeaseAges(r) \/ AdminRetry(r) PROVE IInv'
  BY <1>2, ClockPreserves
<1>3. ASSUME NEW w \in Workers, WorkerStep(w) PROVE IInv'
  BY <1>3, RecoverPreserves, LeasePreserves, RunOnceErrorPreserves, NextRowPreserves,
    PreparePreserves, NextDomainPreserves, InsertBouncesPreserves, SettleFailedPreserves,
    SettleSentPreserves, PersistPreserves DEF WorkerStep
<1>4. ASSUME NEW w \in Workers, DeliverHost(w) PROVE IInv'
  BY <1>4, DeliverPreserves
<1>5. ASSUME NEW w \in Workers, WorkerCrash(w) PROVE IInv'
  BY <1>5, CrashPreserves
<1>6. CASE UNCHANGED vars
  BY <1>6, ZenonT(30) DEF vars, IInv, TypeOK, WorkerOK, ProgressOK, LeaseOK, HoldsOf, Engaged,
     SubmitOK,
    SentMeansDelivered, LeaseExclusive, Holds
<1> QED
  BY <1>1, <1>2, <1>3, <1>4, <1>5, <1>6 DEF Next

\* The invariant holds in every reachable state.
LEMMA Invariance == Spec => []IInv
BY InitIInv, NextIInv, PTL DEF Spec
-----------------------------------------------------------------------------
\* The outbox, the blobs and the workers' states keep their types.
THEOREM TypeCorrect == Spec => []TypeOK
<1>1. IInv => TypeOK
  BY DEF IInv
<1> QED
  BY <1>1, Invariance, PTL

\* mailworker.deliver marks a row sent only after every domain took a copy.
THEOREM SentDelivered == Spec => []SentMeansDelivered
<1>1. IInv => SentMeansDelivered
  BY DEF IInv
<1> QED
  BY <1>1, Invariance, PTL

\* LeasePendingOutbox gives a row to one worker at a time while no lease runs out under
\* a worker that is still busy.
THEOREM LeasesExclusive == Spec => []LeaseExclusive
<1>1. IInv => LeaseExclusive
  BY DEF IInv
<1> QED
  BY <1>1, Invariance, PTL
-----------------------------------------------------------------------------
(***************************************************************************)
(* Refinement: every step of the outbound path is a step of OutboxContract *)
(* or leaves its variables alone.                                          *)
(***************************************************************************)

\* The status moves OutboxContract allows, read off the detailed state.
StatusMove(r, from, to) ==
  \/ from = "absent" /\ to = "pending"
  \/ from = "pending" /\ to = "sending"
  \/ from = "sending" /\ to \in {"pending", "sent", "failed"}
  \/ from = "failed" /\ to = "pending"
  \/ r \in overrun /\ from # "absent" /\ to \in {"pending", "sent", "failed"}

\* The steps that write no row.
QuietStep(w) ==
  \/ RunOnceError(w) \/ NextRow(w) \/ Prepare(w) \/ NextDomain(w) \/ InsertBounces(w)
  \/ IngestSentCopy(w) \/ PersistDelete(w) \/ WorkerCrash(w)

\* Quiet steps change nothing the contract speaks of.
LEMMA QuietUnchanged ==
  ASSUME NEW w \in Workers, QuietStep(w)
  PROVE  UNCHANGED <<rows, dest, accepted, overrun>>
BY DEF QuietStep, RunOnceError, NextRow, Prepare, NextDomain, InsertBounces,
  IngestSentCopy, PersistDelete, WorkerCrash, stores, history

\* A worker that writes its row holds it: the row is "sending", or overrun.
LEMMA EngagedRow ==
  ASSUME IInv, NEW w \in Workers, Engaged(workers[w]), workers[w].pc \notin Copying
  PROVE  /\ workers[w].row \in Rows
         /\ rows[workers[w].row].status # "absent"
         /\ rows[workers[w].row].status = "sending" \/ workers[w].row \in overrun
<1>1. workers[w].row \in Rows /\ workers[w].row \in HoldsOf(workers[w])
  BY WorkerAssumption DEF IInv, WorkerOK, HoldsOf
<1> QED
  BY <1>1 DEF IInv, LeaseOK

\* Settling a row is a step of the contract.
LEMMA SettleMoves ==
  ASSUME IInv, NEW w \in Workers, SettleFailed(w) \/ SettleSent(w), NEW r \in Rows
  PROVE  rows'[r].status = rows[r].status \/ StatusMove(r, rows[r].status, rows'[r].status)
<1> DEFINE q == workers[w].row
<1>1. Engaged(workers[w]) /\ workers[w].pc \notin Copying
  BY DEF SettleFailed, SettleSent, At, Engaged, Copying
<1>2. /\ q \in Rows /\ rows[q].status # "absent"
      /\ rows[q].status = "sending" \/ q \in overrun
  BY <1>1, EngagedRow
<1>3. rows \in [Rows -> OutboxRows]
  BY DEF IInv, TypeOK
<1>4. rows' = rows \/ \E row : /\ rows' = [rows EXCEPT ![q] = row]
                              /\ row.status \in {"pending", "sent", "failed"}
  <2>1. \A t \in OutboxRows : /\ MarkOutboxFailed(t, TRUE).status = "pending"
                             /\ MarkOutboxFailed(t, FALSE).status = "failed"
                             /\ MarkOutboxSent(t).status = "sent"
    BY StatementStatus
  <2>2. CASE SettleFailed(w)
    <3> DEFINE row == MarkOutboxFailed(rows[q], At(w, "failTransient"))
    <3>1. row = MarkOutboxFailed(rows[q], TRUE) \/ row = MarkOutboxFailed(rows[q], FALSE)
      BY DEF MarkOutboxFailed
    <3>2. rows' = rows \/ rows' = [rows EXCEPT ![q] = row]
      BY <2>2 DEF SettleFailed
    <3>3. rows[q] \in OutboxRows
      BY <1>2, <1>3
    <3> HIDE DEF row
    <3>4. row.status \in {"pending", "sent", "failed"}
      BY <2>1, <3>1, <3>3
    <3> QED
      BY <3>2, <3>4
  <2>3. CASE SettleSent(w)
    <3>1. rows' = rows \/ rows' = [rows EXCEPT ![q] = MarkOutboxSent(rows[q])]
      BY <2>3 DEF SettleSent
    <3>2. MarkOutboxSent(rows[q]).status = "sent"
      BY <1>2, <1>3, StatementStatus
    <3> QED
      BY <3>1, <3>2
  <2> QED
    BY <2>2, <2>3
<1> HIDE DEF q
<1> QED
  BY <1>2, <1>3, <1>4 DEF StatusMove

\* What a step does to the status of a row, to its copies and to its lease.
LEMMA RowStep ==
  ASSUME IInv, Next, NEW r \in Rows
  PROVE  /\ rows'[r].status = rows[r].status \/ StatusMove(r, rows[r].status, rows'[r].status)
         /\ rows'[r].status = rows[r].status \/ accepted' = accepted
         /\ overrun \subseteq overrun'
         /\ r \in overrun' \ overrun => rows[r].status = "sending" /\ rows'[r].status = "pending"
         /\ dest' = dest
<1> USE DEF stores, history
<1>0. rows \in [Rows -> OutboxRows]
  BY DEF IInv, TypeOK
<1>1. ASSUME NEW q \in Rows, Submit(q)
      PROVE  /\ UNCHANGED <<dest, accepted, overrun>>
             /\ \/ rows' = rows
                \/ \E c \in CopyStates : rows' = [rows EXCEPT ![q] = InsertOutboxMeta(c)]
                   /\ rows[q].status = "absent"
  <2>1. CASE SubmitInsert(q)
    <3>1. (IF submit[q] = "both" THEN "staged" ELSE "none") \in CopyStates
      BY DEF CopyStates
    <3>2. rows[q].status = "absent"
      BY <2>1 DEF SubmitInsert, IInv, SubmitOK
    <3> QED
      BY <2>1, <3>1, <3>2 DEF SubmitInsert
  <2>2. CASE SubmitStageCopy(q) \/ SubmitStorePayload(q) \/ SubmitCrash(q)
    BY <2>2 DEF SubmitStageCopy, SubmitStorePayload, SubmitCrash
  <2> QED
    BY <1>1, <2>1, <2>2 DEF Submit
<1>2. ASSUME NEW q \in Rows, Submit(q)
      PROVE  rows'[r].status = rows[r].status \/ StatusMove(r, rows[r].status, rows'[r].status)
  BY <1>0, <1>1, <1>2, StatementStatus, SMT DEF StatusMove
<1>3. ASSUME NEW q \in Rows, BackoffElapses(q) \/ LeaseAges(q) \/ AdminRetry(q)
      PROVE  /\ UNCHANGED <<dest, accepted, overrun>>
             /\ \/ rows'[r].status = rows[r].status
                \/ StatusMove(r, rows[r].status, rows'[r].status)
  <2>1. UNCHANGED <<dest, accepted, overrun>>
    BY <1>3 DEF BackoffElapses, LeaseAges, AdminRetry
  <2>2. CASE BackoffElapses(q) \/ LeaseAges(q)
    BY <1>0, <2>1, <2>2, ZenonT(30) DEF BackoffElapses, LeaseAges, OutboxRows
  <2>3. CASE AdminRetry(q)
    <3>1. rows[q].status = "failed" /\ rows' = [rows EXCEPT ![q] = RetryOutboxEntry(rows[q])]
      BY <2>3 DEF AdminRetry
    <3>2. RetryOutboxEntry(rows[q]).status = "pending"
      BY <1>0, StatementStatus
    <3> QED
      BY <1>0, <2>1, <3>1, <3>2 DEF StatusMove
  <2> QED
    BY <1>3, <2>2, <2>3
<1>4. ASSUME NEW w \in Workers, RunOnceRecover(w)
      PROVE  /\ UNCHANGED <<dest, accepted>> /\ overrun \subseteq overrun'
             /\ r \in overrun' \ overrun => Stuck(rows[r])
             /\ rows'[r] = IF Stuck(rows[r]) THEN Recovered(rows[r]) ELSE rows[r]
  BY <1>0, <1>4 DEF RunOnceRecover, RecoverStuckSending
<1>5. Recovered(rows[r]).status = "pending"
  BY <1>0, StatementStatus
<1>6. ASSUME NEW w \in Workers, RunOnceLease(w)
      PROVE  /\ UNCHANGED <<dest, accepted, overrun>>
             /\ \/ rows'[r].status = rows[r].status
                \/ StatusMove(r, rows[r].status, rows'[r].status)
  <2>1. LeaseRow(rows[r]).status = "sending"
    BY <1>0, StatementStatus
  <2>2. rows'[r] = rows[r] \/ (rows[r].status = "pending" /\ rows'[r] = LeaseRow(rows[r]))
    BY <1>6 DEF RunOnceLease, Leasable
  <2> QED
    BY <1>6, <2>1, <2>2 DEF RunOnceLease, StatusMove
<1>7. ASSUME NEW w \in Workers, SettleFailed(w) \/ SettleSent(w)
      PROVE  UNCHANGED <<dest, accepted, overrun>>
  BY <1>7 DEF SettleFailed, SettleSent
<1>8. ASSUME NEW w \in Workers, PersistRecord(w)
      PROVE  UNCHANGED <<dest, accepted, overrun>> /\ rows'[r].status = rows[r].status
  <2>1. workers[w].row \in Rows
    BY <1>8 DEF PersistRecord, At, IInv, WorkerOK, Engaged
  <2>2. RecordSentCopy(rows[workers[w].row]).status = rows[workers[w].row].status
    BY <1>0, <2>1, StatementStatus
  <2>3. \/ rows' = rows
        \/ rows' = [rows EXCEPT ![workers[w].row] = RecordSentCopy(rows[workers[w].row])]
    BY <1>8 DEF PersistRecord
  <2> QED
    BY <1>0, <1>8, <2>1, <2>2, <2>3 DEF PersistRecord
<1>9. ASSUME NEW w \in Workers, DeliverHost(w)
      PROVE  UNCHANGED <<rows, dest, overrun>>
  BY <1>9 DEF DeliverHost
<1>10. CASE \E q \in Rows : Submit(q) \/ BackoffElapses(q) \/ LeaseAges(q) \/ AdminRetry(q)
  BY <1>1, <1>2, <1>3, <1>10
<1>11. CASE \E w \in Workers : RunOnceRecover(w)
  BY <1>4, <1>5, <1>11 DEF StatusMove, Stuck
<1>12. CASE \E w \in Workers : RunOnceLease(w) \/ SettleFailed(w) \/ SettleSent(w)
  BY <1>6, <1>7, <1>12, SettleMoves
<1>13. CASE \E w \in Workers : PersistRecord(w) \/ DeliverHost(w) \/ QuietStep(w)
  BY <1>8, <1>9, <1>13, QuietUnchanged
<1> QED
  BY <1>10, <1>11, <1>12, <1>13 DEF Next, WorkerStep, PersistSentCopy, QuietStep

\* What a step does to the copies the domains took.
LEMMA TookStep ==
  ASSUME IInv, Next, NEW r \in Rows
  PROVE  \/ accepted'[r] = accepted[r]
         \/ /\ rows[r].status = "sending" \/ r \in overrun
            /\ \A d \in Domains : accepted[r][d] > 0 => accepted'[r][d] > 0
            /\ \A d \in Domains \ dest[r] : accepted'[r][d] = accepted[r][d]
<1> USE DEF stores, history
<1>1. CASE accepted' = accepted
  BY <1>1
<1>2. ASSUME NEW w \in Workers, DeliverHost(w)
      PROVE  \/ accepted'[r] = accepted[r]
             \/ /\ rows[r].status = "sending" \/ r \in overrun
                /\ \A d \in Domains : accepted[r][d] > 0 => accepted'[r][d] > 0
                /\ \A d \in Domains \ dest[r] : accepted'[r][d] = accepted[r][d]
  <2> DEFINE q == workers[w].row
             e == workers[w].domain
  <2>1. Engaged(workers[w]) /\ workers[w].pc = "host" /\ workers[w].pc \notin Copying
    BY <1>2 DEF DeliverHost, At, Engaged, Copying
  <2>2. q \in Rows /\ (rows[q].status = "sending" \/ q \in overrun)
    BY <2>1, EngagedRow
  <2>3. e \in dest[q] /\ e \in Domains
    <3>1. e \in workers[w].todo /\ workers[w].todo \subseteq dest[q]
      BY <2>1 DEF IInv, WorkerOK, ProgressOK
    <3> QED
      BY <2>2, <3>1 DEF IInv, TypeOK
  <2>4. accepted \in [Rows -> [Domains -> Nat]]
    BY DEF IInv, TypeOK
  <2>5. accepted' = accepted \/ accepted' = [accepted EXCEPT ![q][e] = accepted[q][e] + 1]
    BY <1>2 DEF DeliverHost
  <2> HIDE DEF q, e
  <2>6. CASE accepted' = accepted
    BY <2>6
  <2>7. CASE accepted' = [accepted EXCEPT ![q][e] = accepted[q][e] + 1]
    <3>1. \A d \in Domains : accepted[r][d] > 0 => accepted'[r][d] > 0
      BY <2>2, <2>3, <2>4, <2>7, CountOneMore
    <3>2. accepted' = [accepted EXCEPT ![q] = [accepted[q] EXCEPT ![e] = accepted[q][e] + 1]]
      BY <2>7
    <3>3. CASE r # q
      BY <2>2, <2>4, <3>2, <3>3
    <3>4. CASE r = q
      <4>1. accepted'[r] = [accepted[r] EXCEPT ![e] = accepted[r][e] + 1]
        BY <2>2, <2>4, <3>2, <3>4
      <4>2. accepted[r] \in [Domains -> Nat]
        BY <2>4
      <4>3. \A d \in Domains \ dest[r] : accepted'[r][d] = accepted[r][d]
        BY <2>3, <3>4, <4>1, <4>2
      <4> QED
        BY <2>2, <3>1, <3>4, <4>3
    <3> QED
      BY <3>3, <3>4
  <2> QED
    BY <2>5, <2>6, <2>7
<1>3. CASE \E q \in Rows : Submit(q) \/ BackoffElapses(q) \/ LeaseAges(q) \/ AdminRetry(q)
  BY <1>1, <1>3 DEF Submit, SubmitStageCopy, SubmitStorePayload, SubmitInsert, SubmitCrash,
    BackoffElapses, LeaseAges, AdminRetry
<1>4. CASE \E w \in Workers : WorkerStep(w) \/ WorkerCrash(w)
  BY <1>1, <1>4, QuietUnchanged DEF WorkerStep, RunOnceRecover, RunOnceLease, SettleFailed,
    SettleSent, PersistSentCopy, PersistRecord, QuietStep
<1> QED
  BY <1>2, <1>3, <1>4 DEF Next

\* Handlers, workers and statements implement the row life cycle of OutboxContract.
THEOREM Refinement == Spec => ImplementsContract
<1>1. Init => Contract!Init
  <2> SUFFICES ASSUME Init PROVE Contract!Init
    OBVIOUS
  <2>1. \A r \in Rows : rows[r].status = "absent"
    BY DEF Init, NoOutboxRow
  <2>2. \A r \in Rows : \A d \in Domains : ~(accepted[r][d] > 0)
    BY SMT DEF Init
  <2> QED
    BY <2>1, <2>2 DEF Init, Contract!Init
<1>2. IInv /\ [Next]_vars => [Contract!Next]_(Contract!vars)
  <2> SUFFICES ASSUME IInv, [Next]_vars PROVE [Contract!Next]_(Contract!vars)
    OBVIOUS
  <2>1. CASE UNCHANGED vars
    BY <2>1 DEF vars, Contract!vars
  <2>2. CASE Next
    <3>1. IInv'
      BY <2>2, NextIInv
    <3> DEFINE took  == [r \in Rows |-> {d \in Domains : accepted[r][d] > 0}]
               later == [r \in Rows |-> {d \in Domains : accepted'[r][d] > 0}]
    <3>2. ASSUME NEW r \in Rows, rows'[r].status # rows[r].status
          PROVE  rows'[r].status = "sent" => dest[r] \subseteq took[r]
      <4>1. accepted' = accepted /\ dest' = dest
        BY <2>2, <3>2, RowStep
      <4> QED
        BY <3>1, <4>1 DEF IInv, TypeOK, SentMeansDelivered
    <3>3. ASSUME NEW r \in Rows
          PROVE  \/ later[r] = took[r]
                 \/ /\ took[r] \subseteq later[r]
                    /\ later[r] \subseteq took[r] \cup dest[r]
                    /\ rows[r].status = "sending" \/ r \in overrun
      BY <2>2, TookStep
    <3> DEFINE from == [r \in Rows |-> rows[r].status]
               to   == [r \in Rows |-> rows'[r].status]
    <3>4. ASSUME NEW r \in Rows
          PROVE  /\ to[r] = from[r] \/ (StatusMove(r, from[r], to[r])
                                        /\ (to[r] = "sent" => dest[r] \subseteq took[r]))
                 /\ r \in overrun' \ overrun => from[r] = "sending" /\ to[r] = "pending"
      BY <2>2, <3>2, RowStep
    <3>5. dest' = dest /\ overrun \subseteq overrun' /\ overrun' \subseteq Rows
      <4>1. overrun' \subseteq Rows
        BY <3>1 DEF IInv, TypeOK
      <4>2. CASE Rows = {}
        BY <3>1, <4>1, <4>2, SMT DEF IInv, TypeOK
      <4>3. CASE Rows # {}
        BY <2>2, <4>1, <4>3, RowStep
      <4> QED
        BY <4>2, <4>3
    <3>6. Contract!Next
      BY <3>3, <3>4, <3>5 DEF Contract!Next, Contract!StatusStep, Contract!TookStep,
        Contract!Becomes, StatusMove
    <3> QED
      BY <3>6
  <2> QED
    BY <2>1, <2>2
<1> QED
  BY <1>1, <1>2, Invariance, PTL DEF Spec, ImplementsContract, Contract!Spec

\* No step takes a row out of "sent" while its lease never ran out under a busy worker.
THEOREM SentFinal == Spec => SentIsFinal
<1>1. IInv /\ [Next]_vars
        => [\A r \in Rows : rows[r].status = "sent" /\ r \notin overrun
                              => rows'[r].status = "sent"]_vars
  BY RowStep DEF StatusMove
<1> QED
  BY <1>1, Invariance, PTL DEF Spec, SentIsFinal
-----------------------------------------------------------------------------
(***************************************************************************)
(* The inductive invariant.  IInv says nothing of how many copies were     *)
(* made, so three things are added to it:                                  *)
(*   BudgetOK  a lease pays for one copy per domain, and a worker that may *)
(*             still hand its row to a domain has not spent its lease;     *)
(*   CopyOK    what a worker read of the staged copy when it leased a row  *)
(*             is still true of the row, unless the lease ran out;         *)
(*   BlobOK    what the submission handler stored before it inserted the   *)
(*             row is still stored.                                        *)
(***************************************************************************)

\* A worker in state s may still hand row r to domain d under its lease.
Open(s, r, d) ==
  \/ r \in s.batch
  \/ r = s.row /\ s.pc = "prepare"
  \/ r = s.row /\ s.pc \in {"domains", "host"} /\ d \in s.todo

OpenFor(r, d) == {w \in Workers : Open(workers[w], r, d)}

BudgetOK ==
  \A r \in Rows, d \in Domains :
    accepted[r][d] + Cardinality(OpenFor(r, d)) <= leases[r] + lost[r][d]

CopyOK(s) ==
  /\ s.pc \in {"copy", "copyRecord"} => s.row \in s.staged
  /\ s.pc = "copyDelete" => rows[s.row].copy = "recorded"
  /\ \A r \in HoldsOf(s) \cap s.staged :
       \/ r \in overrun
       \/ rows[r].copy = "staged"
       \/ r = s.row /\ s.pc = "copyDelete"

BlobOK ==
  \A r \in Rows : /\ submit[r] \in {"staged", "both"} => r \in staging
                  /\ submit[r] \in {"plain", "both"} => r \in payload
                  /\ submit[r] = "crashed" => rows[r].status = "absent"

CopyInv ==
  /\ BudgetOK
  /\ \A w \in Workers : CopyOK(workers[w])
  /\ BlobOK
  /\ QueuedIsReadable

-----------------------------------------------------------------------------
\* What the statements do to the columns of the sent copy.
LEMMA StatementCopy ==
  /\ \A c \in CopyStates : InsertOutboxMeta(c).copy = c
  /\ \A row \in OutboxRows :
       /\ LeaseRow(row).copy = row.copy
       /\ MarkOutboxSent(row).copy = row.copy
       /\ RecordSentCopy(row).copy = "recorded"
       /\ RetryOutboxEntry(row).copy = row.copy
       /\ MarkOutboxFailed(row, TRUE).copy = row.copy
       /\ MarkOutboxFailed(row, FALSE).copy = row.copy
       /\ [row EXCEPT !.wait = 0].copy = row.copy
       /\ [row EXCEPT !.stale = TRUE].copy = row.copy
       /\ Recovered(row).copy = row.copy
BY DEF OutboxRows, InsertOutboxMeta, LeaseRow, MarkOutboxSent, RecordSentCopy,
  RetryOutboxEntry, MarkOutboxFailed, Recovered

\* Sets of workers are finite, and a smaller one has no more elements.
LEMMA WorkerSets ==
  ASSUME NEW S, S \subseteq Workers, NEW T, T \subseteq S
  PROVE  /\ IsFiniteSet(S) /\ IsFiniteSet(T)
         /\ Cardinality(S) \in Nat /\ Cardinality(T) \in Nat
         /\ Cardinality(T) <= Cardinality(S)
<1>1. IsFiniteSet(S)
  BY WorkersFinite, FS_Subset
<1>2. IsFiniteSet(T) /\ Cardinality(T) <= Cardinality(S)
  BY <1>1, FS_Subset
<1> QED
  BY <1>1, <1>2, FS_CardinalityType

\* A worker goes from state s to state t without taking on a row, a domain or a copy.
Steady(s, t) ==
  /\ HoldsOf(t) \subseteq HoldsOf(s)
  /\ t.staged \subseteq s.staged
  /\ \A r \in Rows, d \in Domains : Open(t, r, d) => Open(s, r, d)
  /\ t.pc \in {"copy", "copyRecord"} => t.row \in t.staged
  /\ t.pc = "copyDelete" \/ (s.pc = "copyDelete" /\ s.row \in HoldsOf(t)) => t = s

\* When the change of the worker that takes the step is steady, every worker's is.
LEMMA SteadyOne ==
  ASSUME IInv, CopyInv, NEW w \in Workers, NEW t,
         workers' = [workers EXCEPT ![w] = t], Steady(workers[w], t)
  PROVE  \A v \in Workers : Steady(workers[v], workers'[v])
<1>1. workers'[w] = t /\ \A v \in Workers \ {w} : workers'[v] = workers[v]
  BY DEF IInv, TypeOK
<1>2. ASSUME NEW v \in Workers PROVE Steady(workers[v], workers[v])
  <2>1. CopyOK(workers[v])
    BY DEF CopyInv
  <2> QED
    BY <2>1 DEF Steady, CopyOK
<1> QED
  BY <1>1, <1>2

\* Workers that go on steadily stay within what their leases pay for.
LEMMA BudgetSteady ==
  ASSUME IInv, CopyInv, \A v \in Workers : Steady(workers[v], workers'[v]),
         UNCHANGED <<accepted, lost, leases>>
  PROVE  BudgetOK'
<1> SUFFICES ASSUME NEW r \in Rows, NEW d \in Domains
             PROVE  accepted[r][d] + Cardinality(OpenFor(r, d))' <= leases[r] + lost[r][d]
  BY DEF BudgetOK
<1>1. OpenFor(r, d)' \subseteq OpenFor(r, d)
  BY DEF OpenFor, Steady, Open
<1>2. OpenFor(r, d) \subseteq Workers
  BY DEF OpenFor
<1>3. /\ Cardinality(OpenFor(r, d)) \in Nat /\ Cardinality(OpenFor(r, d)') \in Nat
      /\ Cardinality(OpenFor(r, d)') <= Cardinality(OpenFor(r, d))
  BY <1>1, <1>2, WorkerSets
<1>4. accepted[r][d] + Cardinality(OpenFor(r, d)) <= leases[r] + lost[r][d]
  BY DEF CopyInv, BudgetOK
<1>5. accepted[r][d] \in Nat /\ leases[r] \in Nat /\ lost[r][d] \in Nat
  BY DEF IInv, TypeOK
<1> QED
  BY <1>3, <1>4, <1>5, SMT

\* Workers that go on steadily keep what they know of the staged copies, while the
\* rows that are held keep their copy columns.
LEMMA CopySteady ==
  ASSUME IInv, CopyInv, \A v \in Workers : Steady(workers[v], workers'[v]),
         \A r \in Rows : rows'[r].copy = rows[r].copy \/ \A v \in Workers : r \notin Holds(v),
         overrun \subseteq overrun'
  PROVE  \A v \in Workers : CopyOK(workers[v])'
<1> SUFFICES ASSUME NEW v \in Workers PROVE CopyOK(workers[v])'
  OBVIOUS
<1> DEFINE s == workers[v]
           t == workers'[v]
<1>1. CopyOK(s) /\ Steady(s, t) /\ WorkerOK(s)
  BY DEF CopyInv, IInv
<1>2. \A r \in HoldsOf(s) : r \in Rows /\ rows'[r].copy = rows[r].copy
  <2>1. HoldsOf(s) \subseteq Rows
    BY <1>1 DEF WorkerOK, WorkerStates, HoldsOf
  <2> QED
    BY <2>1 DEF Holds
<1>3. s.pc = "copyDelete" => s.row \in HoldsOf(s)
  BY <1>1, WorkerAssumption DEF WorkerOK, Engaged, HoldsOf
<1> HIDE DEF s, t
<1>4. t.pc \in {"copy", "copyRecord"} => t.row \in t.staged
  BY <1>1 DEF Steady
<1>5. t.pc = "copyDelete" => rows'[t.row].copy = "recorded"
  BY <1>1, <1>2, <1>3 DEF Steady, CopyOK
<1>6. ASSUME NEW r \in HoldsOf(t) \cap t.staged
      PROVE  r \in overrun' \/ rows'[r].copy = "staged" \/ (r = t.row /\ t.pc = "copyDelete")
  BY <1>1, <1>2 DEF Steady, CopyOK
<1> QED
  BY <1>4, <1>5, <1>6 DEF CopyOK, HoldsOf, t

\* No blob is lost and no handler moves while the rows only change their status or
\* become recorded.
LEMMA BlobSteady ==
  ASSUME CopyInv, UNCHANGED <<submit, payload, staging>>,
         \A r \in Rows : /\ rows'[r].status = "absent" <=> rows[r].status = "absent"
                         /\ rows'[r].copy = "staged" => rows[r].copy = "staged"
  PROVE  BlobOK' /\ QueuedIsReadable'
BY DEF CopyInv, BlobOK, QueuedIsReadable

-----------------------------------------------------------------------------
(***************************************************************************)
(* The steps of a worker, one by one: all but the lease and the record of  *)
(* the sent copy are steady.                                               *)
(***************************************************************************)
AllSteady == \A v \in Workers : Steady(workers[v], workers'[v])

\* Going idle is steady.
LEMMA IdleSteady ==
  ASSUME IInv, CopyInv, NEW w \in Workers, workers' = [workers EXCEPT ![w] = IdleWorker]
  PROVE  AllSteady
<1>1. Steady(workers[w], IdleWorker)
  BY DEF Steady, Open, HoldsOf, IdleWorker
<1> QED
  BY <1>1, SteadyOne DEF AllSteady

\* A new program counter from which the worker hands out nothing it did not before.
LEMMA CounterSteady ==
  ASSUME IInv, CopyInv, NEW w \in Workers, NEW pc \in WorkerPCs,
         workers' = [workers EXCEPT ![w].pc = pc],
         pc \notin {"prepare", "domains", "host", "copyDelete"}, workers[w].pc # "copyDelete",
         pc \in {"copy", "copyRecord"} => workers[w].row \in workers[w].staged
  PROVE  AllSteady
<1> DEFINE t == [workers[w] EXCEPT !.pc = pc]
<1>1. workers[w] \in WorkerStates
  BY DEF IInv, WorkerOK
<1>2. /\ t.pc = pc /\ t.row = workers[w].row /\ t.batch = workers[w].batch
      /\ t.staged = workers[w].staged
  BY <1>1 DEF WorkerStates
<1>3. workers' = [workers EXCEPT ![w] = t]
  OBVIOUS
<1> HIDE DEF t
<1>4. Steady(workers[w], t)
  BY <1>2 DEF Steady, Open, HoldsOf
<1> QED
  BY <1>3, <1>4, SteadyOne DEF AllSteady

\* Being done with a row is steady.
LEMMA ReleaseSteady ==
  ASSUME IInv, CopyInv, NEW w \in Workers, Engaged(workers[w]), workers' = RowDone(w)
  PROVE  AllSteady
<1>1. workers[w] \in WorkerStates /\ workers[w].row \notin workers[w].batch
  BY DEF IInv, WorkerOK
<1>2. /\ Released(w).pc = "batch" /\ Released(w).row = None
      /\ Released(w).batch = workers[w].batch /\ Released(w).staged = workers[w].staged
  BY <1>1 DEF Released, WorkerStates
<1>3. workers' = [workers EXCEPT ![w] = Released(w)]
  BY ReleasedOK
<1>4. Steady(workers[w], Released(w))
  BY <1>1, <1>2 DEF Steady, Open, HoldsOf
<1> QED
  BY <1>3, <1>4, SteadyOne DEF AllSteady

\* Recovering stuck rows, a failing statement and a crash are steady.
LEMMA TickSteady ==
  ASSUME IInv, CopyInv, NEW w \in Workers,
         RunOnceRecover(w) \/ RunOnceError(w) \/ WorkerCrash(w)
  PROVE  AllSteady
<1>1. CASE workers' = [workers EXCEPT ![w] = IdleWorker]
  BY <1>1, IdleSteady
<1>2. CASE At(w, "idle") /\ workers' = [workers EXCEPT ![w].pc = "lease"]
  BY <1>2, CounterSteady DEF At, WorkerPCs
<1> QED
  BY <1>1, <1>2 DEF RunOnceRecover, RunOnceError, WorkerCrash

\* Taking the next row of the batch is steady.
LEMMA NextRowSteady ==
  ASSUME IInv, CopyInv, NEW w \in Workers, NextRow(w) PROVE AllSteady
<1>1. CASE workers' = [workers EXCEPT ![w] = IdleWorker]
  BY <1>1, IdleSteady
<1>2. ASSUME NEW r \in workers[w].batch,
             workers' = [workers EXCEPT ![w] = [@ EXCEPT !.pc = "prepare", !.row = r,
                                                         !.batch = workers[w].batch \ {r}]]
      PROVE  AllSteady
  <2> DEFINE t == [workers[w] EXCEPT !.pc = "prepare", !.row = r, !.batch = workers[w].batch \ {r}]
  <2>1. workers[w] \in WorkerStates /\ workers[w].pc = "batch"
    BY DEF NextRow, At, IInv, WorkerOK
  <2>2. /\ t.pc = "prepare" /\ t.row = r /\ t.batch = workers[w].batch \ {r}
        /\ t.staged = workers[w].staged
    BY <2>1 DEF WorkerStates
  <2>3. workers' = [workers EXCEPT ![w] = t]
    BY <1>2
  <2> HIDE DEF t
  <2>4. Steady(workers[w], t)
    BY <2>1, <2>2 DEF Steady, Open, HoldsOf
  <2> QED
    BY <2>3, <2>4, SteadyOne DEF AllSteady
<1> QED
  BY <1>1, <1>2 DEF NextRow

\* Preparing a message is steady.
LEMMA PrepareSteady ==
  ASSUME IInv, CopyInv, NEW w \in Workers, Prepare(w) PROVE AllSteady
<1>1. workers[w] \in WorkerStates /\ workers[w].pc = "prepare"
  BY DEF Prepare, At, IInv, WorkerOK
<1>2. CASE workers' = [workers EXCEPT ![w] = [@ EXCEPT !.pc = "domains",
                                                       !.todo = dest[workers[w].row]]]
  <2> DEFINE t == [workers[w] EXCEPT !.pc = "domains", !.todo = dest[workers[w].row]]
  <2>1. /\ t.pc = "domains" /\ t.row = workers[w].row /\ t.batch = workers[w].batch
        /\ t.staged = workers[w].staged
    BY <1>1 DEF WorkerStates
  <2>2. workers' = [workers EXCEPT ![w] = t]
    BY <1>2
  <2> HIDE DEF t
  <2>3. Steady(workers[w], t)
    BY <1>1, <2>1 DEF Steady, Open, HoldsOf
  <2> QED
    BY <2>2, <2>3, SteadyOne DEF AllSteady
<1>3. ASSUME NEW pc \in {"failPermanent", "failTransient"},
             workers' = [workers EXCEPT ![w].pc = pc]
      PROVE  AllSteady
  BY <1>1, <1>3, CounterSteady DEF WorkerPCs
<1> QED
  BY <1>2, <1>3 DEF Prepare

\* Going to the next domain is steady.
LEMMA NextDomainSteady ==
  ASSUME IInv, CopyInv, NEW w \in Workers, NextDomain(w) PROVE AllSteady
<1>1. PICK d \in workers[w].todo, n \in 1..MaxHosts :
        workers' = [workers EXCEPT ![w] = [@ EXCEPT !.pc = "host", !.domain = d,
                                                    !.hosts = n, !.reply = "none"]]
  BY DEF NextDomain
<1> DEFINE t == [workers[w] EXCEPT !.pc = "host", !.domain = d, !.hosts = n, !.reply = "none"]
<1>2. workers[w] \in WorkerStates /\ workers[w].pc = "domains"
  BY DEF NextDomain, At, IInv, WorkerOK
<1>3. /\ t.pc = "host" /\ t.row = workers[w].row /\ t.batch = workers[w].batch
      /\ t.todo = workers[w].todo /\ t.staged = workers[w].staged
  BY <1>2 DEF WorkerStates
<1>4. workers' = [workers EXCEPT ![w] = t]
  BY <1>1
<1> HIDE DEF t
<1>5. Steady(workers[w], t)
  BY <1>2, <1>3 DEF Steady, Open, HoldsOf
<1> QED
  BY <1>4, <1>5, SteadyOne DEF AllSteady

\* A counter that is raised for one row and domain.
LEMMA CountExact ==
  ASSUME NEW f \in [Rows -> [Domains -> Nat]], NEW r \in Rows, NEW d \in Domains,
         NEW g, g = [f EXCEPT ![r][d] = f[r][d] + 1]
  PROVE  /\ g[r][d] = f[r][d] + 1
         /\ \A q \in Rows, e \in Domains : q # r \/ e # d => g[q][e] = f[q][e]
<1> DEFINE h == [f[r] EXCEPT ![d] = f[r][d] + 1]
<1>1. h[d] = f[r][d] + 1 /\ \A e \in Domains \ {d} : h[e] = f[r][e]
  OBVIOUS
<1>2. g = [f EXCEPT ![r] = h]
  OBVIOUS
<1> HIDE DEF h
<1>3. g[r] = h /\ \A q \in Rows \ {r} : g[q] = f[q]
  BY <1>2
<1> QED
  BY <1>1, <1>3

\* A host that takes the message is paid for by the domain struck off, or by a lost reply.
LEMMA DeliverCopies ==
  ASSUME IInv, CopyInv, NEW w \in Workers, DeliverHost(w)
  PROVE  AllSteady /\ BudgetOK'
<1> DEFINE r == workers[w].row
           d == workers[w].domain
<1>1. /\ workers[w] \in WorkerStates /\ workers[w].pc = "host"
      /\ r \in Rows /\ r \notin workers[w].batch /\ d \in workers[w].todo /\ d \in Domains
  BY DEF DeliverHost, At, IInv, WorkerOK, WorkerStates, Engaged
<1>2. /\ accepted \in [Rows -> [Domains -> Nat]] /\ lost \in [Rows -> [Domains -> Nat]]
      /\ leases \in [Rows -> Nat] /\ leases' = leases
  BY DEF IInv, TypeOK, DeliverHost
<1>3. ASSUME NEW reply, HostFailed(w, reply) PROVE AllSteady
  <2> DEFINE pc == IF workers[w].hosts = 1 THEN "failTransient" ELSE "host"
             t == [workers[w] EXCEPT !.hosts = workers[w].hosts - 1, !.reply = reply, !.pc = pc]
  <2>1. pc \in {"failTransient", "host"}
    OBVIOUS
  <2>2. workers' = [workers EXCEPT ![w] = t]
    BY <1>3 DEF HostFailed
  <2> HIDE DEF pc
  <2>3. /\ t.pc = pc /\ t.row = r /\ t.batch = workers[w].batch /\ t.todo = workers[w].todo
        /\ t.staged = workers[w].staged
    BY <1>1 DEF WorkerStates
  <2> HIDE DEF t
  <2>4. Steady(workers[w], t)
    BY <1>1, <2>1, <2>3 DEF Steady, Open, HoldsOf
  <2> QED
    BY <2>2, <2>4, SteadyOne DEF AllSteady
<1>4. ASSUME NEW reply, HostRejected(w, reply) PROVE AllSteady
  <2> DEFINE t == [workers[w] EXCEPT !.pc = "bounce", !.reply = reply]
  <2>1. workers' = [workers EXCEPT ![w] = t]
    BY <1>4 DEF HostRejected
  <2>2. /\ t.pc = "bounce" /\ t.row = r /\ t.batch = workers[w].batch
        /\ t.staged = workers[w].staged
    BY <1>1 DEF WorkerStates
  <2> HIDE DEF t
  <2>3. Steady(workers[w], t)
    BY <1>1, <2>2 DEF Steady, Open, HoldsOf
  <2> QED
    BY <2>1, <2>3, SteadyOne DEF AllSteady
<1>5. CASE /\ HostFailed(w, "none")
           /\ accepted' = [accepted EXCEPT ![r][d] = accepted[r][d] + 1]
           /\ lost' = [lost EXCEPT ![r][d] = lost[r][d] + 1]
  <2>1. AllSteady
    BY <1>3, <1>5
  <2>2. ASSUME NEW q \in Rows, NEW e \in Domains
        PROVE  accepted'[q][e] + Cardinality(OpenFor(q, e))' <= leases[q] + lost'[q][e]
    <3>1. OpenFor(q, e)' \subseteq OpenFor(q, e) /\ OpenFor(q, e) \subseteq Workers
      BY <2>1 DEF AllSteady, OpenFor, Steady, Open
    <3>2. /\ Cardinality(OpenFor(q, e)) \in Nat /\ Cardinality(OpenFor(q, e)') \in Nat
          /\ Cardinality(OpenFor(q, e)') <= Cardinality(OpenFor(q, e))
      BY <3>1, WorkerSets
    <3>3. accepted[q][e] + Cardinality(OpenFor(q, e)) <= leases[q] + lost[q][e]
      BY DEF CopyInv, BudgetOK
    <3>4. accepted[q][e] \in Nat /\ lost[q][e] \in Nat /\ leases[q] \in Nat
      BY <1>2
    <3>5. \/ accepted'[q][e] = accepted[q][e] /\ lost'[q][e] = lost[q][e]
          \/ accepted'[q][e] = accepted[q][e] + 1 /\ lost'[q][e] = lost[q][e] + 1
      <4>1. r \in Rows /\ d \in Domains
        BY <1>1
      <4> HIDE DEF r, d
      <4>2. /\ accepted'[r][d] = accepted[r][d] + 1
            /\ \A x \in Rows, y \in Domains : x # r \/ y # d => accepted'[x][y] = accepted[x][y]
        BY <1>2, <1>5, <4>1, CountExact
      <4>3. /\ lost'[r][d] = lost[r][d] + 1
            /\ \A x \in Rows, y \in Domains : x # r \/ y # d => lost'[x][y] = lost[x][y]
        BY <1>2, <1>5, <4>1, CountExact
      <4> QED
        BY <4>2, <4>3
    <3> QED
      BY <3>2, <3>3, <3>4, <3>5, SMT
  <2> QED
    BY <1>2, <2>1, <2>2 DEF BudgetOK
<1>6. CASE /\ DomainAccepted(w)
           /\ accepted' = [accepted EXCEPT ![r][d] = accepted[r][d] + 1]
           /\ lost' = lost
  <2> DEFINE t == [workers[w] EXCEPT !.pc = "domains", !.todo = workers[w].todo \ {d},
                                     !.domain = None, !.reply = "2xx"]
  <2>1. /\ t.pc = "domains" /\ t.row = r /\ t.batch = workers[w].batch
        /\ t.todo = workers[w].todo \ {d} /\ t.staged = workers[w].staged
    BY <1>1 DEF WorkerStates
  <2>2. workers' = [workers EXCEPT ![w] = t]
    BY <1>6 DEF DomainAccepted
  <2> HIDE DEF t
  <2>3. Steady(workers[w], t)
    BY <1>1, <2>1 DEF Steady, Open, HoldsOf
  <2>4. AllSteady
    BY <2>2, <2>3, SteadyOne DEF AllSteady
  <2>5. workers'[w] = t
    BY <2>2 DEF IInv, TypeOK
  <2>6. Open(workers[w], r, d) /\ ~Open(workers'[w], r, d)
    BY <1>1, <2>1, <2>5 DEF Open
  <2>7. ASSUME NEW q \in Rows, NEW e \in Domains
        PROVE  accepted'[q][e] + Cardinality(OpenFor(q, e))' <= leases[q] + lost[q][e]
    <3>1. OpenFor(q, e)' \subseteq OpenFor(q, e) /\ OpenFor(q, e) \subseteq Workers
      BY <2>4 DEF AllSteady, OpenFor, Steady, Open
    <3>2. /\ Cardinality(OpenFor(q, e)) \in Nat /\ Cardinality(OpenFor(q, e)') \in Nat
          /\ Cardinality(OpenFor(q, e)') <= Cardinality(OpenFor(q, e))
      BY <3>1, WorkerSets
    <3>3. accepted[q][e] + Cardinality(OpenFor(q, e)) <= leases[q] + lost[q][e]
      BY DEF CopyInv, BudgetOK
    <3>4. accepted[q][e] \in Nat /\ lost[q][e] \in Nat /\ leases[q] \in Nat
      BY <1>2
    <3>5. /\ accepted'[r][d] = accepted[r][d] + 1
          /\ \A x \in Rows, y \in Domains : x # r \/ y # d => accepted'[x][y] = accepted[x][y]
      <4>1. r \in Rows /\ d \in Domains
        BY <1>1
      <4> HIDE DEF r, d
      <4> QED
        BY <1>2, <1>6, <4>1, CountExact
    <3>6. CASE q = r /\ e = d
      <4>1. OpenFor(q, e)' \subseteq OpenFor(q, e) \ {w} /\ w \in OpenFor(q, e)
        BY <2>6, <3>1, <3>6 DEF OpenFor, Open
      <4>2. IsFiniteSet(OpenFor(q, e))
        BY <3>1, WorkerSets
      <4>3. Cardinality(OpenFor(q, e) \ {w}) = Cardinality(OpenFor(q, e)) - 1
        BY <4>1, <4>2, FS_RemoveElement
      <4>4. Cardinality(OpenFor(q, e)') <= Cardinality(OpenFor(q, e) \ {w})
        BY <3>1, <4>1, WorkerSets
      <4>5. accepted'[q][e] = accepted[q][e] + 1
        BY <3>5, <3>6
      <4> QED
        BY <3>2, <3>3, <3>4, <4>3, <4>4, <4>5, SMT
    <3>7. CASE ~(q = r /\ e = d)
      BY <3>2, <3>3, <3>4, <3>5, <3>7, SMT
    <3> QED
      BY <3>6, <3>7
  <2> QED
    BY <1>2, <1>6, <2>4, <2>7 DEF BudgetOK
<1>7. CASE UNCHANGED <<accepted, lost>>
  <2>1. AllSteady
    <3>1. accepted' # [accepted EXCEPT ![r][d] = accepted[r][d] + 1]
      <4>1. r \in Rows /\ d \in Domains
        BY <1>1
      <4> HIDE DEF r, d
      <4> QED
        BY <1>2, <1>7, <4>1, CountExact, SMT
    <3> QED
      BY <1>3, <1>4, <3>1 DEF DeliverHost
  <2> QED
    BY <1>2, <1>7, <2>1, BudgetSteady DEF AllSteady
<1> QED
  BY <1>5, <1>6, <1>7 DEF DeliverHost

\* Steady steps keep the copy invariant.
LEMMA SteadyPreserves ==
  ASSUME IInv, CopyInv, AllSteady, overrun \subseteq overrun',
         UNCHANGED <<submit, payload, staging, accepted, lost, leases>>,
         \A r \in Rows : /\ rows'[r].copy = rows[r].copy
                         /\ rows'[r].status = "absent" <=> rows[r].status = "absent"
  PROVE  CopyInv'
BY BudgetSteady, CopySteady, BlobSteady DEF CopyInv, AllSteady

\* So do all steps that neither deliver nor write a blob.
LEMMA QuietCopies ==
  ASSUME IInv, CopyInv, NEW w \in Workers,
         \/ RunOnceError(w) \/ WorkerCrash(w) \/ NextRow(w) \/ Prepare(w) \/ NextDomain(w)
         \/ InsertBounces(w) \/ IngestSentCopy(w)
  PROVE  CopyInv'
<1> USE DEF stores, history
<1>1. CASE RunOnceError(w) \/ WorkerCrash(w)
  BY <1>1, TickSteady, SteadyPreserves DEF RunOnceError, WorkerCrash
<1>2. CASE NextRow(w)
  BY <1>2, NextRowSteady, SteadyPreserves DEF NextRow
<1>3. CASE Prepare(w)
  BY <1>3, PrepareSteady, SteadyPreserves DEF Prepare
<1>4. CASE NextDomain(w)
  BY <1>4, NextDomainSteady, SteadyPreserves DEF NextDomain
<1>5. CASE InsertBounces(w)
  <2>1. AllSteady
    BY <1>5, CounterSteady DEF InsertBounces, At, WorkerPCs
  <2> QED
    BY <1>5, <2>1, SteadyPreserves DEF InsertBounces
<1>6. CASE IngestSentCopy(w)
  <2>1. workers[w].pc = "copy" /\ workers[w].row \in workers[w].staged
    BY <1>6 DEF IngestSentCopy, At, CopyInv, CopyOK
  <2>2. workers' = [workers EXCEPT ![w].pc = "copyRecord"] => AllSteady
    BY <2>1, CounterSteady DEF WorkerPCs
  <2>3. workers' = RowDone(w) => AllSteady
    BY <2>1, ReleaseSteady DEF Engaged
  <2> QED
    BY <1>6, <2>2, <2>3, SteadyPreserves DEF IngestSentCopy
<1> QED
  BY <1>1, <1>2, <1>3, <1>4, <1>5, <1>6

\* Asking one MX host keeps it.
LEMMA DeliverHostCopies ==
  ASSUME IInv, CopyInv, NEW w \in Workers, DeliverHost(w) PROVE CopyInv'
<1>1. AllSteady /\ BudgetOK'
  BY DeliverCopies
<1>2. UNCHANGED <<rows, submit, payload, staging, overrun>>
  BY DEF DeliverHost, stores
<1> QED
  BY <1>1, <1>2, CopySteady, BlobSteady DEF CopyInv, AllSteady

\* Recovering stuck rows keeps it.
LEMMA RecoverCopies ==
  ASSUME IInv, CopyInv, NEW w \in Workers, RunOnceRecover(w) PROVE CopyInv'
<1>1. \A r \in Rows : /\ rows'[r].copy = rows[r].copy
                      /\ rows'[r].status = "absent" <=> rows[r].status = "absent"
  <2>1. rows' = [r \in Rows |-> IF Stuck(rows[r]) THEN Recovered(rows[r]) ELSE rows[r]]
    BY DEF RunOnceRecover, RecoverStuckSending, IInv, TypeOK
  <2>2. \A r \in Rows : /\ Recovered(rows[r]).status = "pending"
                        /\ Recovered(rows[r]).copy = rows[r].copy
    BY StatementStatus, StatementCopy, ZenonT(30) DEF IInv, TypeOK
  <2> QED
    BY <2>1, <2>2 DEF Stuck
<1> QED
  BY <1>1, TickSteady, SteadyPreserves DEF RunOnceRecover

\* The passing of time and the administrator's retry keep it.
LEMMA ClockCopies ==
  ASSUME IInv, CopyInv, NEW r \in Rows, BackoffElapses(r) \/ LeaseAges(r) \/ AdminRetry(r)
  PROVE  CopyInv'
<1>1. rows \in [Rows -> OutboxRows] /\ rows[r] \in OutboxRows
  BY DEF IInv, TypeOK
<1>2. PICK row : /\ rows' = [rows EXCEPT ![r] = row]
                 /\ row.copy = rows[r].copy
                 /\ row.status = "absent" <=> rows[r].status = "absent"
  <2>1. CASE BackoffElapses(r)
    <3>1. rows' = [rows EXCEPT ![r] = [rows[r] EXCEPT !.wait = 0]]
      BY <2>1 DEF BackoffElapses
    <3>2. /\ [rows[r] EXCEPT !.wait = 0].copy = rows[r].copy
          /\ [rows[r] EXCEPT !.wait = 0].status = rows[r].status
      BY <1>1, StatementStatus, StatementCopy
    <3> QED
      BY <3>1, <3>2
  <2>2. CASE LeaseAges(r)
    <3>1. rows' = [rows EXCEPT ![r] = [rows[r] EXCEPT !.stale = TRUE]]
      BY <2>2 DEF LeaseAges
    <3>2. /\ [rows[r] EXCEPT !.stale = TRUE].copy = rows[r].copy
          /\ [rows[r] EXCEPT !.stale = TRUE].status = rows[r].status
      BY <1>1, StatementStatus, StatementCopy
    <3> QED
      BY <3>1, <3>2
  <2>3. CASE AdminRetry(r)
    <3>1. rows[r].status = "failed" /\ rows' = [rows EXCEPT ![r] = RetryOutboxEntry(rows[r])]
      BY <2>3 DEF AdminRetry
    <3>2. /\ RetryOutboxEntry(rows[r]).copy = rows[r].copy
          /\ RetryOutboxEntry(rows[r]).status = "pending"
      BY <1>1, StatementStatus, StatementCopy
    <3> QED
      BY <3>1, <3>2
  <2> QED
    BY <2>1, <2>2, <2>3
<1>3. \A q \in Rows : /\ rows'[q].copy = rows[q].copy
                      /\ rows'[q].status = "absent" <=> rows[q].status = "absent"
  BY <1>1, <1>2
<1>4. UNCHANGED <<submit, payload, staging, workers, accepted, lost, leases, overrun>>
  BY DEF BackoffElapses, LeaseAges, AdminRetry, history
<1>5. AllSteady
  <2>1. \A v \in Workers : CopyOK(workers[v])
    BY DEF CopyInv
  <2> QED
    BY <1>4, <2>1 DEF AllSteady, Steady, CopyOK
<1> QED
  BY <1>3, <1>4, <1>5, SteadyPreserves

\* Recording the outcome of a row keeps it.
LEMMA SettleCopies ==
  ASSUME IInv, CopyInv, NEW w \in Workers, SettleFailed(w) \/ SettleSent(w)
  PROVE  CopyInv'
<1> DEFINE q == workers[w].row
<1>1. /\ Engaged(workers[w]) /\ workers[w].pc \notin Copying
      /\ workers[w].pc \in {"domains", "failTransient", "failPermanent"}
  BY DEF SettleFailed, SettleSent, At, Engaged, Copying
<1>2. q \in Rows /\ rows[q].status # "absent" /\ rows \in [Rows -> OutboxRows]
  BY <1>1, EngagedRow DEF IInv, TypeOK
<1>3. rows' = rows \/ \E row : /\ rows' = [rows EXCEPT ![q] = row]
                              /\ row.copy = rows[q].copy /\ row.status # "absent"
  <2>1. rows[q] \in OutboxRows
    BY <1>2
  <2>2. \A t \in OutboxRows : /\ MarkOutboxFailed(t, TRUE).status = "pending"
                              /\ MarkOutboxFailed(t, FALSE).status = "failed"
                              /\ MarkOutboxSent(t).status = "sent"
                              /\ MarkOutboxFailed(t, TRUE).copy = t.copy
                              /\ MarkOutboxFailed(t, FALSE).copy = t.copy
                              /\ MarkOutboxSent(t).copy = t.copy
    BY StatementStatus, StatementCopy
  <2>3. CASE SettleFailed(w)
    <3> DEFINE row == MarkOutboxFailed(rows[q], At(w, "failTransient"))
    <3>1. row = MarkOutboxFailed(rows[q], TRUE) \/ row = MarkOutboxFailed(rows[q], FALSE)
      BY DEF MarkOutboxFailed
    <3>2. rows' = rows \/ rows' = [rows EXCEPT ![q] = row]
      BY <2>3 DEF SettleFailed
    <3> HIDE DEF row
    <3>3. row.copy = rows[q].copy /\ row.status \in {"pending", "failed"}
      BY <2>1, <2>2, <3>1, ZenonT(30)
    <3> QED
      BY <3>2, <3>3
  <2>4. CASE SettleSent(w)
    <3>1. rows' = rows \/ rows' = [rows EXCEPT ![q] = MarkOutboxSent(rows[q])]
      BY <2>4 DEF SettleSent
    <3> QED
      BY <2>1, <2>2, <3>1
  <2> QED
    BY <2>3, <2>4
<1>4. \A r \in Rows : /\ rows'[r].copy = rows[r].copy
                      /\ rows'[r].status = "absent" <=> rows[r].status = "absent"
  <2> HIDE DEF q
  <2> QED
    BY <1>2, <1>3
<1>5. CASE workers' = RowDone(w)
  BY <1>1, <1>4, <1>5, ReleaseSteady, SteadyPreserves DEF SettleFailed, SettleSent, history
<1>6. CASE q \in workers[w].staged /\ workers' = [workers EXCEPT ![w].pc = "copy"]
  <2>1. AllSteady
    BY <1>1, <1>6, CounterSteady DEF WorkerPCs
  <2> QED
    BY <1>4, <2>1, SteadyPreserves DEF SettleFailed, SettleSent, history
<1> QED
  BY <1>5, <1>6 DEF SettleFailed, SettleSent

\* The copy is recorded by its one holder, or the row is overrun.
LEMMA RecordCopies ==
  ASSUME IInv, CopyInv, NEW w \in Workers, PersistRecord(w) PROVE CopyInv'
<1> USE DEF history
<1> DEFINE q == workers[w].row
<1>1. /\ workers[w] \in WorkerStates /\ workers[w].pc = "copyRecord" /\ Engaged(workers[w])
      /\ q \in Rows /\ q \notin workers[w].batch /\ q \in Holds(w)
  BY WorkerAssumption DEF PersistRecord, At, IInv, WorkerOK, Engaged, Holds, HoldsOf
<1>2. UNCHANGED <<submit, payload, staging, accepted, lost, leases, overrun>>
  BY DEF PersistRecord
<1>3. CASE workers' = RowDone(w) /\ rows' = rows
  BY <1>1, <1>2, <1>3, ReleaseSteady, SteadyPreserves
<1>4. CASE /\ rows' = [rows EXCEPT ![q] = RecordSentCopy(rows[q])]
           /\ workers' = [workers EXCEPT ![w].pc = "copyDelete"]
  <2> DEFINE t == [workers[w] EXCEPT !.pc = "copyDelete"]
  <2>1. /\ t.pc = "copyDelete" /\ t.row = q /\ t.batch = workers[w].batch
        /\ t.staged = workers[w].staged
    BY <1>1 DEF WorkerStates
  <2>2. workers'[w] = t /\ \A v \in Workers \ {w} : workers'[v] = workers[v]
    BY <1>4 DEF IInv, TypeOK
  <2> HIDE DEF t
  <2>3. /\ rows'[q].copy = "recorded" /\ rows'[q].status = rows[q].status
        /\ \A r \in Rows \ {q} : rows'[r] = rows[r]
    <3>1. rows \in [Rows -> OutboxRows] /\ rows[q] \in OutboxRows
      BY <1>1 DEF IInv, TypeOK
    <3>2. rows'[q] = RecordSentCopy(rows[q]) /\ \A r \in Rows \ {q} : rows'[r] = rows[r]
      BY <1>1, <1>4, <3>1
    <3>3. /\ RecordSentCopy(rows[q]).copy = "recorded"
          /\ RecordSentCopy(rows[q]).status = rows[q].status
      BY <3>1, StatementStatus, StatementCopy
    <3> QED
      BY <3>2, <3>3
  <2>4. BudgetOK'
    <3>1. ASSUME NEW r \in Rows, NEW d \in Domains PROVE OpenFor(r, d)' = OpenFor(r, d)
      <4>1. Open(t, r, d) <=> Open(workers[w], r, d)
        BY <1>1, <2>1 DEF Open
      <4>2. \A v \in Workers : Open(workers'[v], r, d) <=> Open(workers[v], r, d)
        BY <2>2, <4>1
      <4> QED
        BY <4>2 DEF OpenFor, Open
    <3> QED
      BY <1>2, <3>1 DEF CopyInv, BudgetOK
  <2>5. ASSUME NEW v \in Workers PROVE CopyOK(workers[v])'
    <3>1. CopyOK(workers[v]) /\ WorkerOK(workers[v]) /\ HoldsOf(workers[v]) \subseteq Rows
      BY DEF CopyInv, IInv, WorkerOK, WorkerStates, HoldsOf
    <3>2. CASE v = w
      <4>1. ASSUME NEW r \in HoldsOf(t) \cap t.staged
            PROVE  r \in overrun \/ rows'[r].copy = "staged" \/ (r = t.row /\ t.pc = "copyDelete")
        <5>1. r \in HoldsOf(workers[w]) \cap workers[w].staged /\ r \in Rows
          BY <2>1, <3>1, <3>2 DEF HoldsOf
        <5> QED
          BY <1>1, <2>1, <2>3, <3>1, <3>2, <5>1 DEF CopyOK
      <4> QED
        BY <1>2, <2>1, <2>2, <2>3, <3>2, <4>1 DEF CopyOK, HoldsOf
    <3>3. CASE v # w
      <4>1. q \in HoldsOf(workers[v]) => q \in overrun
        BY <1>1, <3>3 DEF IInv, LeaseExclusive, Holds
      <4>2. workers[v].pc = "copyDelete" => workers[v].row \in Rows
        BY <3>1 DEF WorkerOK, Engaged
      <4>3. \A r \in HoldsOf(workers[v]) \cap workers[v].staged :
              r \in overrun \/ rows'[r].copy = "staged"
                \/ (r = workers[v].row /\ workers[v].pc = "copyDelete")
        BY <2>3, <3>1, <4>1 DEF CopyOK
      <4>4. workers[v].pc = "copyDelete" => rows'[workers[v].row].copy = "recorded"
        BY <2>3, <3>1, <4>2 DEF CopyOK
      <4> QED
        BY <1>2, <2>2, <3>1, <3>3, <4>3, <4>4 DEF CopyOK, HoldsOf
    <3> QED
      BY <3>2, <3>3
  <2>6. BlobOK' /\ QueuedIsReadable'
    BY <1>1, <1>2, <2>3, BlobSteady
  <2> QED
    BY <2>4, <2>5, <2>6 DEF CopyInv
<1> QED
  BY <1>3, <1>4 DEF PersistRecord

\* The staging blob goes only once the copy is recorded on its row.
LEMMA DeleteCopies ==
  ASSUME IInv, CopyInv, NEW w \in Workers, PersistDelete(w) PROVE CopyInv'
<1> USE DEF history
<1> DEFINE q == workers[w].row
<1>1. /\ workers[w].pc = "copyDelete" /\ Engaged(workers[w]) /\ q \in Rows /\ q \in Holds(w)
      /\ rows[q].copy = "recorded"
  BY WorkerAssumption DEF PersistDelete, At, IInv, WorkerOK, Engaged, Holds, HoldsOf,
    CopyInv, CopyOK
<1>2. /\ UNCHANGED <<rows, submit, payload, accepted, lost, leases, overrun>>
      /\ staging' = staging \/ staging' = staging \ {q}
      /\ workers' = RowDone(w)
  BY DEF PersistDelete, BestEffortDelete
<1>3. AllSteady
  BY <1>1, <1>2, ReleaseSteady
<1>4. submit[q] \notin {"staged", "both"}
  <2>1. rows[q].status # "absent"
    BY <1>1 DEF IInv, LeaseOK, Holds
  <2> QED
    BY <1>1, <2>1 DEF IInv, SubmitOK
<1>5. BlobOK' /\ QueuedIsReadable'
  BY <1>1, <1>2, <1>4 DEF CopyInv, BlobOK, QueuedIsReadable
<1> QED
  BY <1>2, <1>3, <1>5, BudgetSteady, CopySteady DEF CopyInv, AllSteady

\* The handler inserts the row last, so a row that was accepted has its blobs.
LEMMA SubmitCopies ==
  ASSUME IInv, CopyInv, NEW r \in Rows, Submit(r) PROVE CopyInv'
<1> USE DEF history, stores
<1>1. UNCHANGED <<workers, accepted, lost, leases, overrun>>
  BY DEF Submit, SubmitStageCopy, SubmitStorePayload, SubmitInsert, SubmitCrash
<1>2. AllSteady
  <2>1. \A v \in Workers : CopyOK(workers[v])
    BY DEF CopyInv
  <2> QED
    BY <1>1, <2>1 DEF AllSteady, Steady, CopyOK
<1>3. BudgetOK'
  BY <1>1, <1>2, BudgetSteady DEF AllSteady
<1>4. /\ submit \in [Rows -> SubmitStates] /\ rows \in [Rows -> OutboxRows]
      /\ payload \subseteq Rows /\ staging \subseteq Rows
  BY DEF IInv, TypeOK
<1>5. submit[r] \in {"idle", "staged", "plain", "both"} /\ rows[r].status = "absent"
  <2>1. submit[r] \in {"idle", "staged", "plain", "both"}
    BY DEF Submit, SubmitStageCopy, SubmitStorePayload, SubmitInsert, SubmitCrash
  <2> QED
    BY <2>1 DEF IInv, SubmitOK
<1>6. /\ \A q \in Rows \ {r} : /\ rows'[q] = rows[q] /\ submit'[q] = submit[q]
                               /\ q \in payload' <=> q \in payload
                               /\ q \in staging' <=> q \in staging
  BY <1>4 DEF Submit, SubmitStageCopy, SubmitStorePayload, SubmitInsert, SubmitCrash,
    BestEffortDelete
<1>7. \A v \in Workers : r \notin Holds(v)
  BY <1>5 DEF IInv, LeaseOK, Holds
<1>8. \A v \in Workers : CopyOK(workers[v])'
  BY <1>1, <1>2, <1>6, <1>7, CopySteady DEF AllSteady
<1>9. /\ submit'[r] \in {"staged", "both"} => r \in staging'
      /\ submit'[r] \in {"plain", "both"} => r \in payload'
      /\ submit'[r] = "crashed" => rows'[r].status = "absent"
      /\ rows'[r].status # "absent" /\ submit'[r] # "refused" =>
           r \in payload' /\ (rows'[r].copy = "staged" => r \in staging')
  <2>1. /\ submit[r] \in {"staged", "both"} => r \in staging
        /\ submit[r] \in {"plain", "both"} => r \in payload
    BY DEF CopyInv, BlobOK
  <2>2. CASE SubmitStageCopy(r) \/ SubmitStorePayload(r) \/ SubmitCrash(r)
    BY <1>4, <1>5, <2>1, <2>2 DEF SubmitStageCopy, SubmitStorePayload, SubmitCrash
  <2>3. CASE SubmitInsert(r)
    <3> DEFINE c == IF submit[r] = "both" THEN "staged" ELSE "none"
    <3>1. c \in CopyStates /\ (c = "staged" => submit[r] = "both")
      BY DEF CopyStates
    <3>2. /\ submit[r] \in {"plain", "both"}
          /\ \/ /\ rows' = [rows EXCEPT ![r] = InsertOutboxMeta(c)]
                /\ submit' = [submit EXCEPT ![r] = "accepted"]
                /\ UNCHANGED <<payload, staging>>
             \/ submit' = [submit EXCEPT ![r] = "refused"]
      BY <2>3 DEF SubmitInsert
    <3> HIDE DEF c
    <3>3. InsertOutboxMeta(c).copy = c
      BY <3>1, StatementCopy
    <3> QED
      BY <1>4, <2>1, <3>1, <3>2, <3>3
  <2> QED
    BY <2>2, <2>3 DEF Submit
<1>10. BlobOK' /\ QueuedIsReadable'
  BY <1>6, <1>9 DEF CopyInv, BlobOK, QueuedIsReadable
<1> QED
  BY <1>3, <1>8, <1>10 DEF CopyInv

\* A lease pays for one more copy per domain, and reads what is staged right now.
LEMMA LeaseCopies ==
  ASSUME IInv, CopyInv, NEW w \in Workers, RunOnceLease(w) PROVE CopyInv'
<1>1. PICK leased \in SUBSET {r \in Rows : Leasable(rows[r])} :
        /\ rows' = [r \in Rows |-> IF r \in leased THEN LeaseRow(rows[r]) ELSE rows[r]]
        /\ leases' = [r \in Rows |-> IF r \in leased THEN leases[r] + 1 ELSE leases[r]]
        /\ workers' = [workers EXCEPT ![w] =
             [@ EXCEPT !.pc = "batch", !.batch = leased,
                       !.staged = {r \in leased : rows[r].copy = "staged"}]]
  BY DEF RunOnceLease
<1>2. UNCHANGED <<submit, payload, staging, accepted, lost, overrun>>
  BY DEF RunOnceLease
<1> DEFINE staged == {r \in leased : rows[r].copy = "staged"}
           t == [workers[w] EXCEPT !.pc = "batch", !.batch = leased, !.staged = staged]
<1>3. /\ workers[w] \in WorkerStates /\ workers[w].row = None /\ workers[w].pc = "lease"
      /\ leased \subseteq Rows
  BY DEF RunOnceLease, IInv, WorkerOK, Engaged, At
<1> HIDE DEF staged
<1>4. t.pc = "batch" /\ t.row = None /\ t.batch = leased /\ t.staged = staged
  BY <1>3 DEF WorkerStates
<1>5. workers'[w] = t /\ \A v \in Workers \ {w} : workers'[v] = workers[v]
  BY <1>1 DEF IInv, TypeOK, staged
<1> HIDE DEF t
<1>6. /\ rows \in [Rows -> OutboxRows] /\ leases \in [Rows -> Nat]
      /\ accepted \in [Rows -> [Domains -> Nat]] /\ lost \in [Rows -> [Domains -> Nat]]
  BY DEF IInv, TypeOK
<1>7. \A r \in Rows : /\ rows'[r].copy = rows[r].copy
                      /\ rows'[r].status = "absent" <=> rows[r].status = "absent"
  <2>1. \A r \in Rows : /\ LeaseRow(rows[r]).copy = rows[r].copy
                        /\ LeaseRow(rows[r]).status = "sending"
    BY <1>6, StatementStatus, StatementCopy, ZenonT(30)
  <2> QED
    BY <1>1, <2>1 DEF Leasable
<1>8. BudgetOK'
  <2> SUFFICES ASSUME NEW r \in Rows, NEW d \in Domains
               PROVE  accepted[r][d] + Cardinality(OpenFor(r, d))' <= leases'[r] + lost[r][d]
    BY <1>2 DEF BudgetOK
  <2>1. OpenFor(r, d) \subseteq Workers /\ OpenFor(r, d)' \subseteq Workers
    BY DEF OpenFor
  <2>2. \A v \in Workers : Open(workers'[v], r, d) => Open(workers[v], r, d) \/ (v = w /\ r \in leased)
    BY <1>4, <1>5 DEF Open
  <2>3. IsFiniteSet(OpenFor(r, d)) /\ Cardinality(OpenFor(r, d)) \in Nat
    BY <2>1, WorkerSets
  <2>4. accepted[r][d] + Cardinality(OpenFor(r, d)) <= leases[r] + lost[r][d]
    BY DEF CopyInv, BudgetOK
  <2>5. accepted[r][d] \in Nat /\ lost[r][d] \in Nat /\ leases[r] \in Nat
    BY <1>6
  <2>6. CASE r \in leased
    <3>1. OpenFor(r, d)' \subseteq OpenFor(r, d) \cup {w}
      BY <2>2 DEF OpenFor, Open
    <3>2. OpenFor(r, d) \cup {w} \subseteq Workers
      BY <2>1
    <3>3. Cardinality(OpenFor(r, d)') <= Cardinality(OpenFor(r, d) \cup {w})
          /\ Cardinality(OpenFor(r, d)') \in Nat
      BY <3>1, <3>2, WorkerSets
    <3>4. Cardinality(OpenFor(r, d) \cup {w}) \in {Cardinality(OpenFor(r, d)), Cardinality(OpenFor(r, d)) + 1}
      BY <2>3, FS_AddElement
    <3>5. leases'[r] = leases[r] + 1
      BY <1>1, <2>6
    <3> QED
      BY <2>3, <2>4, <2>5, <3>3, <3>4, <3>5, SMT
  <2>7. CASE r \notin leased
    <3>1. OpenFor(r, d)' \subseteq OpenFor(r, d)
      BY <2>2, <2>7 DEF OpenFor, Open
    <3>2. Cardinality(OpenFor(r, d)') <= Cardinality(OpenFor(r, d))
          /\ Cardinality(OpenFor(r, d)') \in Nat
      BY <2>1, <3>1, WorkerSets
    <3>3. leases'[r] = leases[r]
      BY <1>1, <2>7
    <3> QED
      BY <2>3, <2>4, <2>5, <3>2, <3>3, SMT
  <2> QED
    BY <2>6, <2>7
<1>9. ASSUME NEW v \in Workers PROVE CopyOK(workers[v])'
  <2>1. CASE v = w
    <3>1. \A r \in HoldsOf(t) \cap t.staged : rows'[r].copy = "staged"
      BY <1>3, <1>4, <1>7 DEF HoldsOf, staged
    <3> QED
      BY <1>4, <1>5, <2>1, <3>1 DEF CopyOK, HoldsOf
  <2>2. CASE v # w
    <3>1. CopyOK(workers[v]) /\ WorkerOK(workers[v]) /\ HoldsOf(workers[v]) \subseteq Rows
      BY DEF CopyInv, IInv, WorkerOK, WorkerStates, HoldsOf
    <3>2. workers[v].pc = "copyDelete" => workers[v].row \in Rows
      BY <3>1 DEF WorkerOK, Engaged
    <3> QED
      BY <1>2, <1>5, <1>7, <2>2, <3>1, <3>2 DEF CopyOK, HoldsOf
  <2> QED
    BY <2>1, <2>2
<1>10. BlobOK' /\ QueuedIsReadable'
  BY <1>2, <1>7, BlobSteady
<1> QED
  BY <1>8, <1>9, <1>10 DEF CopyInv
-----------------------------------------------------------------------------
\* The copy invariant holds at the start.
LEMMA InitCopies == Init => CopyInv
<1> SUFFICES ASSUME Init PROVE CopyInv
  OBVIOUS
<1>1. \A w \in Workers : workers[w] = IdleWorker
  BY DEF Init
<1>2. \A w \in Workers : CopyOK(workers[w])
  BY <1>1, SMT DEF CopyOK, HoldsOf, IdleWorker
<1>3. ASSUME NEW r \in Rows, NEW d \in Domains
      PROVE  accepted[r][d] + Cardinality(OpenFor(r, d)) <= leases[r] + lost[r][d]
  <2>1. OpenFor(r, d) = {}
    BY <1>1, SMT DEF OpenFor, Open, IdleWorker
  <2>2. Cardinality(OpenFor(r, d)) = 0
    BY <2>1, FS_EmptySet
  <2>3. accepted[r][d] = 0 /\ lost[r][d] = 0 /\ leases[r] = 0
    BY DEF Init
  <2> QED
    BY <2>2, <2>3, SMT
<1>4. \A r \in Rows : rows[r].status = "absent" /\ submit[r] = "idle"
  BY DEF Init, NoOutboxRow
<1> QED
  BY <1>2, <1>3, <1>4 DEF CopyInv, BudgetOK, BlobOK, QueuedIsReadable

\* Every step keeps the copy invariant.
LEMMA NextCopies == IInv /\ CopyInv /\ [Next]_vars => CopyInv'
<1> SUFFICES ASSUME IInv, CopyInv, [Next]_vars PROVE CopyInv'
  OBVIOUS
<1>1. ASSUME NEW r \in Rows, Submit(r) PROVE CopyInv'
  BY <1>1, SubmitCopies
<1>2. ASSUME NEW r \in Rows, BackoffElapses(r) \/ LeaseAges(r) \/ AdminRetry(r) PROVE CopyInv'
  BY <1>2, ClockCopies
<1>3. ASSUME NEW w \in Workers, WorkerStep(w) \/ WorkerCrash(w) PROVE CopyInv'
  BY <1>3, RecoverCopies, LeaseCopies, QuietCopies, SettleCopies, RecordCopies, DeleteCopies
    DEF WorkerStep, PersistSentCopy
<1>4. ASSUME NEW w \in Workers, DeliverHost(w) PROVE CopyInv'
  BY <1>4, DeliverHostCopies
<1>5. CASE UNCHANGED vars
  BY <1>5 DEF vars, CopyInv, BudgetOK, OpenFor, Open, CopyOK, HoldsOf, BlobOK, QueuedIsReadable
<1> QED
  BY <1>1, <1>2, <1>3, <1>4, <1>5 DEF Next

\* Both invariants hold in every reachable state.
LEMMA CopyInvariance == Spec => [](IInv /\ CopyInv)
<1>1. Init => IInv /\ CopyInv
  BY InitIInv, InitCopies
<1>2. (IInv /\ CopyInv) /\ [Next]_vars => (IInv /\ CopyInv)'
  BY NextIInv, NextCopies
<1> QED
  BY <1>1, <1>2, PTL DEF Spec

\* Beyond copies whose 2xx reply was lost, deliverDomain hands a domain at most one copy
\* per lease of the row, however many workers, hosts, ticks and crashes that takes.
THEOREM CopiesPaidFor == Spec => []OneCopyPerLease
<1>1. IInv /\ CopyInv => OneCopyPerLease
  <2> SUFFICES ASSUME IInv, CopyInv, NEW r \in Rows, NEW d \in Domains
               PROVE  accepted[r][d] <= leases[r] + lost[r][d]
    BY DEF OneCopyPerLease
  <2>1. OpenFor(r, d) \subseteq Workers
    BY DEF OpenFor
  <2>2. Cardinality(OpenFor(r, d)) \in Nat
    BY <2>1, WorkerSets
  <2>3. accepted[r][d] \in Nat /\ leases[r] \in Nat /\ lost[r][d] \in Nat
    BY DEF IInv, TypeOK
  <2>4. accepted[r][d] + Cardinality(OpenFor(r, d)) <= leases[r] + lost[r][d]
    BY DEF CopyInv, BudgetOK
  <2> QED
    BY <2>2, <2>3, <2>4, SMT
<1> QED
  BY <1>1, CopyInvariance, PTL

\* A row whose client got 202 has its payload blob, and the staging blob of a copy still
\* to be stored: apiMailOutboxPost inserts last, persistSentCopy deletes last.
THEOREM QueuedReadable == Spec => []QueuedIsReadable
<1>1. IInv /\ CopyInv => QueuedIsReadable
  BY DEF CopyInv
<1> QED
  BY <1>1, CopyInvariance, PTL

\* persistSentCopy never ingests a copy that is recorded on its row, unless the row's
\* lease ran out under a running worker.
THEOREM CopiesStoredOnce == Spec => CopyStoredOnce
<1>1. IInv /\ CopyInv /\ [Next]_vars
        => [\A r \in Rows : rows[r].copy = "recorded" /\ r \notin overrun
                              => copies'[r] = copies[r]]_vars
  <2> SUFFICES ASSUME IInv, CopyInv, Next, NEW r \in Rows,
                      rows[r].copy = "recorded", r \notin overrun
               PROVE  copies'[r] = copies[r]
    OBVIOUS
  <2>1. ASSUME NEW w \in Workers, IngestSentCopy(w) PROVE copies'[r] = copies[r]
    <3>1. workers[w].pc = "copy" /\ workers[w].row \in workers[w].staged
      BY <2>1 DEF IngestSentCopy, At, CopyInv, CopyOK
    <3>2. workers[w].row \in Rows /\ workers[w].row \in HoldsOf(workers[w])
      BY <3>1, WorkerAssumption DEF IInv, WorkerOK, Engaged, HoldsOf
    <3>3. workers[w].row # r
      BY <3>1, <3>2 DEF CopyInv, CopyOK
    <3>4. copies' = copies \/ copies' = [copies EXCEPT ![workers[w].row] = copies[workers[w].row] + 1]
      BY <2>1 DEF IngestSentCopy
    <3> QED
      BY <3>2, <3>3, <3>4 DEF IInv, TypeOK
  <2>2. CASE \E q \in Rows : Submit(q) \/ BackoffElapses(q) \/ LeaseAges(q) \/ AdminRetry(q)
    BY <2>2 DEF Submit, SubmitStageCopy, SubmitStorePayload, SubmitInsert, SubmitCrash,
      BackoffElapses, LeaseAges, AdminRetry, history
  <2>3. CASE \E w \in Workers : \/ RunOnceRecover(w) \/ RunOnceLease(w) \/ RunOnceError(w)
                                \/ NextRow(w) \/ Prepare(w) \/ NextDomain(w)
                                \/ InsertBounces(w) \/ SettleFailed(w) \/ SettleSent(w)
                                \/ PersistRecord(w) \/ PersistDelete(w)
                                \/ DeliverHost(w) \/ WorkerCrash(w)
    BY <2>3 DEF RunOnceRecover, RunOnceLease, RunOnceError, NextRow, Prepare, NextDomain,
      InsertBounces, SettleFailed, SettleSent, PersistRecord, PersistDelete, DeliverHost,
      WorkerCrash, history
  <2> QED
    BY <2>1, <2>2, <2>3 DEF Next, WorkerStep, PersistSentCopy
<1> QED
  BY <1>1, CopyInvariance, PTL DEF Spec, CopyStoredOnce
=============================================================================
