----------------------------- MODULE MailWorker -----------------------------
(***************************************************************************)
(* The outbound mail path: the HTTP handlers that put a message on the     *)
(* outbox (httpserver/api_mail.go, api_outbox_plain.go), the worker loops  *)
(* that drain it (mailworker/worker.go, one goroutine per server process), *)
(* the administrator's retry (api_admin_outbox.go), and the faults between *)
(* any two store calls: a process may stop, a statement may fail, an SMTP  *)
(* reply may be lost, a lease may run out while its holder is still busy.  *)
(***************************************************************************)
EXTENDS Outbox, FiniteSets

CONSTANTS
  Rows,        \* outbox row ids, one per submission
  Workers,     \* server processes that run a mail worker
  Domains,     \* recipient domains
  None,        \* stands for no row, no domain
  BatchSize,   \* rows one LeasePendingOutbox call may return
  MaxHosts,    \* most MX hosts a lookup may return
  LeaseBound   \* bound: time is frozen for a row leased this often

ASSUME WorkerAssumption ==
  /\ None \notin Rows \cup Domains
  /\ BatchSize \in Nat \ {0}
  /\ MaxHosts \in Nat \ {0}
  /\ LeaseBound \in Nat

ASSUME WorkersFinite == IsFiniteSet(Workers)

VARIABLES
  rows,      \* mail_outbox
  dest,      \* per row: the domains groupByDomain finds in recipient_summary
  submit,    \* per row: how far its submission handler is
  payload,   \* rows whose payload blob is in object storage
  staging,   \* rows whose sent-copy staging blob is in object storage
  bounces,   \* mail_bounces, as <<row, domain>>
  workers,   \* the local state of every worker
  accepted,  \* history: copies a domain's servers took, per row and domain
  lost,      \* history: of those, the copies whose 2xx reply was never read
  copies,    \* history: sent copies ingested into the sender's mailbox
  leases,    \* history: how often a row was leased
  overrun    \* history: rows whose lease ran out under a running worker

vars == <<rows, dest, submit, payload, staging, bounces, workers,
          accepted, lost, copies, leases, overrun>>

stores  == <<rows, payload, staging, bounces>>
history == <<accepted, lost, copies, leases, overrun>>

IdleWorker == [pc |-> "idle", batch |-> {}, staged |-> {}, row |-> None,
               todo |-> {}, domain |-> None, hosts |-> 0, reply |-> "none"]

\* The rows a worker in state s has leased and is not done with.
HoldsOf(s) == s.batch \cup ({s.row} \ {None})

Holds(w) == HoldsOf(workers[w])

At(w, pc) == workers[w].pc = pc

Init ==
  /\ rows = [r \in Rows |-> NoOutboxRow]
  /\ dest \in [Rows -> SUBSET Domains]
  /\ submit = [r \in Rows |-> "idle"]
  /\ payload = {} /\ staging = {} /\ bounces = {}
  /\ workers = [w \in Workers |-> IdleWorker]
  /\ accepted = [r \in Rows |-> [d \in Domains |-> 0]]
  /\ lost = [r \in Rows |-> [d \in Domains |-> 0]]
  /\ copies = [r \in Rows |-> 0]
  /\ leases = [r \in Rows |-> 0]
  /\ overrun = {}
-----------------------------------------------------------------------------
(***************************************************************************)
(* Submission.  apiMailOutboxPost stages the sender's copy (if the client  *)
(* sent one), stores the payload, then inserts the row; each failure       *)
(* deletes, best effort, what the handler stored before it.  A plaintext   *)
(* submission is the same with no copy to stage.                           *)
(***************************************************************************)

\* A best-effort delete of row r's blob: it may be left behind.
BestEffortDelete(blobs, r) == {blobs, blobs \ {r}}

SubmitStageCopy(r) ==
  /\ submit[r] = "idle"
  /\ \/ /\ staging' = staging \cup {r}
        /\ submit' = [submit EXCEPT ![r] = "staged"]
     \/ /\ UNCHANGED staging
        /\ submit' = [submit EXCEPT ![r] = "refused"]
  /\ UNCHANGED <<rows, dest, payload, bounces, workers, history>>

SubmitStorePayload(r) ==
  /\ submit[r] \in {"idle", "staged"}
  /\ \/ /\ payload' = payload \cup {r}
        /\ submit' = [submit EXCEPT ![r] = IF @ = "idle" THEN "plain" ELSE "both"]
        /\ UNCHANGED staging
     \/ /\ staging' \in BestEffortDelete(staging, r)
        /\ submit' = [submit EXCEPT ![r] = "refused"]
        /\ UNCHANGED payload
  /\ UNCHANGED <<rows, dest, bounces, workers, history>>

\* InsertOutboxMeta: the row is written and the handler answers 202; or nothing is
\* written; or the commit happened and the handler only sees an error.
SubmitInsert(r) ==
  LET row == InsertOutboxMeta(IF submit[r] = "both" THEN "staged" ELSE "none") IN
  /\ submit[r] \in {"plain", "both"}
  /\ \/ /\ rows' = [rows EXCEPT ![r] = row]
        /\ submit' = [submit EXCEPT ![r] = "accepted"]
        /\ UNCHANGED <<payload, staging>>
     \/ /\ rows' \in {rows, [rows EXCEPT ![r] = row]}
        /\ submit' = [submit EXCEPT ![r] = "refused"]
        /\ payload' \in BestEffortDelete(payload, r)
        /\ staging' \in BestEffortDelete(staging, r)
  /\ UNCHANGED <<dest, bounces, workers, history>>

\* The process stops between two steps of the handler.
SubmitCrash(r) ==
  /\ submit[r] \in {"staged", "plain", "both"}
  /\ submit' = [submit EXCEPT ![r] = "crashed"]
  /\ UNCHANGED <<dest, stores, workers, history>>

Submit(r) ==
  SubmitStageCopy(r) \/ SubmitStorePayload(r) \/ SubmitInsert(r) \/ SubmitCrash(r)
-----------------------------------------------------------------------------
(***************************************************************************)
(* One tick of a worker: runOnce recovers stuck rows, leases a batch, and  *)
(* delivers its rows one after the other.                                  *)
(***************************************************************************)

\* The sweep of RecoverStuckSending.
RunOnceRecover(w) ==
  /\ At(w, "idle")
  /\ workers' = [workers EXCEPT ![w].pc = "lease"]
  /\ rows' = RecoverStuckSending(rows)
  /\ overrun' = overrun \cup
       {r \in Rows : Stuck(rows[r]) /\ \E v \in Workers : r \in Holds(v)}
  /\ UNCHANGED <<dest, submit, payload, staging, bounces, accepted, lost, copies, leases>>

\* LeasePendingOutbox returns as many ready rows as there are, up to the limit.  The
\* worker keeps what it read: whether a sent copy was staged at that moment.
RunOnceLease(w) ==
  /\ At(w, "lease")
  /\ \E leased \in SUBSET {r \in Rows : Leasable(rows[r])} :
       /\ \/ leased = {r \in Rows : Leasable(rows[r])}
          \/ Cardinality(leased) = BatchSize
       /\ Cardinality(leased) <= BatchSize
       /\ rows' = [r \in Rows |-> IF r \in leased THEN LeaseRow(rows[r]) ELSE rows[r]]
       /\ leases' = [r \in Rows |-> IF r \in leased THEN leases[r] + 1 ELSE leases[r]]
       /\ workers' = [workers EXCEPT ![w] =
            [@ EXCEPT !.pc = "batch", !.batch = leased,
                      !.staged = {r \in leased : rows[r].copy = "staged"}]]
  /\ UNCHANGED <<dest, submit, payload, staging, bounces, accepted, lost, copies, overrun>>

\* Either statement fails: the sweep's error is logged and the tick goes on, the
\* lease's error ends the tick.
RunOnceError(w) ==
  /\ \/ At(w, "idle") /\ workers' = [workers EXCEPT ![w].pc = "lease"]
     \/ At(w, "lease") /\ workers' = [workers EXCEPT ![w] = IdleWorker]
  /\ UNCHANGED <<dest, submit, stores, history>>

NextRow(w) ==
  /\ At(w, "batch")
  /\ \/ \E r \in workers[w].batch :
          workers' = [workers EXCEPT ![w] = [@ EXCEPT !.pc = "prepare", !.row = r,
                                                      !.batch = workers[w].batch \ {r}]]
     \/ /\ workers[w].batch = {}
        /\ workers' = [workers EXCEPT ![w] = IdleWorker]
  /\ UNCHANGED <<dest, submit, stores, history>>
-----------------------------------------------------------------------------
(***************************************************************************)
(* deliver: prepare the payload, take the domains in any order (the code   *)
(* ranges over a map), and settle the row.                                 *)
(***************************************************************************)

\* Blob read, recipient split, unwrapping or PGP/MIME wrapping, From and DKIM.  A
\* failed blob read or signature is transient, every other failure is permanent.
Prepare(w) ==
  /\ At(w, "prepare")
  /\ \/ /\ workers[w].row \in payload
        /\ workers' = [workers EXCEPT ![w] = [@ EXCEPT !.pc = "domains",
                                                       !.todo = dest[workers[w].row]]]
     \/ /\ workers[w].row \in payload
        /\ workers' = [workers EXCEPT ![w].pc = "failPermanent"]
     \/ workers' = [workers EXCEPT ![w].pc = "failTransient"]
  /\ UNCHANGED <<dest, submit, stores, history>>

\* LookupMX falls back to the domain itself, so there is always a host to try.
NextDomain(w) ==
  /\ At(w, "domains")
  /\ \E d \in workers[w].todo, n \in 1..MaxHosts :
       workers' = [workers EXCEPT ![w] = [@ EXCEPT !.pc = "host", !.domain = d,
                                                   !.hosts = n, !.reply = "none"]]
  /\ UNCHANGED <<dest, submit, stores, history>>

\* The Go error a failed RCPT hands to deliverDomain: client.Rcpt prints the reply
\* into a plain error, so no *wire.SMTPError can be unwrapped from it.
RcptError(code) == [smtpError |-> FALSE, code |-> code]

\* isSMTP(err, 5)
IsPermanentError(err) == err.smtpError /\ err.code \div 100 = 5

\* This host did not take the message: go to the next one, or give up for now.
HostFailed(w, reply) ==
  workers' = [workers EXCEPT ![w] =
    [@ EXCEPT !.hosts = workers[w].hosts - 1, !.reply = reply,
              !.pc = IF workers[w].hosts = 1 THEN "failTransient" ELSE "host"]]

HostRejected(w, reply) ==
  workers' = [workers EXCEPT ![w] = [@ EXCEPT !.pc = "bounce", !.reply = reply]]

\* Fault: the domain is not struck off.
DomainNotStruckOff(w) ==
  workers' = [workers EXCEPT ![w] =
    [@ EXCEPT !.pc = "domains", !.domain = None, !.reply = "2xx"]]

DomainAccepted(w) ==
  workers' = [workers EXCEPT ![w] =
    [@ EXCEPT !.pc = "domains", !.todo = workers[w].todo \ {workers[w].domain},
              !.domain = None, !.reply = "2xx"]]

\* One turn of deliverDomain's loop over the MX hosts.
DeliverHost(w) ==
  LET r == workers[w].row
      d == workers[w].domain
  IN
  /\ At(w, "host")
  /\ \/ /\ DomainAccepted(w)
        /\ accepted' = [accepted EXCEPT ![r][d] = @ + 1]
        /\ UNCHANGED lost
     \/ /\ HostFailed(w, "none")                  \* accepted, but the reply is lost
        /\ accepted' = [accepted EXCEPT ![r][d] = @ + 1]
        /\ lost' = [lost EXCEPT ![r][d] = @ + 1]
     \/ /\ HostFailed(w, "none")                  \* no connection, MAIL refused
        /\ UNCHANGED <<accepted, lost>>
     \/ /\ HostFailed(w, "4xx")                   \* RCPT or DATA answered 4xx
        /\ UNCHANGED <<accepted, lost>>
     \/ /\ IF IsPermanentError(RcptError(550))    \* RCPT answered 5xx
             THEN HostRejected(w, "5xx")
             ELSE HostFailed(w, "5xx")
        /\ UNCHANGED <<accepted, lost>>
     \/ /\ HostRejected(w, "5xx")                 \* the message answered 5xx
        /\ UNCHANGED <<accepted, lost>>
  /\ UNCHANGED <<dest, submit, stores, copies, leases, overrun>>

\* InsertBounce for every address of the domain; its errors are dropped.
InsertBounces(w) ==
  /\ At(w, "bounce")
  /\ bounces' \in {bounces, bounces \cup {<<workers[w].row, workers[w].domain>>}}
  /\ workers' = [workers EXCEPT ![w].pc = "failPermanent"]
  /\ UNCHANGED <<rows, dest, submit, payload, staging, history>>

\* The worker lets go of its row and turns to the rest of the batch.
RowDone(w) ==
  [workers EXCEPT ![w] = [@ EXCEPT !.pc = "batch", !.row = None, !.todo = {},
                                   !.domain = None, !.hosts = 0, !.reply = "none"]]

\* failTransient and failPermanent: an error of the UPDATE is only logged, which
\* leaves the row in "sending".
SettleFailed(w) ==
  /\ At(w, "failTransient") \/ At(w, "failPermanent")
  /\ LET r == workers[w].row
         failed == MarkOutboxFailed(rows[r], At(w, "failTransient"))
     IN rows' \in {rows, [rows EXCEPT ![r] = failed]}
  /\ workers' = RowDone(w)
  /\ UNCHANGED <<dest, submit, payload, staging, bounces, history>>

\* Fault: the first accepted domain settles the row.
SettleSentEarly(w) ==
  /\ At(w, "domains")
  /\ rows' = [rows EXCEPT ![workers[w].row] = MarkOutboxSent(@)]
  /\ workers' = RowDone(w)
  /\ UNCHANGED <<dest, submit, payload, staging, bounces, history>>

\* Fault: the sent copy is stored after every delivery.
SettleSentAlwaysCopies(w) ==
  /\ At(w, "domains")
  /\ workers[w].todo = {}
  /\ rows' \in {rows, [rows EXCEPT ![workers[w].row] = MarkOutboxSent(@)]}
  /\ workers' = [workers EXCEPT ![w].pc = "copy"]
  /\ UNCHANGED <<dest, submit, payload, staging, bounces, history>>

\* All domains accepted: MarkOutboxSent, its error only logged, then the sent copy
\* if the row was leased with one staged.
SettleSent(w) ==
  /\ At(w, "domains")
  /\ workers[w].todo = {}
  /\ LET r == workers[w].row IN
     /\ rows' \in {rows, [rows EXCEPT ![r] = MarkOutboxSent(rows[r])]}
     /\ workers' = IF r \in workers[w].staged
                     THEN [workers EXCEPT ![w].pc = "copy"]
                     ELSE RowDone(w)
  /\ UNCHANGED <<dest, submit, payload, staging, bounces, history>>
-----------------------------------------------------------------------------
(***************************************************************************)
(* persistSentCopy: read the staging blob and ingest it into the sender's  *)
(* Sent folder, record the message id, delete the staging blob.  An error  *)
(* at any step is logged and ends it; nothing resumes it later.            *)
(***************************************************************************)

\* Fault: the staging blob goes before the copy is recorded.
IngestSentCopyConsumes(w) ==
  /\ At(w, "copy")
  /\ workers[w].row \in staging
  /\ staging' = staging \ {workers[w].row}
  /\ copies' = [copies EXCEPT ![workers[w].row] = @ + 1]
  /\ workers' = [workers EXCEPT ![w].pc = "copyRecord"]
  /\ UNCHANGED <<rows, dest, submit, payload, bounces, accepted, lost, leases, overrun>>

IngestSentCopy(w) ==
  /\ At(w, "copy")
  /\ \/ /\ workers[w].row \in staging
        /\ copies' = [copies EXCEPT ![workers[w].row] = @ + 1]
        /\ workers' = [workers EXCEPT ![w].pc = "copyRecord"]
     \/ /\ workers' = RowDone(w)
        /\ UNCHANGED copies
  /\ UNCHANGED <<dest, submit, stores, accepted, lost, leases, overrun>>

PersistRecord(w) ==
  /\ At(w, "copyRecord")
  /\ \/ /\ rows' = [rows EXCEPT ![workers[w].row] = RecordSentCopy(@)]
        /\ workers' = [workers EXCEPT ![w].pc = "copyDelete"]
     \/ /\ workers' = RowDone(w)
        /\ UNCHANGED rows
  /\ UNCHANGED <<dest, submit, payload, staging, bounces, history>>

PersistDelete(w) ==
  /\ At(w, "copyDelete")
  /\ staging' \in BestEffortDelete(staging, workers[w].row)
  /\ workers' = RowDone(w)
  /\ UNCHANGED <<rows, dest, submit, payload, bounces, history>>

PersistSentCopy(w) == IngestSentCopy(w) \/ PersistRecord(w) \/ PersistDelete(w)

\* The steps a running worker takes on its own.
WorkerStep(w) ==
  \/ RunOnceRecover(w) \/ RunOnceLease(w) \/ RunOnceError(w) \/ NextRow(w)
  \/ Prepare(w) \/ NextDomain(w) \/ InsertBounces(w)
  \/ SettleFailed(w) \/ SettleSent(w) \/ PersistSentCopy(w)

\* The process stops and restarts: everything the worker knew is gone.
WorkerCrash(w) ==
  /\ ~At(w, "idle")
  /\ workers' = [workers EXCEPT ![w] = IdleWorker]
  /\ UNCHANGED <<dest, submit, stores, history>>
-----------------------------------------------------------------------------
(***************************************************************************)
(* The clock and the administrator.  LeaseBound freezes the clock of a row *)
(* that has been leased that often, which keeps the instance finite.       *)
(***************************************************************************)

BackoffElapses(r) ==
  /\ leases[r] < LeaseBound
  /\ rows[r].wait > 0
  /\ rows' = [rows EXCEPT ![r].wait = 0]
  /\ UNCHANGED <<dest, submit, payload, staging, bounces, workers, history>>

LeaseAges(r) ==
  /\ leases[r] < LeaseBound
  /\ rows[r].status = "sending" /\ ~rows[r].stale
  /\ rows' = [rows EXCEPT ![r].stale = TRUE]
  /\ UNCHANGED <<dest, submit, payload, staging, bounces, workers, history>>

\* Fault: the retry does not test the status.
AdminRetryAny(r) ==
  /\ leases[r] < LeaseBound
  /\ rows[r].status # "absent"
  /\ rows' = [rows EXCEPT ![r] = RetryOutboxEntry(@)]
  /\ UNCHANGED <<dest, submit, payload, staging, bounces, workers, history>>

AdminRetry(r) ==
  /\ leases[r] < LeaseBound
  /\ rows[r].status = "failed"
  /\ rows' = [rows EXCEPT ![r] = RetryOutboxEntry(@)]
  /\ UNCHANGED <<dest, submit, payload, staging, bounces, workers, history>>

Next ==
  \/ \E r \in Rows : Submit(r) \/ BackoffElapses(r) \/ LeaseAges(r) \/ AdminRetry(r)
  \/ \E w \in Workers : WorkerStep(w) \/ DeliverHost(w) \/ WorkerCrash(w)

Spec == Init /\ [][Next]_vars

\* Every process keeps ticking (Start's ticker loop), a statement repeated on every
\* tick is not refused every time, and time passes.  Nobody owes the
\* system a submission, a retry or a crash; and a remote server owes it no answer: the
\* SMTP client sets no read deadline, so DeliverHost is not fair.
Fairness ==
  /\ \A w \in Workers : /\ WF_vars(WorkerStep(w))
                       /\ SF_vars(RunOnceRecover(w))
                       /\ SF_vars(RunOnceLease(w))
  /\ \A r \in Rows : WF_vars(BackoffElapses(r)) /\ WF_vars(LeaseAges(r))

FairSpec == Spec /\ Fairness
-----------------------------------------------------------------------------
WorkerPCs == {"idle", "lease", "batch", "prepare", "domains", "host", "bounce",
              "failTransient", "failPermanent", "copy", "copyRecord", "copyDelete"}

SubmitStates == {"idle", "staged", "plain", "both", "accepted", "refused", "crashed"}

\* What next_attempt_at - now() can have been set to.
Waits == {0} \cup {60 * 2 ^ k : k \in 0..8}

OutboxRows == [status : Statuses, attempts : Nat, wait : Waits, stale : BOOLEAN,
               copy : CopyStates]

WorkerStates == [pc : WorkerPCs, batch : SUBSET Rows, staged : SUBSET Rows,
                 row : Rows \cup {None}, todo : SUBSET Domains,
                 domain : Domains \cup {None}, hosts : 0..MaxHosts,
                 reply : {"none", "2xx", "4xx", "5xx"}]

\* Type correctness of the outbox, the blobs and the workers' local state.
TypeOK ==
  /\ rows \in [Rows -> OutboxRows]
  /\ dest \in [Rows -> SUBSET Domains]
  /\ submit \in [Rows -> SubmitStates]
  /\ payload \in SUBSET Rows
  /\ staging \in SUBSET Rows
  /\ bounces \in SUBSET (Rows \X Domains)
  /\ workers \in [Workers -> WorkerStates]
  /\ accepted \in [Rows -> [Domains -> Nat]]
  /\ lost \in [Rows -> [Domains -> Nat]]
  /\ copies \in [Rows -> Nat]
  /\ leases \in [Rows -> Nat]
  /\ overrun \in SUBSET Rows
-----------------------------------------------------------------------------
(***************************************************************************)
(* What the outbound path promises.                                        *)
(***************************************************************************)

\* A row reads "sent" only if every recipient domain took at least one copy, whatever
\* retries, lost replies, crashes and competing workers came before: MarkOutboxSent is
\* reached only past the loop over all domains of this very delivery.
SentMeansDelivered ==
  \A r \in Rows : rows[r].status = "sent" => \A d \in dest[r] : accepted[r][d] > 0

\* Two workers work on the same row only if RecoverStuckSending gave it away while its
\* holder was still running: LeasePendingOutbox takes pending rows only, and a holder's
\* row is not pending.
LeaseExclusive ==
  \A r \in Rows : r \notin overrun =>
    \A v, w \in Workers : r \in Holds(v) /\ r \in Holds(w) => v = w

\* "sent" is final unless the row's lease ran out under its holder: the unguarded
\* updates of MarkOutboxFailed reach a sent row only from such a second holder.
SentIsFinal ==
  [][\A r \in Rows : rows[r].status = "sent" /\ r \notin overrun
                       => rows'[r].status = "sent"]_vars

\* Duplicates are accounted for: beyond copies whose reply was lost, a domain takes at
\* most one copy per lease of the row, however many hosts and ticks that takes.
OneCopyPerLease ==
  \A r \in Rows : \A d \in Domains : accepted[r][d] <= leases[r] + lost[r][d]

\* What a client was told is queued (202) can be delivered: unless the insert was
\* reported as failed, a row's payload blob is there, and so is the staging blob of a
\* copy that is still to be stored.
QueuedIsReadable ==
  \A r \in Rows : rows[r].status # "absent" /\ submit[r] # "refused" =>
    /\ r \in payload
    /\ rows[r].copy = "staged" => r \in staging

\* A sent copy that is recorded on the row is not stored a second time, even when the
\* row is delivered again, unless a second holder leased the row before the record.
CopyStoredOnce ==
  [][\A r \in Rows : rows[r].copy = "recorded" /\ r \notin overrun
                       => copies'[r] = copies[r]]_vars

Contract == INSTANCE OutboxContract WITH
  status <- [r \in Rows |-> rows[r].status],
  took   <- [r \in Rows |-> {d \in Domains : accepted[r][d] > 0}],
  late   <- overrun

\* The handlers, workers and statements together implement the row life cycle of
\* OutboxContract: no step of any actor leaves it.
ImplementsContract == Contract!Spec

Settled(r) == rows[r].status \in {"sent", "failed"}

\* No queued row is forgotten, through crashes of its holder at any point: it is
\* settled, or attempted as often as the instance allows, unless every worker is
\* waiting for a remote server's answer.
QueueDrains ==
  \A r \in Rows : rows[r].status \in {"pending", "sending"} ~>
    \/ Settled(r)
    \/ leases[r] >= LeaseBound
    \/ \A w \in Workers : At(w, "host")
-----------------------------------------------------------------------------
(***************************************************************************)
(* What the documentation says and the code does not do.                   *)
(***************************************************************************)

\* worker.go, package comment: "Classify SMTP errors as Permanent (5xx)".  A delivery
\* whose last answer from a recipient's server was 5xx is not rescheduled.
FiveHundredIsPermanent ==
  \A w \in Workers : At(w, "failTransient") => workers[w].reply # "5xx"

\* outbox.go, backoff: "min 60s * 2^attempt, capped at 1h".
BackoffCapped == \A r \in Rows : rows[r].wait <= 3600

\* ADR 0010: "outbox rows are deleted on success; expired/failed rows are GC'd by the
\* worker"; ADR 0007 has the worker delete the blob after MarkOutboxSent.
SentPayloadReclaimed ==
  \A r \in Rows : rows[r].status = "sent" ~> (r \notin payload \/ rows[r].status # "sent")
=============================================================================
