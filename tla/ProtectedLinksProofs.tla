------------------------ MODULE ProtectedLinksProofs ------------------------
(***************************************************************************)
(* For every number of links, readers and views: view numbers are unique   *)
(* and within the limit, the two marks of a used-up link agree, and a      *)
(* link that was handed out keeps its ciphertext.                          *)
(***************************************************************************)
EXTENDS ProtectedLinks, TLAPS

\* What is true of a link before its row is inserted: nobody can know it.
Fresh(l) ==
  create[l] \in {"new", "stored"} =>
    /\ ~row[l].present /\ served[l] = {}
    /\ l \notin reclaim /\ l \notin purge.todo
    /\ \A r \in Readers : readers[r].link # l

\* A row and the view numbers handed out under it.
RowOK(l) ==
  row[l].present =>
    /\ row[l].max = limit[l]
    /\ row[l].max > 0 => row[l].views <= row[l].max
    /\ row[l].burned <=> Spent(row[l])
    /\ \A n \in served[l] : n <= row[l].views
    /\ \A r \in Readers : readers[r].link = l => readers[r].view <= row[l].views

\* What stays true when the row is gone.
ServedOK(l) ==
  /\ \A n \in served[l] : 1 <= n /\ (limit[l] > 0 => n <= limit[l])
  /\ \A r \in Readers : readers[r].link = l =>
       /\ 1 <= readers[r].view
       /\ limit[l] > 0 => readers[r].view <= limit[l]
       /\ readers[r].view \notin served[l]
       /\ \A q \in Readers \ {r} : readers[q] # readers[r]

\* The blob goes last: a row the sweeper works on is already deleted.
BlobOK(l) ==
  /\ l \in reclaim => ~row[l].present
  /\ create[l] = "stored" => l \in blobs
  /\ (create[l] = "done" /\ row[l].present /\ ~purge.begun) => l \in blobs

LinkOK(l) == Fresh(l) /\ RowOK(l) /\ ServedOK(l) /\ BlobOK(l)

IInv ==
  /\ TypeOK
  /\ purge.active => purge.begun
  /\ \A l \in Links : LinkOK(l)

\* What the row statements return.
LEMMA NewRowType ==
  ASSUME NEW max \in Limits
  PROVE  /\ NewRow(max) \in RowType
         /\ NewRow(max).present /\ NewRow(max).max = max
         /\ NewRow(max).views = 0 /\ NewRow(max).burned = FALSE
  BY DEF NewRow, RowType, Ages

\* The limit and the view counter of a row are natural numbers.
LEMMA RowFields ==
  ASSUME NEW r \in RowType
  PROVE  r.max \in Nat /\ r.views \in Nat /\ r.burned \in BOOLEAN
<1>1. r.max \in Limits \cup {0} /\ r.views \in Nat /\ r.burned \in BOOLEAN
  BY Zenon DEF RowType
<1>2. Limits \cup {0} \subseteq Nat
  BY LimitsAssumption
<1> QED
  BY <1>1, <1>2

\* ConsumeView keeps the type of a row.
LEMMA ConsumedType ==
  ASSUME NEW r \in RowType, Openable(r), r.max > 0 => r.views <= r.max
  PROVE  /\ Consumed(r) \in RowType
         /\ Consumed(r).present /\ Consumed(r).max = r.max
         /\ Consumed(r).views = r.views + 1
         /\ Consumed(r).burned <=> Spent(Consumed(r))
         /\ r.max > 0 => r.views + 1 <= r.max
<1> DEFINE b == (r.max > 0 /\ r.views + 1 >= r.max) \/ r.burned
<1>0. r.views + 1 \in Nat /\ r.max \in Nat /\ r.views \in Nat /\ r.burned \in BOOLEAN
  BY RowFields
<1>1. b \in BOOLEAN
  BY Zenon
<1>2. Consumed(r) = [r EXCEPT !.views = r.views + 1, !.burned = b]
  BY Zenon DEF Consumed
<1>3. Consumed(r) \in RowType
  <2> HIDE DEF b
  <2> QED  BY <1>0, <1>1, <1>2, Zenon DEF RowType
<1>4. Consumed(r).views = r.views + 1 /\ Consumed(r).max = r.max /\ Consumed(r).present = r.present
  BY DEF Consumed, RowType
<1>5. Consumed(r).burned = b
  <2> HIDE DEF b
  <2> QED  BY <1>2, Zenon DEF RowType
<1>6. r.max > 0 => r.views + 1 <= r.max
  BY <1>0 DEF Openable
<1> QED
  BY <1>0, <1>3, <1>4, <1>5, <1>6 DEF Openable, Spent

\* The invariant holds at the start.
LEMMA InitIInv == Init => IInv
<1> SUFFICES ASSUME Init PROVE IInv
  OBVIOUS
<1>1. TypeOK
  BY DEF Init, TypeOK, RowType, AbsentRow, IdleReader, Ages
<1>2. ASSUME NEW l \in Links PROVE LinkOK(l)
  BY <1>2, NoLinkAssumption DEF Init, LinkOK, Fresh, RowOK, ServedOK, BlobOK, AbsentRow, IdleReader
<1> QED
  BY <1>1, <1>2 DEF IInv, Init

\* Storing the ciphertext keeps it.
LEMMA CreatePutPreserves ==
  ASSUME IInv, NEW l \in Links, CreatePut(l)
  PROVE  IInv'
<1>1. TypeOK'
  BY DEF IInv, TypeOK, CreatePut
<1>2. (purge.active => purge.begun)'
  BY DEF IInv, CreatePut
<1>3. ASSUME NEW k \in Links PROVE LinkOK(k)'
  BY <1>3 DEF IInv, TypeOK, LinkOK, Fresh, RowOK, ServedOK, BlobOK, CreatePut, Spent
<1> QED
  BY <1>1, <1>2, <1>3 DEF IInv

\* Inserting the row keeps it.
LEMMA CreateInsertPreserves ==
  ASSUME IInv, NEW l \in Links, CreateInsert(l)
  PROVE  IInv'
<1> USE DEF IInv
<1>1. CASE UNCHANGED <<row, limit>>
  <2>1. TypeOK'
    BY <1>1 DEF TypeOK, CreateInsert
  <2>2. ASSUME NEW k \in Links PROVE LinkOK(k)'
    BY <1>1 DEF TypeOK, LinkOK, Fresh, RowOK, ServedOK, BlobOK, CreateInsert, Spent
  <2> QED
    BY <2>1, <2>2 DEF CreateInsert
<1>2. ASSUME NEW max \in Limits, row' = [row EXCEPT ![l] = NewRow(max)],
             limit' = [limit EXCEPT ![l] = max],
             \/ create' = [create EXCEPT ![l] = "done"] /\ blobs' = blobs
             \/ create' = [create EXCEPT ![l] = "failed"] /\ blobs' \in {blobs, blobs \ {l}}
      PROVE  IInv'
  <2> USE <1>2, NewRowType
  <2>1. TypeOK'
    BY DEF TypeOK, CreateInsert
  <2>2. ASSUME NEW k \in Links, k # l PROVE LinkOK(k)'
    BY <2>2 DEF TypeOK, LinkOK, Fresh, RowOK, ServedOK, BlobOK, CreateInsert, Spent
  <2>3. LinkOK(l)'
    <3>1. create[l] = "stored" /\ served'[l] = {} /\ l \notin reclaim' /\ l \in blobs
      BY DEF CreateInsert, LinkOK, Fresh, BlobOK
    <3>2. \A r \in Readers : readers'[r].link # l
      BY DEF CreateInsert, LinkOK, Fresh
    <3>3. row'[l] = NewRow(max) /\ limit'[l] = max /\ max \in Nat
      BY LimitsAssumption DEF TypeOK
    <3>4. RowOK(l)'
      <4>1. ~Spent(NewRow(max))
        BY <3>3 DEF Spent, NewRow
      <4> QED
        BY <3>1, <3>2, <3>3, <4>1 DEF RowOK, NewRow
    <3>5. create'[l] \in {"done", "failed"} /\ (create'[l] = "done" => blobs' = blobs)
      BY DEF TypeOK
    <3> QED
      BY <3>1, <3>2, <3>4, <3>5 DEF LinkOK, Fresh, ServedOK, BlobOK
  <2> QED
    BY <2>1, <2>2, <2>3 DEF CreateInsert
<1> QED
  BY <1>1, <1>2 DEF CreateInsert

\* A crash of the create handler keeps it.
LEMMA CreateCrashPreserves ==
  ASSUME IInv, NEW l \in Links, CreateCrash(l)
  PROVE  IInv'
<1>1. TypeOK'
  BY DEF IInv, TypeOK, CreateCrash
<1>2. (purge.active => purge.begun)'
  BY DEF IInv, CreateCrash
<1>3. ASSUME NEW k \in Links PROVE LinkOK(k)'
  BY <1>3 DEF IInv, TypeOK, LinkOK, Fresh, RowOK, ServedOK, BlobOK, CreateCrash, Spent
<1> QED
  BY <1>1, <1>2, <1>3 DEF IInv

\* Consuming a view keeps it.
LEMMA OpenConsumePreserves ==
  ASSUME IInv, NEW r \in Readers, NEW l \in Links, OpenConsume(r, l)
  PROVE  IInv'
<1>0. /\ Consumed(row[l]) \in RowType
      /\ Consumed(row[l]).present /\ Consumed(row[l]).max = row[l].max
      /\ Consumed(row[l]).views = row[l].views + 1
      /\ Consumed(row[l]).burned <=> Spent(Consumed(row[l]))
      /\ row[l].max > 0 => row[l].views + 1 <= row[l].max
      /\ row[l] \in RowType /\ row[l].views \in Nat /\ row[l].max \in Nat
  <2>1. row[l] \in RowType /\ Openable(row[l])
    BY DEF IInv, TypeOK, OpenConsume
  <2>2. row[l].views \in Nat /\ row[l].max \in Nat
    BY <2>1, RowFields
  <2>3. row[l].max > 0 => row[l].views <= row[l].max
    BY <2>1 DEF IInv, LinkOK, RowOK, Openable
  <2> QED
    BY <2>1, <2>2, <2>3, ConsumedType
<1>1. TypeOK'
  BY <1>0 DEF IInv, TypeOK, OpenConsume
<1>2. (purge.active => purge.begun)'
  BY DEF IInv, OpenConsume
<1>3. ASSUME NEW k \in Links PROVE LinkOK(k)'
  BY <1>0 DEF IInv, TypeOK, LinkOK, Fresh, RowOK, ServedOK, BlobOK, OpenConsume, Openable, Reading, Spent
<1> QED
  BY <1>1, <1>2, <1>3 DEF IInv

\* So does a view whose commit reported an error.
LEMMA OpenConsumeLostPreserves ==
  ASSUME IInv, NEW l \in Links, OpenConsumeLost(l)
  PROVE  IInv'
<1>0. /\ Consumed(row[l]) \in RowType
      /\ Consumed(row[l]).present /\ Consumed(row[l]).max = row[l].max
      /\ Consumed(row[l]).views = row[l].views + 1
      /\ Consumed(row[l]).burned <=> Spent(Consumed(row[l]))
      /\ row[l].max > 0 => row[l].views + 1 <= row[l].max
      /\ row[l] \in RowType /\ row[l].views \in Nat /\ row[l].max \in Nat
  <2>1. row[l] \in RowType /\ Openable(row[l])
    BY DEF IInv, TypeOK, OpenConsumeLost
  <2>2. row[l].views \in Nat /\ row[l].max \in Nat
    BY <2>1, RowFields
  <2>3. row[l].max > 0 => row[l].views <= row[l].max
    BY <2>1 DEF IInv, LinkOK, RowOK, Openable
  <2> QED
    BY <2>1, <2>2, <2>3, ConsumedType
<1>1. TypeOK'
  BY <1>0 DEF IInv, TypeOK, OpenConsumeLost
<1>2. (purge.active => purge.begun)'
  BY DEF IInv, OpenConsumeLost
<1>3. ASSUME NEW k \in Links PROVE LinkOK(k)'
  BY <1>0 DEF IInv, TypeOK, LinkOK, Fresh, RowOK, ServedOK, BlobOK, OpenConsumeLost, Openable, Reading, Spent
<1> QED
  BY <1>1, <1>2, <1>3 DEF IInv

\* Reading the ciphertext keeps it.
LEMMA OpenFetchPreserves ==
  ASSUME IInv, NEW r \in Readers, OpenFetch(r)
  PROVE  IInv'
<1>1. TypeOK'
  BY DEF IInv, TypeOK, OpenFetch, IdleReader, Reading
<1>2. (purge.active => purge.begun)'
  BY DEF IInv, OpenFetch, IdleReader, Reading
<1>3. ASSUME NEW k \in Links PROVE LinkOK(k)'
  <2>1. \A q \in Readers : readers'[q].link = k => q # r /\ readers'[q] = readers[q]
    BY NoLinkAssumption DEF IInv, TypeOK, OpenFetch, IdleReader
  <2>2. \A n \in served'[k] : n \in served[k] \/ (readers[r].link = k /\ n = readers[r].view)
    BY DEF IInv, TypeOK, OpenFetch
  <2>3. /\ served'[k] = {} \/ served'[k] = served[k] \/ readers[r].link = k
        /\ UNCHANGED <<row, blobs, create, limit, reclaim, purge>>
    BY DEF IInv, TypeOK, OpenFetch
  <2>4. LinkOK(k)
    BY DEF IInv
  <2>5. Fresh(k)' /\ RowOK(k)' /\ BlobOK(k)'
    BY <2>1, <2>2, <2>3, <2>4 DEF LinkOK, Fresh, RowOK, BlobOK, Spent
  <2>6. ASSUME NEW q \in Readers, readers'[q].link = k PROVE readers'[q].view \notin served'[k]
    <3>1. q # r /\ readers'[q] = readers[q] /\ readers[q].link = k
      BY <2>1, <2>6
    <3>2. readers[q].view \notin served[k] /\ readers[r] # readers[q]
      BY <2>4, <3>1 DEF LinkOK, ServedOK
    <3>3. readers[r].link = k => readers[r].view # readers[q].view
      BY <3>1, <3>2 DEF IInv, TypeOK
    <3> QED
      BY <2>2, <3>1, <3>2, <3>3
  <2>7. ASSUME NEW q \in Readers, readers'[q].link = k, NEW p \in Readers \ {q}
        PROVE  readers'[p] # readers'[q]
    <3>1. q # r /\ readers'[q] = readers[q] /\ readers[q].link = k
      BY <2>1, <2>7
    <3>2. CASE readers'[p].link = k
      BY <2>1, <2>4, <3>1, <3>2 DEF LinkOK, ServedOK
    <3>3. CASE readers'[p].link # k
      BY <2>7, <3>3
    <3> QED
      BY <3>2, <3>3
  <2>8. ServedOK(k)'
    BY <2>1, <2>2, <2>3, <2>4, <2>6, <2>7 DEF LinkOK, ServedOK
  <2> QED
    BY <2>5, <2>8 DEF LinkOK
<1> QED
  BY <1>1, <1>2, <1>3 DEF IInv

\* The deletion of expired rows keeps it.
LEMMA SweepPurgePreserves ==
  ASSUME IInv, SweepPurge
  PROVE  IInv'
<1>1. TypeOK'
  BY DEF IInv, TypeOK, SweepPurge, PurgeBatches, DeleteRows, AbsentRow, RowType, Ages
<1>2. (purge.active => purge.begun)'
  BY DEF IInv, SweepPurge, PurgeBatches, DeleteRows, AbsentRow, RowType, Ages
<1>3. ASSUME NEW k \in Links PROVE LinkOK(k)'
  BY <1>3 DEF IInv, TypeOK, LinkOK, Fresh, RowOK, ServedOK, BlobOK, SweepPurge, PurgeBatches, Purgeable, DeleteRows, AbsentRow, Spent
<1> QED
  BY <1>1, <1>2, <1>3 DEF IInv

\* So does one that reported an error.
LEMMA SweepPurgeLostPreserves ==
  ASSUME IInv, SweepPurgeLost
  PROVE  IInv'
<1>1. TypeOK'
  BY DEF IInv, TypeOK, SweepPurgeLost, PurgeBatches, DeleteRows, AbsentRow, RowType, Ages
<1>2. (purge.active => purge.begun)'
  BY DEF IInv, SweepPurgeLost, PurgeBatches, DeleteRows, AbsentRow, RowType, Ages
<1>3. ASSUME NEW k \in Links PROVE LinkOK(k)'
  BY <1>3 DEF IInv, TypeOK, LinkOK, Fresh, RowOK, ServedOK, BlobOK, SweepPurgeLost, PurgeBatches, DeleteRows, AbsentRow, Spent
<1> QED
  BY <1>1, <1>2, <1>3 DEF IInv

\* Deleting the blob of a swept row keeps it.
LEMMA SweepBlobPreserves ==
  ASSUME IInv, NEW l \in Links, SweepBlob(l)
  PROVE  IInv'
<1>1. TypeOK'
  BY DEF IInv, TypeOK, SweepBlob
<1>2. (purge.active => purge.begun)'
  BY DEF IInv, SweepBlob
<1>3. ASSUME NEW k \in Links PROVE LinkOK(k)'
  BY <1>3 DEF IInv, TypeOK, LinkOK, Fresh, RowOK, ServedOK, BlobOK, SweepBlob, Spent
<1> QED
  BY <1>1, <1>2, <1>3 DEF IInv

\* A crash of the sweeper keeps it.
LEMMA SweepCrashPreserves ==
  ASSUME IInv, SweepCrash
  PROVE  IInv'
<1>1. TypeOK'
  BY DEF IInv, TypeOK, SweepCrash
<1>2. (purge.active => purge.begun)'
  BY DEF IInv, SweepCrash
<1>3. ASSUME NEW k \in Links PROVE LinkOK(k)'
  BY <1>3 DEF IInv, TypeOK, LinkOK, Fresh, RowOK, ServedOK, BlobOK, SweepCrash, Spent
<1> QED
  BY <1>1, <1>2, <1>3 DEF IInv

\* Beginning the purge of an account keeps it.
LEMMA PurgeBeginPreserves ==
  ASSUME IInv, PurgeBegin
  PROVE  IInv'
<1>1. TypeOK'
  BY DEF IInv, TypeOK, PurgeBegin
<1>2. (purge.active => purge.begun)'
  BY DEF IInv, PurgeBegin
<1>3. ASSUME NEW k \in Links PROVE LinkOK(k)'
  BY <1>3 DEF IInv, TypeOK, LinkOK, Fresh, RowOK, ServedOK, BlobOK, PurgeBegin, Spent
<1> QED
  BY <1>1, <1>2, <1>3 DEF IInv

\* Deleting a blob in it keeps it.
LEMMA PurgeBlobPreserves ==
  ASSUME IInv, NEW l \in Links, PurgeBlob(l)
  PROVE  IInv'
<1>1. TypeOK'
  BY DEF IInv, TypeOK, PurgeBlob
<1>2. (purge.active => purge.begun)'
  BY DEF IInv, PurgeBlob
<1>3. ASSUME NEW k \in Links PROVE LinkOK(k)'
  BY <1>3 DEF IInv, TypeOK, LinkOK, Fresh, RowOK, ServedOK, BlobOK, PurgeBlob, Spent
<1> QED
  BY <1>1, <1>2, <1>3 DEF IInv

\* Deleting a row in it keeps it.
LEMMA PurgeRowPreserves ==
  ASSUME IInv, NEW l \in Links, PurgeRow(l)
  PROVE  IInv'
<1>1. TypeOK'
  BY DEF IInv, TypeOK, PurgeRow, DeleteRows, AbsentRow, RowType, Ages
<1>2. (purge.active => purge.begun)'
  BY DEF IInv, PurgeRow, DeleteRows, AbsentRow, RowType, Ages
<1>3. ASSUME NEW k \in Links PROVE LinkOK(k)'
  BY <1>3 DEF IInv, TypeOK, LinkOK, Fresh, RowOK, ServedOK, BlobOK, PurgeRow, DeleteRows, AbsentRow, Spent
<1> QED
  BY <1>1, <1>2, <1>3 DEF IInv

\* Giving the purge up keeps it.
LEMMA PurgeAbortPreserves ==
  ASSUME IInv, PurgeAbort
  PROVE  IInv'
<1>1. TypeOK'
  BY DEF IInv, TypeOK, PurgeAbort
<1>2. (purge.active => purge.begun)'
  BY DEF IInv, PurgeAbort
<1>3. ASSUME NEW k \in Links PROVE LinkOK(k)'
  BY <1>3 DEF IInv, TypeOK, LinkOK, Fresh, RowOK, ServedOK, BlobOK, PurgeAbort, Spent
<1> QED
  BY <1>1, <1>2, <1>3 DEF IInv

\* Deleting the account keeps it.
LEMMA PurgeUserPreserves ==
  ASSUME IInv, PurgeUser
  PROVE  IInv'
<1>1. TypeOK'
  BY DEF IInv, TypeOK, PurgeUser, DeleteRows, AbsentRow, RowType, Ages
<1>2. (purge.active => purge.begun)'
  BY DEF IInv, PurgeUser, DeleteRows, AbsentRow, RowType, Ages
<1>3. ASSUME NEW k \in Links PROVE LinkOK(k)'
  BY <1>3 DEF IInv, TypeOK, LinkOK, Fresh, RowOK, ServedOK, BlobOK, PurgeUser, DeleteRows, AbsentRow, Spent
<1> QED
  BY <1>1, <1>2, <1>3 DEF IInv

\* The passing of time keeps it.
LEMMA ClockPassesPreserves ==
  ASSUME IInv, NEW l \in Links, ClockPasses(l)
  PROVE  IInv'
<1>1. TypeOK'
  BY DEF IInv, TypeOK, RowType, ClockPasses, Ages
<1>2. (purge.active => purge.begun)'
  BY DEF IInv, ClockPasses, Ages
<1>3. ASSUME NEW k \in Links PROVE LinkOK(k)'
  BY <1>3 DEF IInv, TypeOK, LinkOK, Fresh, RowOK, ServedOK, BlobOK, ClockPasses, Spent
<1> QED
  BY <1>1, <1>2, <1>3 DEF IInv

\* Every step keeps the invariant.
LEMMA NextIInv == IInv /\ [Next]_vars => IInv'
<1> SUFFICES ASSUME IInv, [Next]_vars PROVE IInv'
  OBVIOUS
<1>1. CASE UNCHANGED vars
  BY <1>1 DEF vars, IInv, TypeOK, LinkOK, Fresh, RowOK, ServedOK, BlobOK, Spent
<1>2. CASE Next
  BY <1>2, CreatePutPreserves, CreateInsertPreserves, CreateCrashPreserves,
     OpenConsumePreserves, OpenConsumeLostPreserves, OpenFetchPreserves,
     SweepPurgePreserves, SweepPurgeLostPreserves, SweepBlobPreserves,
     SweepCrashPreserves, PurgeBeginPreserves, PurgeBlobPreserves,
     PurgeRowPreserves, PurgeAbortPreserves, PurgeUserPreserves,
     ClockPassesPreserves DEF Next, Sweep
<1> QED
  BY <1>1, <1>2

\* The invariant holds in every reachable state.
THEOREM Invariance == Spec => []IInv
  BY InitIInv, NextIInv, PTL DEF Spec

(* Every reachable state is well typed. *)
THEOREM LinksTypeCorrect == Spec => []TypeOK
<1>1. IInv => TypeOK
  BY DEF IInv
<1> QED
  BY <1>1, Invariance, PTL

(* ConsumeView's single UPDATE: for any number of concurrent readers the   *)
(* ciphertext of a link is served under the view numbers 1..max_views      *)
(* only.                                                                   *)
THEOREM LimitHolds == Spec => []ViewsWithinLimit
<1>1. IInv => ViewsWithinLimit
  BY DEF IInv, TypeOK, LinkOK, ServedOK, ViewsWithinLimit
<1> QED
  BY <1>1, Invariance, PTL

(* ... and no view number is ever used for two answers, so there are at    *)
(* most max_views answers.                                                 *)
THEOREM NumbersUnique == Spec => []ViewNumberedOnce
<1>1. IInv => ViewNumberedOnce
  BY DEF IInv, TypeOK, LinkOK, ServedOK, ViewNumberedOnce, Reading
<1> QED
  BY <1>1, Invariance, PTL

(* burned_at and views >= max_views mark the same rows, so PurgeExpired    *)
(* takes exactly the rows that ConsumeView has closed.                     *)
THEOREM MarksAgree == Spec => []BurnedIsSpent
<1>1. IInv => BurnedIsSpent
  BY DEF IInv, LinkOK, RowOK, BurnedIsSpent
<1> QED
  BY <1>1, Invariance, PTL

(* What GET .../meta calls expired, POST .../open refuses.                 *)
THEOREM MetaSound == Spec => []MetaAgrees
<1>1. ASSUME NEW r \in RowType, MetaExpired(r) PROVE ~Openable(r)
  <2>1. r.max \in Nat /\ r.views \in Nat
    BY RowFields
  <2>2. CASE r.burned
    BY <2>2, Zenon DEF Openable
  <2>3. CASE r.age = "past" \/ Spent(r)
    BY <2>1, <2>3 DEF Openable, Spent
  <2> QED
    BY <1>1, <2>2, <2>3, Zenon DEF MetaExpired
<1>2. IInv => MetaAgrees
  BY <1>1 DEF IInv, TypeOK, MetaAgrees
<1> QED
  BY <1>2, Invariance, PTL

(* A link that was handed out and whose row is there has its ciphertext,   *)
(* until an account purge begins.                                          *)
THEOREM HandedOutHasBlob == Spec => []HandedOutIsOpenable
<1>1. IInv => HandedOutIsOpenable
  BY DEF IInv, LinkOK, BlobOK, HandedOutIsOpenable
<1> QED
  BY <1>1, Invariance, PTL
=============================================================================
