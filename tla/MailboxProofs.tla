--------------------------- MODULE MailboxProofs ----------------------------
(***************************************************************************)
(* For any number of messages, actors and moves: an accepted message that  *)
(* has its manifest has its body, whatever faults occur, and is listed in  *)
(* some folder, as long as one fault at most occurs and it is a clean one. *)
(* When requests do not overlap, finished ones leave the stores in order.  *)
(***************************************************************************)
EXTENDS Mailbox, TLAPS

\* Most leaves are first-order steps, for Zenon. The leaves with arithmetic or
\* with equal sets and functions name SMT.
USE Zenon

Arriving == {"i_put", "i_manifest"}
Storing  == {"i_mailbox", "i_flags", "i_optin", "i_ledger", "i_retention", "i_life"}
Unlinked == {"d_unlist", "d_flags", "d_optin", "d_lifecycle", "d_body"}
Deleting == {"d_life", "d_delete"} \cup Unlinked

\* Each message is ingested by one program.
IngestOK ==
  /\ \A o \in Ops : ops[o].pc \in IngestPCs => ingest[ops[o].msg] = "running"
  /\ \A o, p \in Ops :
       (o # p /\ ops[o].pc \in IngestPCs /\ ops[p].pc \in IngestPCs) => ops[o].msg # ops[p].msg

\* Until its manifest is written nobody deletes the message.
FreshOK ==
  /\ \A m \in Messages : ingest[m] = "new" =>
       store[m].manifest # "whole" /\ \A p \in Ops : ops[p].pc \in Deleting => ops[p].msg # m
  /\ \A o \in Ops : ops[o].pc \in Arriving =>
       /\ store[ops[o].msg].manifest # "whole"
       /\ \A p \in Ops : ops[p].pc \in Deleting => ops[p].msg # ops[o].msg

\* The body is there before the manifest, and goes after it.
BodyOK ==
  /\ \A o \in Ops : ops[o].pc = "i_manifest" => store[ops[o].msg].body
  /\ \A o \in Ops : (ops[o].pc \in Storing /\ store[ops[o].msg].manifest = "whole")
                      => store[ops[o].msg].body
  /\ \A o \in Ops : ops[o].pc \in Unlinked => store[ops[o].msg].manifest # "whole"

IInv == TypeOK /\ IngestOK /\ FreshOK /\ BodyOK /\ AckedHasBody

-----------------------------------------------------------------------------
(* What the statements do to a message's rows *)

\* Every statement leaves a record of the store's type.
LEMMA EffectType ==
  ASSUME NEW s \in StoreType, NEW op \in OpType
  PROVE  Effect(s, op) \in StoreType
<1>1. op.new \in Rows /\ op.old \in Rows
  BY DEF OpType
<1>2. op.new.folder \in Folders /\ op.old.folder \in Folders
  BY <1>1 DEF Rows
<1>3. s.listed \in SUBSET Rows /\ s.manifest \in {"none", "ghost", "whole"}
  BY DEF StoreType
<1>4. PutBody(s) \in StoreType /\ DeleteBody(s) \in StoreType
  BY DEF PutBody, DeleteBody, StoreType
<1>5. ASSUME NEW f \in Folders PROVE InsertManifestRow(s, f) \in StoreType
  BY DEF InsertManifestRow, StoreType
<1>6. DeleteManifestRow(s) \in StoreType
  BY DEF DeleteManifestRow, StoreType
<1>7. ASSUME NEW r \in Rows
      PROVE  InsertMailboxRow(s, r) \in StoreType /\ DeleteMailboxRow(s, r) \in StoreType
  BY <1>3 DEF InsertMailboxRow, DeleteMailboxRow, StoreType
<1>8. SetFlags(s) \in StoreType /\ DeleteFlags(s) \in StoreType
  BY DEF SetFlags, DeleteFlags, StoreType
<1>9. SetOptInMetadata(s) \in StoreType /\ DeleteOptInMetadata(s) \in StoreType
  BY DEF SetOptInMetadata, DeleteOptInMetadata, StoreType
<1>10. AppendIngestLedger(s) \in StoreType
  BY DEF AppendIngestLedger, StoreType
<1>11. ASSUME NEW r \in Rows PROVE UpsertMessageLifecycle(s, r) \in StoreType
  BY DEF UpsertMessageLifecycle, StoreType
<1>12. DeleteMessageLifecycle(s) \in StoreType
  BY DEF DeleteMessageLifecycle, StoreType
<1>13. UpdateManifest(s) \in StoreType
  BY <1>3 DEF UpdateManifest, StoreType
<1>14. ASSUME NEW f \in Folders PROVE UpdateManifestFolder(s, f) \in StoreType
  BY <1>13 DEF UpdateManifestFolder, StoreType
<1> QED
  BY <1>1, <1>2, <1>4, <1>5, <1>6, <1>7, <1>8, <1>9, <1>10, <1>11, <1>12, <1>13, <1>14 DEF Effect

\* Only persist writes a whole manifest; only the last statement of the two
\* chains of deletes takes the body away.
LEMMA EffectFacts ==
  ASSUME NEW s \in StoreType, NEW op \in OpType
  PROVE  /\ Effect(s, op).manifest = "whole" => (s.manifest = "whole" \/ op.pc = "i_manifest")
         /\ op.pc = "d_delete" => Effect(s, op).manifest # "whole"
         /\ s.body => (Effect(s, op).body \/ op.pc \in {"i_undo_put", "d_body"})
         /\ op.pc = "i_put" => Effect(s, op).body
<1> QED
  BY ZenonT(30) DEF Effect, StoreType, PutBody, DeleteBody, InsertManifestRow,
     DeleteManifestRow,
     InsertMailboxRow, DeleteMailboxRow, SetFlags, DeleteFlags, SetOptInMetadata,
     DeleteOptInMetadata, AppendIngestLedger, UpsertMessageLifecycle, DeleteMessageLifecycle,
     UpdateManifest, UpdateManifestFolder

-----------------------------------------------------------------------------
(* Where the programs go *)

\* The statement after a success is a statement.
LEMMA AfterOkType ==
  ASSUME NEW op \in OpType
  PROVE  AfterOk(op) \in PCs
<1> QED
  BY SMT DEF AfterOk, AfterMove, AfterHeader, PersistOk, DeleteOk, MoveOk, PCs, IngestPCs, MovePCs,
     DeletePCs, ReadPCs

\* So is the one after an error.
LEMMA AfterErrType ==
  ASSUME NEW op \in OpType
  PROVE  AfterErr(op) \in PCs
<1> QED
  BY SMT DEF AfterErr, AfterMove, PersistErr, MoveErr, PCs, IngestPCs, MovePCs, DeletePCs, ReadPCs

\* A success leads into a stage from that stage or the one before it.
LEMMA AfterOkFacts ==
  ASSUME NEW op \in OpType
  PROVE  /\ AfterOk(op) # "i_put"
         /\ AfterOk(op) = "i_manifest" => op.pc = "i_put"
         /\ AfterOk(op) \in Storing => op.pc \in Storing \cup {"i_manifest"}
         /\ AfterOk(op) \in IngestPCs => op.pc \in IngestPCs \ {"i_life", "i_undo_put"}
         /\ AfterOk(op) \in Deleting => op.pc \in Deleting
         /\ AfterOk(op) \in Unlinked => op.pc \in Unlinked \cup {"d_delete"}
<1> QED
  BY SMT DEF AfterOk, AfterMove, AfterHeader, PersistOk, DeleteOk, MoveOk, IngestPCs, Storing,
     Deleting,
     Unlinked

\* An error leads an ingest into the compensating deletes and a deletion nowhere.
LEMMA AfterErrFacts ==
  ASSUME NEW op \in OpType
  PROVE  /\ AfterErr(op) \notin Arriving \cup Storing \cup Unlinked
         /\ AfterErr(op) \in IngestPCs => op.pc \in IngestPCs
         /\ AfterErr(op) \in Deleting => op.pc \in Deleting
<1> QED
  BY SMT DEF AfterErr, AfterMove, PersistErr, MoveErr, IngestPCs, Arriving, Storing, Deleting,
     Unlinked

\* An idle program has its type.
LEMMA IdleOpType == IdleOp \in OpType /\ IdleOp.pc = "idle"
<1>1. (CHOOSE m \in Messages : TRUE) \in Messages
  BY MessagesAssumption
<1>2. ArrivalRow("inbox") \in Rows
  BY BoundsAssumption, SMT DEF ArrivalRow, Rows, Folders, StandardFolders
<1> QED
  BY <1>1, <1>2 DEF IdleOp, Op, OpType, PCs

-----------------------------------------------------------------------------
(* The invariant *)

\* A step that writes no row of the store and starts no ingest.
LEMMA AsideStep ==
  ASSUME IInv, NEW o \in Ops, NEW n \in OpType,
         ops' = [ops EXCEPT ![o] = n],
         UNCHANGED <<store, ingest>>,
         n.pc \notin IngestPCs, n.pc \notin Unlinked,
         n.pc \in Deleting => \/ store[n.msg].manifest = "whole"
                              \/ (ops[o].pc \in Deleting /\ n.msg = ops[o].msg)
  PROVE  IngestOK' /\ FreshOK' /\ BodyOK' /\ AckedHasBody'
<1>0. /\ ops \in [Ops -> OpType] /\ ops' \in [Ops -> OpType]
      /\ ops'[o] = n /\ \A p \in Ops : p # o => ops'[p] = ops[p]
      /\ n.msg \in Messages
  BY DEF IInv, TypeOK, OpType
<1>1. n.pc \notin Arriving /\ n.pc \notin Storing /\ n.pc # "i_manifest"
  BY DEF Arriving, Storing, IngestPCs
<1>2. IngestOK'
  BY <1>0 DEF IInv, IngestOK
<1>3. FreshOK'
  BY <1>0, <1>1, SMT DEF IInv, FreshOK
<1>4. BodyOK'
  BY <1>0, <1>1 DEF IInv, BodyOK
<1>5. AckedHasBody'
  BY DEF IInv, AckedHasBody
<1> QED
  BY <1>2, <1>3, <1>4, <1>5

\* The invariant holds at the start.
LEMMA InitIInv == Init => IInv
<1> SUFFICES ASSUME Init PROVE IInv
  OBVIOUS
<1>1. NoMessage \in StoreType
  BY DEF NoMessage, StoreType, Folders, StandardFolders
<1>2. \A o \in Ops : ops[o] \in OpType /\ ops[o].pc = "idle"
  BY IdleOpType DEF Init
<1>3. TypeOK
  BY <1>1, IdleOpType, BoundsAssumption, SMT DEF Init, TypeOK
<1>4. IngestOK /\ BodyOK /\ AckedHasBody
  BY <1>2 DEF Init, IngestOK, BodyOK, AckedHasBody, IngestPCs, Storing, Unlinked
<1>5. FreshOK
  BY <1>2 DEF Init, FreshOK, NoMessage, Arriving, Deleting, Unlinked
<1> QED
  BY <1>3, <1>4, <1>5 DEF IInv

\* Beginning an ingest keeps it.
LEMMA BeginIngestPreserves ==
  ASSUME IInv, NEW o \in Actors, NEW m \in Messages, BeginIngest(o, m)
  PROVE  IInv'
<1>1. PICK src \in Sources : \E f \in IngestFolders[src] :
        Begin(o, Op("i_put", m, ArrivalRow(f), FALSE, FALSE))
  BY DEF BeginIngest
<1>2. PICK f \in IngestFolders[src] : Begin(o, Op("i_put", m, ArrivalRow(f), FALSE, FALSE))
  BY <1>1
<1> DEFINE n == Op("i_put", m, ArrivalRow(f), FALSE, FALSE)
<1>3. f \in Folders
  BY SourcesAssumption, SMT DEF IngestFolders, Folders, StandardFolders
<1>4. ArrivalRow(f) \in Rows /\ ArrivalRow("inbox") \in Rows
  BY <1>3, BoundsAssumption, SMT DEF ArrivalRow, Rows, Folders, StandardFolders
<1>5. n \in OpType /\ n.pc = "i_put" /\ n.msg = m
  BY <1>4 DEF Op, OpType, PCs, IngestPCs
<1> HIDE DEF n
<1>6. /\ o \in Ops /\ ops \in [Ops -> OpType] /\ ops' = [ops EXCEPT ![o] = n]
      /\ ops' \in [Ops -> OpType]
      /\ ops'[o] = n /\ \A p \in Ops : p # o => ops'[p] = ops[p]
      /\ ingest[m] = "new" /\ ingest' = [ingest EXCEPT ![m] = "running"] /\ store' = store
      /\ ingest'[m] = "running" /\ \A x \in Messages : x # m => ingest'[x] = ingest[x]
      /\ \A p \in Ops : ops[p].msg \in Messages
  BY <1>2, <1>5 DEF IInv, TypeOK, OpType, Ops, BeginIngest, Begin, n
<1>7. TypeOK'
  BY <1>6 DEF IInv, TypeOK, BeginIngest
<1>8. IngestOK'
  BY <1>5, <1>6, SMT DEF IInv, IngestOK
<1>9. FreshOK'
  BY <1>5, <1>6, ZenonT(30) DEF IInv, FreshOK, Arriving, Deleting, Unlinked
<1>10. BodyOK' /\ AckedHasBody'
  BY <1>5, <1>6 DEF IInv, BodyOK, AckedHasBody, Storing, Unlinked
<1> QED
  BY <1>7, <1>8, <1>9, <1>10 DEF IInv

\* Beginning a PATCH keeps it.
LEMMA BeginPatchPreserves ==
  ASSUME IInv, NEW o \in Actors, NEW m \in Messages, BeginPatch(o, m)
  PROVE  IInv'
<1>1. PICK f \in Targets, move \in BOOLEAN, read \in BOOLEAN :
        /\ move => moves < MaxMoves
        /\ Begin(o, Op("r_manifest", m, [folder |-> f, at |-> IF move THEN moves + 1 ELSE 0],
                       move, read))
        /\ moves' = IF move THEN moves + 1 ELSE moves
  BY DEF BeginPatch
<1> DEFINE n == Op("r_manifest", m, [folder |-> f, at |-> IF move THEN moves + 1 ELSE 0], move, read)
<1>2. moves' \in 0 .. MaxMoves /\ (IF move THEN moves + 1 ELSE 0) \in 0 .. MaxMoves
  BY <1>1, BoundsAssumption, SMT DEF IInv, TypeOK
<1>3. /\ [folder |-> f, at |-> IF move THEN moves + 1 ELSE 0] \in Rows
      /\ ArrivalRow("inbox") \in Rows
  BY <1>2, BoundsAssumption, SMT DEF Rows, ArrivalRow, Folders, StandardFolders
<1>4. n \in OpType /\ n.pc = "r_manifest"
  BY <1>3 DEF Op, OpType, PCs, ReadPCs
<1> HIDE DEF n
<1>5. o \in Ops /\ ops' = [ops EXCEPT ![o] = n] /\ UNCHANGED <<store, ingest>>
  BY <1>1 DEF Ops, BeginPatch, Begin, n
<1>6. TypeOK'
  BY <1>2, <1>4, <1>5 DEF IInv, TypeOK, BeginPatch
<1> QED
  BY <1>4, <1>5, <1>6, AsideStep DEF IInv, IngestPCs, Unlinked, Deleting

\* Beginning a DELETE keeps it.
LEMMA BeginDeletePreserves ==
  ASSUME IInv, NEW o \in Actors, NEW m \in Messages, BeginDelete(o, m)
  PROVE  IInv'
<1> DEFINE n == Op("h_manifest", m, [folder |-> "trash", at |-> moves + 1], TRUE, FALSE)
<1>1. moves + 1 \in 0 .. MaxMoves
  BY BoundsAssumption, SMT DEF IInv, TypeOK, BeginDelete
<1>2. [folder |-> "trash", at |-> moves + 1] \in Rows /\ ArrivalRow("inbox") \in Rows
  BY <1>1, BoundsAssumption, SMT DEF Rows, ArrivalRow, Folders, StandardFolders
<1>3. n \in OpType /\ n.pc = "h_manifest"
  BY <1>2 DEF Op, OpType, PCs, DeletePCs
<1> HIDE DEF n
<1>4. o \in Ops /\ ops' = [ops EXCEPT ![o] = n] /\ UNCHANGED <<store, ingest>>
  BY DEF Ops, BeginDelete, Begin, n
<1>5. TypeOK'
  BY <1>1, <1>3, <1>4 DEF IInv, TypeOK, BeginDelete
<1> QED
  BY <1>3, <1>4, <1>5, AsideStep DEF IInv, IngestPCs, Unlinked, Deleting

\* Of a client or of the sweeper.
LEMMA BeginPermanentType ==
  ASSUME NEW m \in Messages
  PROVE  LET n == Op("d_manifest", m, ArrivalRow("inbox"), FALSE, FALSE)
         IN  n \in OpType /\ n.pc = "d_manifest"
<1>1. ArrivalRow("inbox") \in Rows
  BY BoundsAssumption, SMT DEF Rows, ArrivalRow, Folders, StandardFolders
<1> QED
  BY <1>1 DEF Op, OpType, PCs, DeletePCs

\* Beginning a permanent deletion keeps it.
LEMMA BeginPermanentPreserves ==
  ASSUME IInv, NEW o \in Actors, NEW m \in Messages, BeginPermanent(o, m)
  PROVE  IInv'
<1> DEFINE n == Op("d_manifest", m, ArrivalRow("inbox"), FALSE, FALSE)
<1>1. n \in OpType /\ n.pc = "d_manifest"
  BY BeginPermanentType
<1> HIDE DEF n
<1>2. o \in Ops /\ ops' = [ops EXCEPT ![o] = n] /\ UNCHANGED <<store, ingest>>
  BY DEF Ops, BeginPermanent, Begin, n
<1>3. TypeOK'
  BY <1>1, <1>2 DEF IInv, TypeOK, BeginPermanent
<1> QED
  BY <1>1, <1>2, <1>3, AsideStep DEF IInv, IngestPCs, Unlinked, Deleting

\* Taking the next expired message keeps it.
LEMMA SweepNextPreserves ==
  ASSUME IInv, SweepNext
  PROVE  IInv'
<1>1. PICK m \in batch :
        /\ Begin(Sweeper, Op("d_manifest", m, ArrivalRow("inbox"), FALSE, FALSE))
        /\ batch' = batch \ {m}
  BY DEF SweepNext
<1> DEFINE n == Op("d_manifest", m, ArrivalRow("inbox"), FALSE, FALSE)
<1>2. n \in OpType /\ n.pc = "d_manifest"
  BY BeginPermanentType DEF IInv, TypeOK
<1> HIDE DEF n
<1>3. Sweeper \in Ops /\ ops' = [ops EXCEPT ![Sweeper] = n] /\ UNCHANGED <<store, ingest>>
  BY <1>1 DEF Ops, SweepNext, Begin, n
<1>4. TypeOK'
  BY <1>1, <1>2, <1>3 DEF IInv, TypeOK, SweepNext
<1> QED
  BY <1>2, <1>3, <1>4, AsideStep DEF IInv, IngestPCs, Unlinked, Deleting

\* Going to a program counter keeps the operation's type and message.
LEMMA AtType ==
  ASSUME NEW op \in OpType, NEW pc \in PCs
  PROVE  At(op, pc) \in OpType /\ At(op, pc).pc = pc /\ (pc # "idle" => At(op, pc).msg = op.msg)
<1> QED
  BY IdleOpType DEF At, OpType

\* Reading the manifest keeps it.
LEMMA GetManifestPreserves ==
  ASSUME IInv, NEW o \in Ops, GetManifest(o)
  PROVE  IInv'
<1> DEFINE op == ops[o]
           s == store[op.msg]
<1>0. op \in OpType /\ s \in StoreType /\ ArrivalRow(s.folder) \in Rows
  BY BoundsAssumption, SMT DEF IInv, TypeOK, OpType, StoreType, ArrivalRow, Rows
<1>1. PICK n \in OpType :
        /\ ops' = [ops EXCEPT ![o] = n]
        /\ n.pc \notin IngestPCs /\ n.pc \notin Unlinked
        /\ n.pc \in Deleting => store[n.msg].manifest = "whole"
  <2>1. ASSUME NEW pc \in PCs, Goto(o, op, pc),
               pc \notin IngestPCs, pc \notin Deleting, pc \notin Unlinked
        PROVE  \E n \in OpType :
                 /\ ops' = [ops EXCEPT ![o] = n]
                 /\ n.pc \notin IngestPCs /\ n.pc \notin Unlinked
                 /\ n.pc \in Deleting => store[n.msg].manifest = "whole"
    <3>1. At(op, pc) \in OpType /\ At(op, pc).pc = pc
      BY <1>0, <2>1, AtType
    <3> QED
      BY <2>1, <3>1 DEF Goto, Begin
  <2>2. ASSUME NEW pc \in {"m_life", "d_life"}, s.manifest = "whole",
               Begin(o, [op EXCEPT !.pc = pc, !.old = ArrivalRow(s.folder)])
        PROVE  \E n \in OpType :
                 /\ ops' = [ops EXCEPT ![o] = n]
                 /\ n.pc \notin IngestPCs /\ n.pc \notin Unlinked
                 /\ n.pc \in Deleting => store[n.msg].manifest = "whole"
    <3> DEFINE n == [op EXCEPT !.pc = pc, !.old = ArrivalRow(s.folder)]
    <3>1. n \in OpType /\ n.pc = pc /\ n.msg = op.msg
      BY <1>0 DEF OpType, PCs, MovePCs, DeletePCs
    <3> QED
      BY <2>2, <3>1 DEF Begin, IngestPCs, Unlinked
  <2>3. /\ "idle" \in PCs /\ "r_header" \in PCs /\ "d_manifest" \in PCs /\ "m_manifest" \in PCs
        /\ AfterHeader(op) \in {"m_manifest", "r_flags", "idle"} /\ AfterMove(op) \in {"r_flags", "idle"}
        /\ "r_flags" \in PCs
    BY DEF PCs, ReadPCs, MovePCs, DeletePCs, AfterHeader, AfterMove
  <2>4. \A pc \in {"idle", "r_header", "d_manifest", "m_manifest", "r_flags"} :
          pc \notin IngestPCs /\ pc \notin Deleting /\ pc \notin Unlinked
    BY DEF IngestPCs, Deleting, Unlinked
  <2> QED
    BY <2>1, <2>2, <2>3, <2>4 DEF GetManifest
<1>2. UNCHANGED <<store, ingest, deleted, batch, moves, faults>>
  BY DEF GetManifest
<1>3. TypeOK'
  BY <1>1, <1>2 DEF IInv, TypeOK
<1> QED
  BY <1>1, <1>2, <1>3, AsideStep DEF IInv

\* After the lifecycle row a move inserts the new listing row and a deletion
\* deletes the manifest (MoveMessage, DeletePermanent).
LEMMA LifecycleReadNext ==
  ASSUME NEW op, op.pc \in {"m_life", "d_life"}
  PROVE  AfterOk(op) \in {"m_insert", "d_delete"}
<1>1. CASE op.pc = "m_life"
  BY <1>1, SMT DEF AfterOk, PersistOk, MoveOk, DeleteOk
<1>2. CASE op.pc = "d_life"
  BY <1>2, SMT DEF AfterOk, PersistOk, MoveOk, DeleteOk
<1> QED
  BY <1>1, <1>2

\* Reading the lifecycle row keeps it.
LEMMA GetLifecyclePreserves ==
  ASSUME IInv, NEW o \in Ops, GetLifecycle(o)
  PROVE  IInv'
<1> DEFINE op == ops[o]
           s == store[op.msg]
<1>0. op \in OpType /\ s \in StoreType /\ \A r \in s.life : r \in Rows
  BY SMT DEF IInv, TypeOK, OpType, StoreType
<1>1. op.pc \in {"m_life", "d_life"} /\ AfterOk(op) \in {"m_insert", "d_delete"}
  BY LifecycleReadNext, SMT DEF GetLifecycle
<1>2. PICK n \in OpType :
        /\ ops' = [ops EXCEPT ![o] = n]
        /\ n.pc = AfterOk(op) /\ n.msg = op.msg
  <2>1. AfterOk(op) \in PCs /\ AfterOk(op) # "idle"
    BY <1>1 DEF PCs, MovePCs, DeletePCs
  <2>2. CASE Goto(o, op, AfterOk(op))
    <3>1. At(op, AfterOk(op)) \in OpType /\ At(op, AfterOk(op)).pc = AfterOk(op)
          /\ At(op, AfterOk(op)).msg = op.msg
      BY <1>0, <2>1, AtType
    <3> QED
      BY <2>2, <3>1 DEF Goto, Begin
  <2>3. CASE \E r \in s.life : Goto(o, [op EXCEPT !.old = r], AfterOk(op))
    <3>1. PICK r \in s.life : Goto(o, [op EXCEPT !.old = r], AfterOk(op))
      BY <2>3
    <3> DEFINE q == [op EXCEPT !.old = r]
    <3>2. q \in OpType /\ q.msg = op.msg
      BY <1>0 DEF OpType
    <3>3. ops' = [ops EXCEPT ![o] = At(q, AfterOk(op))]
      BY <3>1 DEF Goto, Begin
    <3> HIDE DEF q
    <3>4. At(q, AfterOk(op)) \in OpType /\ At(q, AfterOk(op)).pc = AfterOk(op)
          /\ At(q, AfterOk(op)).msg = op.msg
      BY <2>1, <3>2, AtType
    <3> QED
      BY <3>3, <3>4
  <2> QED
    BY <2>2, <2>3 DEF GetLifecycle
<1>3. UNCHANGED <<store, ingest, deleted, batch, moves, faults>>
  BY DEF GetLifecycle
<1>4. TypeOK'
  BY <1>2, <1>3 DEF IInv, TypeOK
<1>5. AfterOk(op) \notin IngestPCs /\ AfterOk(op) \notin Unlinked
      /\ (AfterOk(op) \in Deleting => op.pc \in Deleting)
  BY <1>1, <1>0, AfterOkFacts DEF IngestPCs, Unlinked
<1> QED
  BY <1>2, <1>3, <1>4, <1>5, AsideStep DEF IInv

\* A statement that succeeds keeps it.
LEMMA StatementPreserves ==
  ASSUME IInv, NEW o \in Ops, Statement(o)
  PROVE  IInv'
<1> DEFINE op == ops[o]
           m == op.msg
           pc == AfterOk(op)
           n == ops'[o]
<1>0. op \in OpType /\ m \in Messages /\ store[m] \in StoreType /\ op.old \in Rows /\ op.pc \in PCs
  BY DEF IInv, TypeOK, OpType
<1>1. /\ ops' \in [Ops -> OpType] /\ n.pc = pc /\ (pc # "idle" => n.msg = m)
      /\ \A p \in Ops : p # o => ops'[p] = ops[p]
  <2>1. pc \in PCs
    BY <1>0, AfterOkType
  <2> QED
    BY <1>0, <2>1, AtType DEF IInv, TypeOK, Statement, Goto, Begin
<1>2. /\ store' \in [Messages -> StoreType] /\ store'[m] = Effect(store[m], op)
      /\ \A x \in Messages : x # m => store'[x] = store[x]
  BY <1>0, EffectType DEF IInv, TypeOK, Statement
<1>3. /\ \A x \in Messages : (x # m \/ op.pc \notin {"i_life", "i_undo_put"}) => ingest'[x] = ingest[x]
      /\ op.pc = "i_life" => ingest'[m] = "acked"
      /\ op.pc = "i_undo_put" => ingest'[m] = "failed"
      /\ ingest' \in [Messages -> {"new", "running", "acked", "failed", "crashed"}]
  BY <1>0 DEF IInv, TypeOK, Statement
<1>4. TypeOK'
  <2>1. deleted' \subseteq Messages
    BY <1>0 DEF IInv, TypeOK, Statement
  <2> QED
    BY <1>1, <1>2, <1>3, <2>1 DEF IInv, TypeOK, Statement
<1>5. /\ pc # "i_put" /\ (pc = "i_manifest" => op.pc = "i_put")
      /\ pc \in Storing => op.pc \in Storing \cup {"i_manifest"}
      /\ pc \in IngestPCs => op.pc \in IngestPCs \ {"i_life", "i_undo_put"}
      /\ pc \in Deleting => op.pc \in Deleting
      /\ pc \in Unlinked => op.pc \in Unlinked \cup {"d_delete"}
  BY <1>0, AfterOkFacts
<1>6. /\ store'[m].manifest = "whole" => (store[m].manifest = "whole" \/ op.pc = "i_manifest")
      /\ op.pc = "d_delete" => store'[m].manifest # "whole"
      /\ store[m].body => (store'[m].body \/ op.pc \in {"i_undo_put", "d_body"})
      /\ op.pc = "i_put" => store'[m].body
  BY <1>0, <1>2, EffectFacts, SMT
<1>7. \A p \in Ops : ops[p].msg \in Messages /\ ops'[p].msg \in Messages
  BY <1>1 DEF IInv, TypeOK, OpType
<1>8. /\ Storing \subseteq IngestPCs /\ Arriving \subseteq IngestPCs /\ Unlinked \subseteq Deleting
      /\ Deleting \cap IngestPCs = {} /\ Arriving \cap Storing = {}
      /\ "i_manifest" \in Arriving /\ "i_put" \in Arriving /\ "d_body" \in Unlinked /\ "d_delete" \in Deleting
      /\ "i_undo_put" \in IngestPCs /\ "i_undo_put" \notin Arriving \cup Storing
      /\ "i_life" \in Storing /\ "idle" \notin IngestPCs \cup Deleting
      /\ Arriving = {"i_put", "i_manifest"}
  BY DEF Storing, Arriving, IngestPCs, Unlinked, Deleting
<1> HIDE DEF op, m, pc, n
<1>9. IngestOK'
  BY <1>0, <1>1, <1>3, <1>5, <1>7, <1>8, SMTT(30), SMT DEF IInv, IngestOK, op, m, pc, n
<1>10. FreshOK'
  BY <1>0, <1>1, <1>2, <1>3, <1>5, <1>6, <1>7, <1>8, SMT DEF IInv, IngestOK, FreshOK, op, m, pc, n
<1>11. BodyOK'
  <2>1. ASSUME NEW p \in Ops, ops'[p].pc = "i_manifest" PROVE store'[ops'[p].msg].body
    BY <2>1, <1>0, <1>1, <1>2, <1>5, <1>6, <1>7, <1>8, SMT DEF IInv, IngestOK, FreshOK, BodyOK, op,
       m, pc, n
  <2>2. ASSUME NEW p \in Ops, ops'[p].pc \in Storing, store'[ops'[p].msg].manifest = "whole"
        PROVE  store'[ops'[p].msg].body
    <3>1. CASE p = o
      <4>1. n.msg = m /\ op.pc \in Storing \cup {"i_manifest"}
        BY <2>2, <3>1, <1>1, <1>5, <1>8 DEF n
      <4>2. store[m].body
        BY <4>1, <2>2, <3>1, <1>6, <1>8 DEF IInv, BodyOK, op, m, n
      <4>3. op.pc \notin {"i_undo_put", "d_body"}
        BY <4>1, <1>8
      <4> QED
        BY <3>1, <4>1, <4>2, <4>3, <1>6 DEF n
    <3>2. CASE p # o /\ ops[p].msg = m
      <4>1. op.pc \notin IngestPCs
        BY <2>2, <3>2, <1>1, <1>8 DEF IInv, IngestOK, op, m
      <4>2. store[m].manifest = "whole" /\ ops'[p] = ops[p]
        BY <2>2, <3>2, <4>1, <1>1, <1>6, <1>8
      <4>3. store[m].body /\ op.pc # "d_body"
        BY <2>2, <3>2, <4>2, <1>8 DEF IInv, BodyOK, op, m
      <4> QED
        BY <3>2, <4>1, <4>2, <4>3, <1>6, <1>8
    <3>3. CASE p # o /\ ops[p].msg # m
      BY <2>2, <3>3, <1>1, <1>2, <1>7 DEF IInv, BodyOK
    <3> QED
      BY <3>1, <3>2, <3>3
  <2>3. ASSUME NEW p \in Ops, ops'[p].pc \in Unlinked PROVE store'[ops'[p].msg].manifest # "whole"
    BY <2>3, <1>0, <1>1, <1>2, <1>5, <1>6, <1>7, <1>8, SMT DEF IInv, IngestOK, FreshOK, BodyOK, op,
       m, pc, n
  <2> QED
    BY <2>1, <2>2, <2>3, SMTT(30) DEF BodyOK
<1>12. AckedHasBody'
  BY <1>0, <1>2, <1>3, <1>6, <1>7, <1>8, ZenonT(30) DEF IInv, IngestOK, FreshOK, BodyOK,
     AckedHasBody, op, m, pc, n
<1> QED
  BY <1>4, <1>9, <1>10, <1>11, <1>12 DEF IInv

\* A statement that fails keeps it, whether it took effect or not.
LEMMA StatementFailsPreserves ==
  ASSUME IInv, NEW o \in Ops, StatementFails(o)
  PROVE  IInv'
<1> DEFINE op == ops[o]
           m == op.msg
           pc == AfterErr(op)
           n == ops'[o]
<1>0. op \in OpType /\ m \in Messages /\ store[m] \in StoreType /\ op.pc \in PCs
  BY DEF IInv, TypeOK, OpType
<1>1. /\ ops' \in [Ops -> OpType] /\ n.pc = pc /\ (pc # "idle" => n.msg = m)
      /\ \A p \in Ops : p # o => ops'[p] = ops[p]
  <2>1. pc \in PCs
    BY <1>0, AfterErrType
  <2> QED
    BY <1>0, <2>1, AtType DEF IInv, TypeOK, StatementFails, Goto, Begin
<1>2. /\ store' \in [Messages -> StoreType]
      /\ store'[m] = store[m] \/ store'[m] = Effect(store[m], op)
      /\ \A x \in Messages : x # m => store'[x] = store[x]
  BY <1>0, EffectType DEF IInv, TypeOK, StatementFails
<1>3. /\ \A x \in Messages : (x # m \/ op.pc \notin IngestPCs \/ pc # "idle") => ingest'[x] = ingest[x]
      /\ (op.pc \in IngestPCs /\ pc = "idle") => ingest'[m] = "failed"
      /\ ingest' \in [Messages -> {"new", "running", "acked", "failed", "crashed"}]
  BY <1>0 DEF IInv, TypeOK, StatementFails
<1>4. TypeOK'
  <2>1. faults' \in 0 .. MaxFaults
    BY BoundsAssumption, SMT DEF IInv, TypeOK, StatementFails
  <2> QED
    BY <1>1, <1>2, <1>3, <2>1 DEF IInv, TypeOK, StatementFails
<1>5. /\ pc \notin Arriving /\ pc \notin Storing /\ pc \notin Unlinked
      /\ pc \in IngestPCs => op.pc \in IngestPCs
      /\ pc \in Deleting => op.pc \in Deleting
  BY <1>0, AfterErrFacts
<1>6. /\ store'[m].manifest = "whole" => (store[m].manifest = "whole" \/ op.pc = "i_manifest")
      /\ store[m].body => (store'[m].body \/ op.pc \in {"i_undo_put", "d_body"})
  BY <1>0, <1>2, EffectFacts, SMT
<1>7. \A p \in Ops : ops[p].msg \in Messages /\ ops'[p].msg \in Messages
  BY <1>1 DEF IInv, TypeOK, OpType
<1>8. /\ Storing \subseteq IngestPCs /\ Arriving \subseteq IngestPCs /\ Unlinked \subseteq Deleting
      /\ "i_manifest" \in Arriving /\ "d_body" \in Unlinked /\ "i_undo_put" \in IngestPCs
      /\ "idle" \notin IngestPCs \cup Deleting
  BY DEF Storing, Arriving, IngestPCs, Unlinked, Deleting
<1> HIDE DEF op, m, pc, n
<1>9. IngestOK'
  BY <1>0, <1>1, <1>3, <1>5, <1>7, <1>8, SMTT(30), SMT DEF IInv, IngestOK, op, m, pc, n
<1>10. FreshOK'
  BY <1>0, <1>1, <1>2, <1>3, <1>5, <1>6, <1>7, <1>8, SMTT(30), SMT
     DEF IInv, IngestOK, FreshOK, op, m, pc, n
<1>11. BodyOK'
  <2> SUFFICES ASSUME NEW p \in Ops, p # o
               PROVE  /\ ops[p].pc = "i_manifest" => store'[ops[p].msg].body
                      /\ (ops[p].pc \in Storing /\ store'[ops[p].msg].manifest = "whole")
                            => store'[ops[p].msg].body
                      /\ ops[p].pc \in Unlinked => store'[ops[p].msg].manifest # "whole"
    BY <1>1, <1>5, <1>8 DEF BodyOK, n
  <2>1. CASE ops[p].msg # m
    BY <2>1, <1>2, <1>7 DEF IInv, BodyOK
  <2>2. CASE ops[p].msg = m
    <3>1. ops[p].pc \in IngestPCs => op.pc \notin IngestPCs
      BY <2>2 DEF IInv, IngestOK, op, m
    <3>2. ops[p].pc = "i_manifest" => store'[m].body
      BY <2>2, <3>1, <1>6, <1>8 DEF IInv, FreshOK, BodyOK, op, m
    <3>3. (ops[p].pc \in Storing /\ store'[m].manifest = "whole") => store'[m].body
      BY <2>2, <3>1, <1>6, <1>8 DEF IInv, FreshOK, BodyOK, op, m
    <3>4. ops[p].pc \in Unlinked => store'[m].manifest # "whole"
      BY <2>2, <1>6, <1>8, SMTT(30) DEF IInv, FreshOK, BodyOK, op, m
    <3> QED
      BY <2>2, <3>2, <3>3, <3>4
  <2> QED
    BY <2>1, <2>2
<1>12. AckedHasBody'
  BY <1>0, <1>2, <1>3, <1>6, <1>7, <1>8 DEF IInv, IngestOK, FreshOK, BodyOK, AckedHasBody, op, m,
     pc, n
<1> QED
  BY <1>4, <1>9, <1>10, <1>11, <1>12 DEF IInv

\* A crash keeps it.
LEMMA CrashPreserves ==
  ASSUME IInv, NEW o \in Ops, Crash(o)
  PROVE  IInv'
<1>1. /\ ops' = [ops EXCEPT ![o] = IdleOp] /\ ops \in [Ops -> OpType] /\ ops' \in [Ops -> OpType]
      /\ ops'[o].pc = "idle" /\ \A p \in Ops : p # o => ops'[p] = ops[p]
      /\ \A p \in Ops : ops[p].msg \in Messages
  BY IdleOpType DEF IInv, TypeOK, OpType, Crash, Goto, Begin, At
<1>2. /\ store' = store
      /\ \A x \in Messages : (x # ops[o].msg \/ ops[o].pc \notin IngestPCs) => ingest'[x] = ingest[x]
      /\ ops[o].pc \in IngestPCs => ingest'[ops[o].msg] = "crashed"
      /\ ingest' \in [Messages -> {"new", "running", "acked", "failed", "crashed"}]
  BY <1>1 DEF IInv, TypeOK, Crash
<1>3. TypeOK'
  <2>1. faults' \in 0 .. MaxFaults
    BY BoundsAssumption, SMT DEF IInv, TypeOK, Crash
  <2>2. batch' \subseteq Messages
    BY DEF IInv, TypeOK, Crash
  <2> QED
    BY <1>1, <1>2, <2>1, <2>2 DEF IInv, TypeOK, Crash
<1>4. "idle" \notin IngestPCs \cup Deleting \cup Arriving \cup Storing \cup Unlinked
  BY DEF IngestPCs, Deleting, Arriving, Storing, Unlinked
<1>5. IngestOK'
  BY <1>1, <1>2, <1>4, ZenonT(30) DEF IInv, IngestOK
<1>6. FreshOK'
  BY <1>1, <1>2, <1>4, SMT DEF IInv, IngestOK, FreshOK
<1>7. BodyOK'
  BY <1>1, <1>2, <1>4 DEF IInv, BodyOK
<1>8. AckedHasBody'
  BY <1>1, <1>2 DEF IInv, AckedHasBody
<1> QED
  BY <1>3, <1>5, <1>6, <1>7, <1>8 DEF IInv

\* The passing of time keeps it.
LEMMA RetentionElapsesPreserves ==
  ASSUME IInv, NEW m \in Messages, RetentionElapses(m)
  PROVE  IInv'
<1>1. /\ store' \in [Messages -> StoreType]
      /\ \A x \in Messages : store'[x].manifest = store[x].manifest /\ store'[x].body = store[x].body
      /\ UNCHANGED <<ingest, deleted, ops, batch, moves, faults>>
  <2> DEFINE t == [store[m] EXCEPT !.aged = TRUE]
  <2>1. t \in StoreType /\ t.manifest = store[m].manifest /\ t.body = store[m].body
    BY ZenonT(30) DEF IInv, TypeOK, StoreType
  <2>2. store' = [store EXCEPT ![m] = t] /\ UNCHANGED <<ingest, deleted, ops, batch, moves, faults>>
    BY DEF RetentionElapses
  <2> HIDE DEF t
  <2> QED
    BY <2>1, <2>2 DEF IInv, TypeOK
<1>2. \A p \in Ops : ops[p].msg \in Messages
  BY DEF IInv, TypeOK, OpType
<1>3. TypeOK'
  BY <1>1 DEF IInv, TypeOK
<1>4. IngestOK' /\ FreshOK' /\ BodyOK' /\ AckedHasBody'
  BY <1>1, <1>2, ZenonT(30) DEF IInv, IngestOK, FreshOK, BodyOK, AckedHasBody
<1> QED
  BY <1>3, <1>4 DEF IInv

\* Steps that leave stores and programs alone keep it.
LEMMA StutterPreserves ==
  ASSUME IInv, UNCHANGED <<store, ingest, deleted, ops, moves, faults>>, batch' \subseteq Messages
  PROVE  IInv'
<1> QED
  BY DEF IInv, TypeOK, IngestOK, FreshOK, BodyOK, AckedHasBody

\* Every step keeps the invariant.
LEMMA NextIInv == IInv /\ [Next]_vars => IInv'
<1> SUFFICES ASSUME IInv, [Next]_vars PROVE IInv'
  OBVIOUS
<1>1. ASSUME NEW o \in Actors, NEW m \in Messages,
             BeginIngest(o, m) \/ BeginPatch(o, m) \/ BeginDelete(o, m) \/ BeginPermanent(o, m)
      PROVE  IInv'
  BY <1>1, BeginIngestPreserves, BeginPatchPreserves, BeginDeletePreserves, BeginPermanentPreserves
<1>2. ASSUME NEW o \in Ops, Step(o) \/ StatementFails(o) \/ Crash(o)
      PROVE  IInv'
  BY <1>2, GetManifestPreserves, GetLifecyclePreserves, StatementPreserves, StatementFailsPreserves,
     CrashPreserves DEF Step
<1>3. CASE BeginSweep
  BY <1>3, StutterPreserves DEF BeginSweep
<1>4. CASE SweepNext
  BY <1>4, SweepNextPreserves
<1>5. ASSUME NEW m \in Messages, RetentionElapses(m)
      PROVE  IInv'
  BY <1>5, RetentionElapsesPreserves
<1>6. CASE UNCHANGED vars
  BY <1>6, StutterPreserves DEF vars, IInv, TypeOK
<1> QED
  BY <1>1, <1>2, <1>3, <1>4, <1>5, <1>6 DEF Next

(* The invariant holds of every execution. *)
THEOREM Invariance == Spec => []IInv
<1> QED
  BY InitIInv, NextIInv, PTL DEF Spec

(* Types of the stores and of the programs in progress. *)
THEOREM MailboxTypeCorrect == Spec => []TypeOK
<1>1. IInv => TypeOK
  BY DEF IInv
<1> QED
  BY <1>1, Invariance, PTL

(* An accepted message that has its manifest has its body, for any number  *)
(* of messages, requests and faults: persist uploads the body before it    *)
(* writes the manifest, nobody can delete a message without a manifest,    *)
(* and DeletePermanent deletes the body when the manifest is gone.         *)
THEOREM AcceptedIsReadable == Spec => []AckedHasBody
<1>1. IInv => AckedHasBody
  BY DEF IInv
<1> QED
  BY <1>1, Invariance, PTL

-----------------------------------------------------------------------------
(***************************************************************************)
(* Listings.  While at most one statement fails, and one that reports an   *)
(* error took no effect, an accepted message stays listed.  A move takes a *)
(* row away only when the row it wrote itself is there, so the one danger  *)
(* is the undo of a move, which takes that row away again: it must leave   *)
(* another.  The invariant says which rows a move has for itself, and that *)
(* whoever may still undo has one to spare.                                *)
(***************************************************************************)
CleanFaults == MaxFaults <= 1 /\ "applied" \notin FaultKinds

Inserted == {"m_folder", "m_unlist", "m_upsert", "m_undo_unlist", "m_undo_folder", "m_undo_insert"}
Undoing  == {"m_undo_unlist", "m_undo_folder", "m_undo_insert"}

\* The row a move is to write is not yet the message's lifecycle row.
Fresh(op) == op.move /\ op.pc \notin {"m_flags", "r_flags"}

\* Its listing row has been written and its ingest has not failed.
Stored(m) ==
  /\ store[m].manifest = "whole"
  /\ \/ ingest[m] = "acked"
     \/ \E o \in Ops : ops[o].msg = m /\ ops[o].pc \in Storing \ {"i_mailbox"}

\* Each move has a time of its own, and nothing else has a later one.
ClockOK ==
  /\ \A o \in Ops :
       /\ ops[o].pc \in MovePCs \cup {"h_manifest"} => ops[o].move
       /\ ops[o].pc \in IngestPCs => ~ops[o].move
       /\ ops[o].move => ops[o].new.at # 0
       /\ ~ops[o].move => ops[o].new.at = 0
       /\ ops[o].new.at <= moves /\ ops[o].old.at <= moves
  /\ \A o, p \in Ops : o # p /\ ops[o].move /\ ops[p].move => ops[o].new.at # ops[p].new.at
  /\ \A m \in Messages : \A r \in store[m].listed \cup store[m].life : r.at <= moves

\* Until it becomes the lifecycle row nobody else has the row of a move.
OwnOK ==
  \A o \in Ops : Fresh(ops[o]) =>
    /\ \A p \in Ops : ops[p].old.at # ops[o].new.at
    /\ \A m \in Messages : \A r \in store[m].life : r.at # ops[o].new.at
    /\ ops[o].pc \in Inserted => ops[o].new \in store[ops[o].msg].listed
    /\ ops[o].pc \notin Inserted =>
         \A m \in Messages : \A r \in store[m].listed : r.at # ops[o].new.at

UndoOK ==
  /\ \A o \in Ops : ops[o].pc \in Undoing => faults # 0
  /\ \A o, p \in Ops : ops[o].pc \in Undoing /\ ops[p].pc \in Undoing => o = p

MayUndo(op) ==
  \/ op.pc \in {"m_folder", "m_unlist"} /\ faults = 0
  \/ op.pc \in {"m_undo_folder", "m_undo_insert"}

SpareOK ==
  \A o \in Ops : MayUndo(ops[o]) /\ Stored(ops[o].msg) =>
    \E r \in store[ops[o].msg].listed : r # ops[o].new

StoredListed == \A m \in Messages : Stored(m) => store[m].listed # {}

ListedInv == ClockOK /\ OwnOK /\ UndoOK /\ SpareOK /\ StoredListed

-----------------------------------------------------------------------------
(* What a statement does to the listing and to the lifecycle row *)

\* What each statement does to the listing rows.
LEMMA EffectListed ==
  ASSUME NEW s \in StoreType, NEW op \in OpType
  PROVE  /\ op.pc \in {"i_mailbox", "m_insert"} => Effect(s, op).listed = s.listed \cup {op.new}
         /\ op.pc \in {"i_undo_mailbox", "m_undo_insert"} => Effect(s, op).listed = s.listed \ {op.new}
         /\ op.pc \in {"m_unlist", "d_unlist"} => Effect(s, op).listed = s.listed \ {op.old}
         /\ op.pc = "m_undo_unlist" => Effect(s, op).listed = s.listed \cup {op.old}
         /\ op.pc \notin {"i_mailbox", "m_insert", "i_undo_mailbox", "m_undo_insert", "m_unlist",
                          "d_unlist", "m_undo_unlist"} => Effect(s, op).listed = s.listed
BY DEF Effect, StoreType, PutBody, DeleteBody, InsertManifestRow, DeleteManifestRow,
   InsertMailboxRow, DeleteMailboxRow, SetFlags, DeleteFlags, SetOptInMetadata,
   DeleteOptInMetadata, AppendIngestLedger, UpsertMessageLifecycle, DeleteMessageLifecycle,
   UpdateManifest, UpdateManifestFolder

\* Only the end of an ingest and the end of a move write the lifecycle row.
LEMMA EffectLife ==
  ASSUME NEW s \in StoreType, NEW op \in OpType
  PROVE  /\ op.pc \in {"i_life", "m_upsert"} => Effect(s, op).life = {op.new}
         /\ op.pc \notin {"i_life", "m_upsert"} => Effect(s, op).life \subseteq s.life
BY DEF Effect, StoreType, PutBody, DeleteBody, InsertManifestRow, DeleteManifestRow,
   InsertMailboxRow, DeleteMailboxRow, SetFlags, DeleteFlags, SetOptInMetadata,
   DeleteOptInMetadata, AppendIngestLedger, UpsertMessageLifecycle, DeleteMessageLifecycle,
   UpdateManifest, UpdateManifestFolder

\* A move walks on to its next statement, and undoes only after an error.
LEMMA MoveOkFacts ==
  ASSUME NEW op \in OpType
  PROVE  /\ AfterOk(op) \in MovePCs \cup {"h_manifest"} =>
              op.pc \in MovePCs \/ (op.pc = "r_header" /\ op.move)
         /\ AfterOk(op) \in Inserted => op.pc \in {"m_insert"} \cup (Inserted \ {"m_undo_insert"})
         /\ AfterOk(op) \in Undoing => op.pc \in {"m_undo_unlist", "m_undo_folder"}
         /\ AfterOk(op) = "m_folder" => op.pc = "m_insert"
         /\ AfterOk(op) = "m_unlist" => op.pc = "m_folder"
         /\ AfterOk(op) = "m_undo_folder" => op.pc = "m_undo_unlist"
         /\ AfterOk(op) = "m_undo_insert" => op.pc = "m_undo_folder"
         /\ op.pc = "m_upsert" => AfterOk(op) = "m_flags"
         /\ op.pc = "m_insert" => AfterOk(op) = "m_folder"
         /\ op.pc \in {"m_flags", "r_flags"} => AfterOk(op) \in {"r_flags", "idle"}
         /\ op.pc = "i_manifest" => AfterOk(op) = "i_mailbox"
BY SMT DEF AfterOk, AfterMove, AfterHeader, PersistOk, DeleteOk, MoveOk, MovePCs, Inserted, Undoing

\* An error sends a move into its undo, or ends it.
LEMMA MoveErrFacts ==
  ASSUME NEW op \in OpType
  PROVE  /\ AfterErr(op) \in MovePCs \cup {"h_manifest"} => op.pc \in MovePCs
         /\ AfterErr(op) \in Inserted => op.pc \in Inserted \ {"m_undo_insert"}
         /\ AfterErr(op) \notin {"m_folder", "m_unlist"}
         /\ AfterErr(op) = "m_undo_folder" => op.pc \in {"m_unlist", "m_undo_unlist"}
         /\ AfterErr(op) = "m_undo_insert" => op.pc \in {"m_folder", "m_undo_folder"}
         /\ op.pc \in {"m_flags", "r_flags"} => AfterErr(op) \in {"r_flags", "idle"}
         /\ op.pc \in Inserted /\ op.pc # "m_undo_insert" => AfterErr(op) \in Inserted
         /\ op.pc = "m_undo_insert" => AfterErr(op) = "idle"
BY SMT DEF AfterErr, AfterMove, PersistErr, MoveErr, MovePCs, Inserted

\* Going to a program counter keeps what the operation works on.
LEMMA AtKeeps ==
  ASSUME NEW op \in OpType, NEW pc \in PCs
  PROVE  LET n == At(op, pc)
         IN  /\ n.pc = pc
             /\ pc # "idle" => n.msg = op.msg /\ n.new = op.new /\ n.old = op.old /\ n.move = op.move
             /\ pc = "idle" => n.move = FALSE /\ n.new.at = 0 /\ n.old.at = 0
BY DEF At, IdleOp, Op, ArrivalRow, OpType

-----------------------------------------------------------------------------
(* ListedInv *)

\* A step that leaves the store alone and takes the program o to n, which has
\* written no listing row: it keeps the row it had or takes a new time.
LEMMA AsideListed ==
  ASSUME IInv, IInv', ListedInv, NEW o \in Ops, NEW n \in OpType,
         ops' = [ops EXCEPT ![o] = n], store' = store,
         \A m \in Messages : ingest'[m] = "acked" => ingest[m] = "acked",
         faults # 0 => faults' # 0, moves' >= moves,
         n.pc \notin Inserted, n.pc \notin Storing,
         n.pc \in MovePCs \cup {"h_manifest"} => n.move, n.pc \in IngestPCs => ~n.move,
         n.move => n.new.at # 0, ~n.move => n.new.at = 0,
         n.new.at <= moves', n.old.at <= moves',
         n.move => \/ n.new.at > moves
                   \/ /\ ops[o].move /\ n.new = ops[o].new
                      /\ Fresh(n) => Fresh(ops[o]) /\ ops[o].pc \notin Inserted,
         \A p \in Ops : Fresh(ops[p]) => n.old.at # ops[p].new.at,
         Fresh(n) => n.old.at # n.new.at
  PROVE  ListedInv'
<1>1. /\ ops \in [Ops -> OpType] /\ ops' \in [Ops -> OpType]
      /\ ops'[o] = n /\ \A p \in Ops : p # o => ops'[p] = ops[p]
      /\ moves \in Nat /\ moves' \in Nat
      /\ \A p \in Ops : /\ ops[p].msg \in Messages /\ ops'[p].msg \in Messages
                        /\ ops[p].new.at \in Nat /\ ops[p].old.at \in Nat
                        /\ ops'[p].new.at \in Nat /\ ops'[p].old.at \in Nat
  BY BoundsAssumption, SMT DEF IInv, TypeOK, OpType, Rows
<1>2. \A m \in Messages : \A r \in store[m].listed \cup store[m].life : r.at \in Nat
  BY BoundsAssumption, SMT DEF IInv, TypeOK, StoreType, Rows
<1>3. \A m \in Messages : Stored(m)' => Stored(m)
  BY <1>1 DEF Stored
<1>4. ClockOK'
  <2>1. \A p \in Ops : /\ ops'[p].pc \in MovePCs \cup {"h_manifest"} => ops'[p].move
                       /\ ops'[p].pc \in IngestPCs => ~ops'[p].move
                       /\ ops'[p].move => ops'[p].new.at # 0
                       /\ ~ops'[p].move => ops'[p].new.at = 0
    BY <1>1 DEF ListedInv, ClockOK
  <2>2. \A p \in Ops : ops'[p].new.at <= moves' /\ ops'[p].old.at <= moves'
    <3> SUFFICES ASSUME NEW p \in Ops, p # o
                 PROVE  ops[p].new.at <= moves' /\ ops[p].old.at <= moves'
      BY <1>1
    <3>1. ops[p].new.at <= moves /\ ops[p].old.at <= moves
      BY DEF ListedInv, ClockOK
    <3> QED
      BY <1>1, <3>1, SMT
  <2>3. \A p, q \in Ops : p # q /\ ops'[p].move /\ ops'[q].move => ops'[p].new.at # ops'[q].new.at
    <3>1. \A p, q \in Ops : p # q /\ ops[p].move /\ ops[q].move => ops[p].new.at # ops[q].new.at
      BY DEF ListedInv, ClockOK
    <3>2. \A p \in Ops : p # o /\ ops[p].move /\ n.move => ops[p].new.at # n.new.at
      <4>1. \A p \in Ops : ops[p].new.at <= moves
        BY DEF ListedInv, ClockOK
      <4>2. n.new.at \in Nat
        BY <1>1
      <4> QED
        BY <1>1, <3>1, <4>1, <4>2, SMT
    <3> QED
      BY <1>1, <3>1, <3>2, ZenonT(30)
  <2>4. \A m \in Messages : \A r \in store[m].listed \cup store[m].life : r.at <= moves'
    <3>1. \A m \in Messages : \A r \in store[m].listed \cup store[m].life : r.at <= moves
      BY DEF ListedInv, ClockOK
    <3> QED
      BY <1>1, <1>2, <3>1, SMT
  <2> QED
    BY <2>1, <2>2, <2>3, <2>4 DEF ClockOK
<1>5. OwnOK'
  <2> SUFFICES ASSUME NEW p \in Ops, Fresh(ops'[p])
               PROVE  /\ \A q \in Ops : ops'[q].old.at # ops'[p].new.at
                      /\ \A m \in Messages : \A r \in store[m].life : r.at # ops'[p].new.at
                      /\ ops'[p].pc \in Inserted => ops'[p].new \in store[ops'[p].msg].listed
                      /\ ops'[p].pc \notin Inserted =>
                           \A m \in Messages : \A r \in store[m].listed : r.at # ops'[p].new.at
    BY DEF OwnOK, Fresh
  <2>1. CASE p # o
    BY <1>1, <2>1, ZenonT(30) DEF ListedInv, OwnOK, Fresh
  <2>2. CASE p = o /\ n.new.at > moves
    <3>1. \A q \in Ops : q # o => ops[q].old.at # n.new.at
      <4>1. \A q \in Ops : ops[q].old.at <= moves
        BY DEF ListedInv, ClockOK
      <4>2. n.new.at \in Nat
        BY <1>1
      <4> QED
        BY <1>1, <2>2, <4>1, <4>2, SMT
    <3>2. \A m \in Messages : \A r \in store[m].listed \cup store[m].life : r.at # n.new.at
      <4>1. \A m \in Messages : \A r \in store[m].listed \cup store[m].life : r.at <= moves
        BY DEF ListedInv, ClockOK
      <4>2. n.new.at \in Nat
        BY <1>1
      <4> QED
        BY <1>1, <1>2, <2>2, <4>1, <4>2, SMT
    <3> QED
      BY <1>1, <2>2, <3>1, <3>2
  <2>3. CASE p = o /\ n.new = ops[o].new /\ Fresh(ops[o]) /\ ops[o].pc \notin Inserted
    BY <1>1, <2>3, SMT DEF ListedInv, OwnOK
  <2> QED
    BY <1>1, <2>1, <2>2, <2>3 DEF Fresh
<1>6. UndoOK'
  <2>1. n.pc \notin Undoing
    BY DEF Undoing, Inserted
  <2> QED
    BY <1>1, <2>1 DEF ListedInv, UndoOK
<1>7. SpareOK'
  <2>1. \A p \in Ops : MayUndo(ops[p])' => p # o /\ MayUndo(ops[p])
    BY <1>1 DEF MayUndo, Inserted
  <2> QED
    BY <1>1, <1>3, <2>1 DEF ListedInv, SpareOK
<1>8. StoredListed'
  BY <1>3 DEF ListedInv, StoredListed
<1> QED
  BY <1>4, <1>5, <1>6, <1>7, <1>8, SMTT(30) DEF ListedInv

\* At the start nothing is listed and nothing runs.
LEMMA InitListed == Init => ListedInv
<1> SUFFICES ASSUME Init PROVE ListedInv
  OBVIOUS
<1>1. \A o \in Ops : /\ ops[o].pc = "idle" /\ ops[o].move = FALSE
                     /\ ops[o].new.at = 0 /\ ops[o].old.at = 0
  BY DEF Init, IdleOp, Op, ArrivalRow
<1>2. \A m \in Messages : /\ store[m].manifest = "none"
                          /\ store[m].listed = {} /\ store[m].life = {}
  BY DEF Init, NoMessage
<1>3. moves = 0
  BY DEF Init
<1>4. ClockOK
  BY <1>1, <1>2, <1>3, SMT DEF ClockOK, MovePCs, IngestPCs
<1>5. OwnOK /\ UndoOK /\ SpareOK /\ StoredListed
  BY <1>1, <1>2 DEF OwnOK, UndoOK, SpareOK, StoredListed, Fresh, MayUndo, Undoing, Stored
<1> QED
  BY <1>4, <1>5 DEF ListedInv

\* A program begins: a move takes the next time of the clock.
LEMMA BeginListed ==
  ASSUME IInv, IInv', ListedInv, NEW o \in Ops, NEW n, ops' = [ops EXCEPT ![o] = n],
         n.pc \in {"i_put", "r_manifest", "h_manifest", "d_manifest"}, n.old.at = 0,
         n.pc = "h_manifest" => n.move, n.pc = "i_put" => ~n.move,
         n.move => n.new.at = moves + 1 /\ moves' = moves + 1,
         ~n.move => n.new.at = 0 /\ moves' = moves,
         UNCHANGED <<store, faults>>,
         \A x \in Messages : ingest'[x] = "acked" => ingest[x] = "acked"
  PROVE  ListedInv'
<1>0. /\ moves \in Nat /\ ops' \in [Ops -> OpType]
      /\ \A p \in Ops : Fresh(ops[p]) => ops[p].new.at # 0
  BY BoundsAssumption, SMT DEF IInv, TypeOK, ListedInv, ClockOK, Fresh
<1>1. n \in OpType
  BY <1>0 DEF IInv, TypeOK
<1>2. n.pc \notin Inserted /\ n.pc \notin Storing /\ n.pc \notin MovePCs
      /\ (n.pc \in IngestPCs => n.pc = "i_put")
  BY DEF Inserted, Storing, MovePCs, IngestPCs
<1>3. /\ moves' \in Nat /\ moves' >= moves /\ n.new.at <= moves' /\ n.old.at <= moves'
      /\ n.move => n.new.at # 0 /\ n.new.at > moves
      /\ Fresh(n) => n.old.at # n.new.at
  BY <1>0, SMT DEF Fresh
<1>4. \A p \in Ops : Fresh(ops[p]) => n.old.at # ops[p].new.at
  BY <1>0
<1> QED
  BY <1>0, <1>1, <1>2, <1>3, <1>4, AsideListed

\* The requests of clients and sessions.
LEMMA RequestsListed ==
  ASSUME IInv, IInv', ListedInv, NEW o \in Actors, NEW m \in Messages,
         BeginIngest(o, m) \/ BeginPatch(o, m) \/ BeginDelete(o, m) \/ BeginPermanent(o, m)
  PROVE  ListedInv'
<1>1. o \in Ops
  BY DEF Ops
<1>2. CASE BeginIngest(o, m)
  <2>1. PICK src \in Sources : \E f \in IngestFolders[src] :
          Begin(o, Op("i_put", m, ArrivalRow(f), FALSE, FALSE))
    BY <1>2 DEF BeginIngest
  <2>2. PICK f \in IngestFolders[src] : Begin(o, Op("i_put", m, ArrivalRow(f), FALSE, FALSE))
    BY <2>1
  <2> DEFINE n == Op("i_put", m, ArrivalRow(f), FALSE, FALSE)
  <2>3. n.pc = "i_put" /\ n.old.at = 0 /\ n.move = FALSE /\ n.new.at = 0
    BY DEF Op, ArrivalRow
  <2>4. /\ UNCHANGED <<store, faults, moves>>
        /\ \A x \in Messages : ingest'[x] = "acked" => ingest[x] = "acked"
    BY <1>2 DEF BeginIngest, IInv, TypeOK
  <2>5. ops' = [ops EXCEPT ![o] = n]
    BY <2>2 DEF Begin
  <2> HIDE DEF n
  <2> QED
    BY <1>1, BeginListed, <2>3, <2>4, <2>5
<1>3. CASE BeginPatch(o, m)
  <2>1. PICK f \in Targets, move \in BOOLEAN, read \in BOOLEAN :
          /\ Begin(o, Op("r_manifest", m, [folder |-> f, at |-> IF move THEN moves + 1 ELSE 0],
                         move, read))
          /\ moves' = IF move THEN moves + 1 ELSE moves
    BY <1>3 DEF BeginPatch
  <2> DEFINE n == Op("r_manifest", m, [folder |-> f, at |-> IF move THEN moves + 1 ELSE 0],
                     move, read)
  <2>2. n.pc = "r_manifest" /\ n.old.at = 0 /\ n.move = move
        /\ n.new.at = IF move THEN moves + 1 ELSE 0
    BY DEF Op, ArrivalRow
  <2>3. UNCHANGED <<store, faults, ingest>>
    BY <1>3 DEF BeginPatch
  <2>4. ops' = [ops EXCEPT ![o] = n]
    BY <2>1 DEF Begin
  <2> HIDE DEF n
  <2> QED
    BY <1>1, BeginListed, <2>1, <2>2, <2>3, <2>4
<1>4. CASE BeginDelete(o, m)
  <2> DEFINE n == Op("h_manifest", m, [folder |-> "trash", at |-> moves + 1], TRUE, FALSE)
  <2>1. n.pc = "h_manifest" /\ n.old.at = 0 /\ n.move = TRUE /\ n.new.at = moves + 1
    BY DEF Op, ArrivalRow
  <2>2. /\ ops' = [ops EXCEPT ![o] = n] /\ moves' = moves + 1
        /\ UNCHANGED <<store, faults, ingest>>
    BY <1>4 DEF BeginDelete, Begin
  <2> HIDE DEF n
  <2> QED
    BY <1>1, BeginListed, <2>1, <2>2
<1>5. CASE BeginPermanent(o, m)
  <2> DEFINE n == Op("d_manifest", m, ArrivalRow("inbox"), FALSE, FALSE)
  <2>1. n.pc = "d_manifest" /\ n.old.at = 0 /\ n.move = FALSE /\ n.new.at = 0
    BY DEF Op, ArrivalRow
  <2>2. ops' = [ops EXCEPT ![o] = n] /\ UNCHANGED <<store, faults, ingest, moves>>
    BY <1>5 DEF BeginPermanent, Begin
  <2> HIDE DEF n
  <2> QED
    BY <1>1, BeginListed, <2>1, <2>2
<1> QED
  BY <1>2, <1>3, <1>4, <1>5

\* A program that goes on without having written a row, or ends: a read, a
\* crash, an error of a read.
LEMMA GoesOnListed ==
  ASSUME IInv, IInv', ListedInv, NEW o \in Ops, NEW q \in OpType, NEW pc \in PCs,
         ops' = [ops EXCEPT ![o] = At(q, pc)], UNCHANGED <<store, moves>>,
         \A m \in Messages : ingest'[m] = "acked" => ingest[m] = "acked",
         faults # 0 => faults' # 0,
         q.new = ops[o].new, q.move = ops[o].move, q.old.at <= moves,
         \A p \in Ops : Fresh(ops[p]) => q.old.at # ops[p].new.at,
         pc \notin Inserted, pc \notin IngestPCs,
         pc \in MovePCs \cup {"h_manifest"} => ops[o].move,
         pc = "idle" \/ (ops[o].pc \notin Inserted /\ ops[o].pc \notin {"m_flags", "r_flags"})
  PROVE  ListedInv'
<1> DEFINE n == At(q, pc)
<1>1. /\ n.pc = pc
      /\ pc # "idle" => n.msg = q.msg /\ n.new = q.new /\ n.old = q.old /\ n.move = q.move
      /\ pc = "idle" => n.move = FALSE /\ n.new.at = 0 /\ n.old.at = 0
  BY AtKeeps
<1>8. n \in OpType /\ ops' = [ops EXCEPT ![o] = n]
  BY AtType
<1> HIDE DEF n
<1>2. moves \in Nat /\ n.pc \notin Storing
  BY <1>1, BoundsAssumption, SMT DEF IInv, TypeOK, Storing, IngestPCs
<1>3. /\ ops[o].move => ops[o].new.at # 0
      /\ ~ops[o].move => ops[o].new.at = 0
      /\ ops[o].new.at <= moves
      /\ \A p \in Ops : Fresh(ops[p]) => ops[p].new.at # 0
  BY DEF ListedInv, ClockOK, Fresh
<1>4. /\ n.pc \in MovePCs \cup {"h_manifest"} => n.move
      /\ n.move => n.new.at # 0 /\ n.new = ops[o].new /\ ops[o].move
      /\ ~n.move => n.new.at = 0
      /\ n.new.at <= moves /\ n.old.at <= moves
  <2>1. "idle" \notin MovePCs \cup {"h_manifest"}
    BY DEF MovePCs
  <2> QED
    BY <1>1, <1>2, <1>3, <2>1, SMT
<1>5. Fresh(n) => Fresh(ops[o]) /\ ops[o].pc \notin Inserted
  BY <1>1 DEF Fresh
<1>6. \A p \in Ops : Fresh(ops[p]) => n.old.at # ops[p].new.at
  BY <1>1, <1>3
<1>7. Fresh(n) => n.old.at # n.new.at
  BY <1>1, <1>5 DEF Fresh
<1>9. /\ moves' >= moves /\ n.new.at <= moves' /\ n.old.at <= moves'
      /\ n.pc \notin Inserted /\ (n.pc \in IngestPCs => ~n.move)
      /\ store' = store
  BY <1>1, <1>2, <1>4, SMT
<1>10. n.move => /\ ops[o].move /\ n.new = ops[o].new
                 /\ Fresh(n) => Fresh(ops[o]) /\ ops[o].pc \notin Inserted
  BY <1>4, <1>5
<1> QED
  BY <1>2, <1>4, <1>6, <1>7, <1>8, <1>9, <1>10, AsideListed

\* Reading the manifest: the fallback row is of the time of arrival.
LEMMA GetManifestListed ==
  ASSUME IInv, IInv', ListedInv, NEW o \in Ops, GetManifest(o)
  PROVE  ListedInv'
<1> DEFINE op == ops[o]
           s == store[op.msg]
           q == [op EXCEPT !.old = ArrivalRow(s.folder)]
<1>0. /\ op \in OpType /\ ArrivalRow(s.folder) \in Rows /\ ArrivalRow(s.folder).at = 0
      /\ moves \in Nat
  BY BoundsAssumption, SMT DEF IInv, TypeOK, OpType, StoreType, ArrivalRow, Rows
<1>1. UNCHANGED <<store, moves, ingest, faults>> /\ op.pc \in {"r_manifest", "m_manifest", "h_manifest", "d_manifest"}
  BY DEF GetManifest
<1>2. /\ op.pc \notin Inserted /\ op.pc \notin {"m_flags", "r_flags"}
      /\ op.old.at <= moves
      /\ op.pc \in MovePCs \cup {"h_manifest"} => op.move
      /\ \A p \in Ops : Fresh(ops[p]) => op.old.at # ops[p].new.at /\ ops[p].new.at # 0
  BY <1>1, SMTT(30) DEF Inserted, ListedInv, ClockOK, OwnOK, Fresh
<1>3. ASSUME NEW pc \in {"idle", "r_header", "d_manifest", "r_flags"}, Goto(o, op, pc) PROVE ListedInv'
  <2>1. /\ pc \in PCs /\ pc \notin Inserted /\ pc \notin IngestPCs
        /\ pc \notin MovePCs \cup {"h_manifest"}
    BY <1>3 DEF PCs, Inserted, IngestPCs, MovePCs, ReadPCs, DeletePCs
  <2>2. ops' = [ops EXCEPT ![o] = At(op, pc)]
    BY <1>3 DEF Goto, Begin
  <2> QED
    BY <1>0, <1>1, <1>2, <2>1, <2>2, GoesOnListed
<1>4. ASSUME Goto(o, op, "m_manifest"), op.move PROVE ListedInv'
  <2>1. "m_manifest" \in PCs /\ "m_manifest" \notin Inserted /\ "m_manifest" \notin IngestPCs
    BY DEF PCs, Inserted, IngestPCs, MovePCs
  <2>2. ops' = [ops EXCEPT ![o] = At(op, "m_manifest")]
    BY <1>4 DEF Goto, Begin
  <2> QED
    BY <1>0, <1>1, <1>2, <1>4, <2>1, <2>2, GoesOnListed
<1>5. ASSUME NEW pc \in {"m_life", "d_life"}, pc = "m_life" => op.move,
             Begin(o, [op EXCEPT !.pc = pc, !.old = ArrivalRow(s.folder)])
      PROVE  ListedInv'
  <2>1. /\ q \in OpType /\ q.new = op.new /\ q.move = op.move /\ q.old.at = 0
        /\ [q EXCEPT !.pc = pc] = [op EXCEPT !.pc = pc, !.old = ArrivalRow(s.folder)]
    BY <1>0 DEF OpType
  <2> HIDE DEF q
  <2>2. /\ pc \in PCs /\ pc \notin Inserted /\ pc \notin IngestPCs /\ pc # "idle"
        /\ (pc \in MovePCs \cup {"h_manifest"} => op.move)
    BY <1>5 DEF PCs, Inserted, IngestPCs, MovePCs, DeletePCs
  <2>3. ops' = [ops EXCEPT ![o] = At(q, pc)]
    BY <1>5, <2>1, <2>2 DEF Begin, At
  <2>4. q.old.at <= moves
    BY <1>0, <2>1, SMT
  <2>5. \A p \in Ops : Fresh(ops[p]) => q.old.at # ops[p].new.at
    BY <1>2, <2>1
  <2> QED
    BY <1>1, <1>2, <2>1, <2>2, <2>3, <2>4, <2>5, GoesOnListed
<1>6. /\ op.pc \in {"m_manifest", "h_manifest"} => op.move
      /\ AfterHeader(op) \in {"r_flags", "idle"} \/ (AfterHeader(op) = "m_manifest" /\ op.move)
      /\ AfterMove(op) \in {"r_flags", "idle"}
  BY <1>2 DEF AfterHeader, AfterMove, MovePCs
<1> QED
  BY <1>3, <1>4, <1>5, <1>6, SMTT(30) DEF GetManifest

\* Reading the lifecycle row: it is nobody's own.
LEMMA GetLifecycleListed ==
  ASSUME IInv, IInv', ListedInv, NEW o \in Ops, GetLifecycle(o)
  PROVE  ListedInv'
<1> DEFINE op == ops[o]
           s == store[op.msg]
<1>0. op \in OpType /\ op.msg \in Messages /\ \A r \in s.life : r \in Rows
  BY SMTT(30), SMT DEF IInv, TypeOK, OpType, StoreType
<1>1. /\ UNCHANGED <<store, moves, ingest, faults>>
      /\ op.pc \in {"m_life", "d_life"} /\ AfterOk(op) \in {"m_insert", "d_delete"}
  BY LifecycleReadNext, SMT DEF GetLifecycle
<1>2. /\ AfterOk(op) \in PCs /\ AfterOk(op) \notin Inserted /\ AfterOk(op) \notin IngestPCs
      /\ op.pc \notin Inserted /\ op.pc \notin {"m_flags", "r_flags"}
  BY <1>1 DEF PCs, Inserted, IngestPCs, MovePCs, DeletePCs
<1>3. AfterOk(op) \in MovePCs \cup {"h_manifest"} => op.move
  BY <1>0, <1>1, MoveOkFacts DEF ListedInv, ClockOK
<1>4. /\ op.old.at <= moves /\ \A r \in s.life : r.at <= moves
      /\ \A p \in Ops : Fresh(ops[p]) =>
           op.old.at # ops[p].new.at /\ \A r \in s.life : r.at # ops[p].new.at
  BY <1>0, SMTT(30) DEF ListedInv, ClockOK, OwnOK
<1>5. CASE Goto(o, op, AfterOk(op))
  <2>1. ops' = [ops EXCEPT ![o] = At(op, AfterOk(op))]
    BY <1>5 DEF Goto, Begin
  <2> QED
    BY <1>0, <1>1, <1>2, <1>3, <1>4, <2>1, GoesOnListed
<1>6. ASSUME NEW r \in s.life, Goto(o, [op EXCEPT !.old = r], AfterOk(op)) PROVE ListedInv'
  <2> DEFINE q == [op EXCEPT !.old = r]
  <2>1. q \in OpType /\ q.new = op.new /\ q.move = op.move /\ q.old = r
    BY <1>0 DEF OpType
  <2>2. ops' = [ops EXCEPT ![o] = At(q, AfterOk(op))]
    BY <1>6 DEF Goto, Begin
  <2> HIDE DEF q
  <2> QED
    BY <1>1, <1>2, <1>3, <1>4, <2>1, <2>2, GoesOnListed, ZenonT(30)
<1> QED
  BY <1>5, <1>6 DEF GetLifecycle

\* The sweeper takes the next message of its list.
LEMMA SweepNextListed ==
  ASSUME IInv, IInv', ListedInv, SweepNext
  PROVE  ListedInv'
<1>1. PICK m \in batch : Begin(Sweeper, Op("d_manifest", m, ArrivalRow("inbox"), FALSE, FALSE))
  BY DEF SweepNext
<1> DEFINE n == Op("d_manifest", m, ArrivalRow("inbox"), FALSE, FALSE)
<1>2. n.pc = "d_manifest" /\ n.old.at = 0 /\ n.move = FALSE /\ n.new.at = 0
  BY DEF Op, ArrivalRow
<1>3. /\ Sweeper \in Ops /\ ops' = [ops EXCEPT ![Sweeper] = n]
      /\ UNCHANGED <<store, faults, ingest, moves>>
  BY <1>1 DEF SweepNext, Begin, Ops
<1> HIDE DEF n
<1> QED
  BY <1>2, <1>3, BeginListed

\* A program that stops leaves the row it wrote.
LEMMA CrashListed ==
  ASSUME IInv, IInv', ListedInv, NEW o \in Ops, Crash(o)
  PROVE  ListedInv'
<1>1. /\ ops[o] \in OpType /\ "idle" \in PCs
      /\ "idle" \notin Inserted /\ "idle" \notin IngestPCs /\ "idle" \notin MovePCs \cup {"h_manifest"}
  BY DEF IInv, TypeOK, PCs, Inserted, IngestPCs, MovePCs
<1>2. /\ ops' = [ops EXCEPT ![o] = At(ops[o], "idle")] /\ UNCHANGED <<store, moves>>
      /\ \A m \in Messages : ingest'[m] = "acked" => ingest[m] = "acked"
  BY DEF Crash, Goto, Begin, IInv, TypeOK
<1>3. faults # 0 => faults' # 0
  BY BoundsAssumption, SMT DEF Crash, IInv, TypeOK
<1>4. /\ ops[o].old.at <= moves
      /\ \A p \in Ops : Fresh(ops[p]) => ops[o].old.at # ops[p].new.at
  BY DEF ListedInv, ClockOK, OwnOK
<1> QED
  BY <1>1, <1>2, <1>3, <1>4, GoesOnListed

\* Time passes, and the sweeper lists.
LEMMA ElapseListed ==
  ASSUME IInv, IInv', ListedInv, UNCHANGED <<ingest, ops, moves, faults>>,
         \A m \in Messages : /\ store'[m].manifest = store[m].manifest
                             /\ store'[m].listed = store[m].listed
                             /\ store'[m].life = store[m].life
  PROVE  ListedInv'
<1>1. \A p \in Ops : ops[p].msg \in Messages
  BY DEF IInv, TypeOK, OpType
<1>2. \A m \in Messages : Stored(m)' <=> Stored(m)
  BY DEF Stored
<1>3. ClockOK'
  BY DEF ListedInv, ClockOK
<1>4. OwnOK'
  BY <1>1 DEF ListedInv, OwnOK, Fresh
<1>5. UndoOK'
  BY DEF ListedInv, UndoOK
<1>6. SpareOK'
  BY <1>1, <1>2 DEF ListedInv, SpareOK, MayUndo
<1>7. StoredListed'
  BY <1>2 DEF ListedInv, StoredListed
<1> QED
  BY <1>3, <1>4, <1>5, <1>6, <1>7 DEF ListedInv

\* The one error: a move begins to undo, and has a row to spare.
LEMMA FailsListed ==
  ASSUME CleanFaults, IInv, IInv', ListedInv, NEW o \in Ops, StatementFails(o)
  PROVE  ListedInv'
<1> DEFINE op == ops[o]
           pc == AfterErr(op)
           n == ops'[o]
<1>0. op \in OpType /\ op.msg \in Messages /\ pc \in PCs /\ ops \in [Ops -> OpType]
      /\ \A p \in Ops : ops[p].msg \in Messages
  BY AfterErrType DEF IInv, TypeOK, OpType
<1>1. n = At(op, pc) /\ \A p \in Ops : p # o => ops'[p] = ops[p]
  BY <1>0 DEF StatementFails, Goto, Begin
<1>2. /\ n.pc = pc
      /\ pc # "idle" => n.msg = op.msg /\ n.new = op.new /\ n.old = op.old /\ n.move = op.move
      /\ pc = "idle" => n.move = FALSE /\ n.new.at = 0 /\ n.old.at = 0
  <2> HIDE DEF op, pc, n
  <2> QED
    BY <1>0, <1>1, AtKeeps
<1>3. store' = store /\ moves' = moves /\ moves \in Nat
  BY BoundsAssumption, SMT DEF StatementFails, CleanFaults, IInv, TypeOK
<1>4. faults = 0 /\ faults' = 1
  BY BoundsAssumption, SMT DEF StatementFails, CleanFaults, IInv, TypeOK
<1>5. \A m \in Messages : ingest'[m] = "acked" => ingest[m] = "acked"
  BY <1>0 DEF StatementFails, IInv, TypeOK
<1>6. /\ pc \notin Storing
      /\ pc \in IngestPCs => op.pc \in IngestPCs
      /\ pc \in MovePCs \cup {"h_manifest"} => op.pc \in MovePCs
      /\ pc \in Inserted => op.pc \in Inserted \ {"m_undo_insert"}
      /\ pc \notin {"m_folder", "m_unlist"}
      /\ pc = "m_undo_folder" => op.pc \in {"m_unlist", "m_undo_unlist"}
      /\ pc = "m_undo_insert" => op.pc \in {"m_folder", "m_undo_folder"}
      /\ op.pc \in {"m_flags", "r_flags"} => pc \in {"r_flags", "idle"}
      /\ op.pc \in Inserted /\ op.pc # "m_undo_insert" => pc \in Inserted
      /\ op.pc = "m_undo_insert" => pc = "idle"
  BY <1>0, AfterErrFacts, MoveErrFacts
<1>7. \A m \in Messages : Stored(m)' => Stored(m)
  BY <1>1, <1>2, <1>3, <1>5, <1>6 DEF Stored
<1>8. \A p \in Ops : ops[p].pc \notin Undoing
  BY <1>4 DEF ListedInv, UndoOK
<1> HIDE DEF op, pc, n
<1>9. ClockOK'
  <2>1. /\ op.pc \in MovePCs \cup {"h_manifest"} => op.move
        /\ op.pc \in IngestPCs => ~op.move
        /\ op.move => op.new.at # 0
        /\ ~op.move => op.new.at = 0
        /\ op.new.at <= moves /\ op.old.at <= moves
    BY DEF ListedInv, ClockOK, op
  <2>2. "idle" \notin MovePCs \cup {"h_manifest"} /\ "idle" \notin IngestPCs
    BY DEF MovePCs, IngestPCs
  <2>3. /\ n.pc \in MovePCs \cup {"h_manifest"} => n.move
        /\ n.pc \in IngestPCs => ~n.move
        /\ n.move => n.new.at # 0
        /\ ~n.move => n.new.at = 0
        /\ n.new.at <= moves /\ n.old.at <= moves
        /\ n.move => op.move /\ n.new = op.new
    BY <1>2, <1>3, <1>6, <2>1, <2>2, SMT
  <2> QED
    BY <1>1, <1>3, <2>3, SMTT(30), SMT DEF ListedInv, ClockOK, n, op
<1>10. OwnOK'
  <2>1. n.old.at = 0 \/ n.old = op.old
    BY <1>2
  <2>2. \A p \in Ops : Fresh(ops[p]) => n.old.at # ops[p].new.at
    BY <2>1 DEF ListedInv, OwnOK, ClockOK, Fresh, op
  <2>3. Fresh(n) => /\ Fresh(op) /\ n.new = op.new /\ n.msg = op.msg
                    /\ n.pc \in Inserted <=> op.pc \in Inserted
    BY <1>2, <1>6 DEF Fresh
  <2> QED
    BY <1>0, <1>1, <1>3, <2>2, <2>3, SMTT(30), SMT DEF ListedInv, OwnOK, Fresh, n, op
<1>11. UndoOK'
  BY <1>1, <1>4, <1>8, SMT DEF UndoOK
<1>12. SpareOK'
  <2> SUFFICES ASSUME NEW p \in Ops, MayUndo(ops[p])', Stored(ops[p].msg)'
               PROVE  \E r \in store[ops'[p].msg].listed : r # ops'[p].new
    BY <1>3 DEF SpareOK
  <2>1. ops'[p].pc \in {"m_undo_folder", "m_undo_insert"}
    BY <1>4, SMT DEF MayUndo
  <2>2. p = o
    BY <1>1, <1>8, <2>1 DEF Undoing
  <2>3. n.new = op.new /\ n.msg = op.msg /\ op.pc \in {"m_unlist", "m_folder"}
    BY <1>2, <1>6, <1>8, <2>1, <2>2 DEF Undoing, n, op
  <2>4. MayUndo(op) /\ Stored(op.msg)
    <3>1. PICK m \in Messages : m = op.msg
      BY <1>0 DEF op
    <3>2. Stored(m)'
      BY <2>2, <2>3, <3>1 DEF n, Stored
    <3> QED
      BY <1>4, <1>7, <2>3, <3>1, <3>2 DEF MayUndo
  <2> QED
    BY <2>2, <2>3, <2>4 DEF ListedInv, SpareOK, n, op
<1>13. StoredListed'
  BY <1>3, <1>7 DEF ListedInv, StoredListed
<1> QED
  BY <1>9, <1>10, <1>11, <1>12, <1>13 DEF ListedInv

\* A message becomes stored by the statement that lists it, and by no other.
LEMMA StoredStep ==
  ASSUME IInv, NEW o \in Ops, Statement(o), NEW m \in Messages, Stored(m)'
  PROVE  Stored(m) \/ (ops[o].pc = "i_mailbox" /\ ops[o].msg = m)
<1> DEFINE op == ops[o]
           pc == AfterOk(op)
           n == ops'[o]
<1>0. op \in OpType /\ op.msg \in Messages /\ pc \in PCs /\ ops \in [Ops -> OpType]
      /\ store[op.msg] \in StoreType
  BY AfterOkType DEF IInv, TypeOK, OpType
<1>1. n = At(op, pc) /\ \A p \in Ops : p # o => ops'[p] = ops[p]
  BY <1>0 DEF Statement, Goto, Begin
<1>2. n.pc = pc /\ (pc # "idle" => n.msg = op.msg)
  <2> HIDE DEF op, pc, n
  <2> QED
    BY <1>0, <1>1, AtKeeps
<1>3. /\ store'[op.msg] = Effect(store[op.msg], op)
      /\ \A x \in Messages : x # op.msg => store'[x] = store[x]
  BY <1>0 DEF IInv, TypeOK, Statement
<1>4. /\ ingest'[m] = "acked" => ingest[m] = "acked" \/ (op.pc = "i_life" /\ op.msg = m)
  BY <1>0 DEF IInv, TypeOK, Statement
<1>5. /\ pc \in Storing => op.pc \in Storing \cup {"i_manifest"}
      /\ op.pc = "i_manifest" => pc = "i_mailbox"
  BY <1>0, AfterOkFacts, MoveOkFacts
<1>6. store[m].manifest = "whole" \/ (op.pc = "i_manifest" /\ op.msg = m)
  BY <1>0, <1>3, EffectFacts, SMT DEF Stored
<1>7. Storing \subseteq IngestPCs /\ "i_life" \in Storing \ {"i_mailbox"} /\ "idle" \notin Storing
      /\ "i_manifest" \in IngestPCs
  BY DEF Storing, IngestPCs
<1>8. \/ ingest'[m] = "acked"
      \/ \E p \in Ops : ops'[p].msg = m /\ ops'[p].pc \in Storing \ {"i_mailbox"}
  BY DEF Stored
<1> HIDE DEF op, pc, n
<1>9. CASE op.pc = "i_manifest" /\ op.msg = m
  <2>1. ingest[m] = "running"
    BY <1>7, <1>9 DEF IInv, IngestOK, op
  <2>2. ingest'[m] # "acked"
    BY <1>4, <1>9, <2>1
  <2>3. PICK p \in Ops : ops'[p].msg = m /\ ops'[p].pc \in Storing \ {"i_mailbox"}
    BY <1>8, <2>2
  <2>4. p # o
    BY <1>2, <1>5, <1>9, <2>3 DEF n
  <2> QED
    BY <1>1, <1>7, <1>9, <2>3, <2>4, ZenonT(30) DEF IInv, IngestOK, op
<1>10. CASE store[m].manifest = "whole"
  <2>1. CASE ingest'[m] = "acked"
    BY <1>4, <1>7, <1>10, <2>1 DEF Stored, op
  <2>2. ASSUME NEW p \in Ops, ops'[p].msg = m, ops'[p].pc \in Storing \ {"i_mailbox"}
        PROVE  Stored(m) \/ (op.pc = "i_mailbox" /\ op.msg = m)
    <3>1. CASE p # o
      BY <1>1, <1>10, <2>2, <3>1 DEF Stored
    <3>2. CASE p = o
      <4>1. op.msg = m /\ op.pc \in Storing
        BY <1>2, <1>5, <1>7, <2>2, <3>2 DEF n
      <4> QED
        BY <1>10, <4>1 DEF Stored, op
    <3> QED
      BY <3>1, <3>2
  <2> QED
    BY <1>8, <2>1, <2>2 DEF op
<1> QED
  BY <1>6, <1>9, <1>10

\* A statement that succeeds.  What it takes from a listing is either its own
\* row, at the end of an undo, or one of which it has written the successor.
LEMMA StatementListed ==
  ASSUME IInv, IInv', ListedInv, NEW o \in Ops, Statement(o)
  PROVE  ListedInv'
<1> DEFINE op == ops[o]
           m == op.msg
           pc == AfterOk(op)
           n == ops'[o]
           L == store[m].listed
<1>0. op \in OpType /\ m \in Messages /\ pc \in PCs /\ ops \in [Ops -> OpType]
      /\ store[m] \in StoreType /\ \A p \in Ops : ops[p].msg \in Messages
  BY AfterOkType DEF IInv, TypeOK, OpType
<1>1. n = At(op, pc) /\ \A p \in Ops : p # o => ops'[p] = ops[p]
  BY <1>0 DEF Statement, Goto, Begin
<1>2. /\ n.pc = pc
      /\ pc # "idle" => n.msg = op.msg /\ n.new = op.new /\ n.old = op.old /\ n.move = op.move
      /\ pc = "idle" => n.move = FALSE /\ n.new.at = 0 /\ n.old.at = 0
  <2> HIDE DEF op, pc, n
  <2> QED
    BY <1>0, <1>1, AtKeeps DEF m
<1>3. /\ store'[m] = Effect(store[m], op)
      /\ \A x \in Messages : x # m => store'[x] = store[x]
      /\ moves' = moves /\ faults' = faults /\ moves \in Nat
  BY <1>0, BoundsAssumption, SMT DEF IInv, TypeOK, Statement
<1>4. /\ op.pc \in {"i_mailbox", "m_insert"} => store'[m].listed = L \cup {op.new}
      /\ op.pc \in {"i_undo_mailbox", "m_undo_insert"} => store'[m].listed = L \ {op.new}
      /\ op.pc \in {"m_unlist", "d_unlist"} => store'[m].listed = L \ {op.old}
      /\ op.pc = "m_undo_unlist" => store'[m].listed = L \cup {op.old}
      /\ op.pc \notin {"i_mailbox", "m_insert", "i_undo_mailbox", "m_undo_insert", "m_unlist",
                       "d_unlist", "m_undo_unlist"} => store'[m].listed = L
  BY <1>0, <1>3, EffectListed, SMTT(30), SMT
<1>5. /\ op.pc \in {"i_life", "m_upsert"} => store'[m].life = {op.new}
      /\ op.pc \notin {"i_life", "m_upsert"} => store'[m].life \subseteq store[m].life
  BY <1>0, <1>3, EffectLife, SMT
<1>6. /\ pc \in MovePCs \cup {"h_manifest"} => op.pc \in MovePCs \/ (op.pc = "r_header" /\ op.move)
      /\ pc \in Inserted => op.pc \in {"m_insert"} \cup (Inserted \ {"m_undo_insert"})
      /\ pc \in Undoing => op.pc \in {"m_undo_unlist", "m_undo_folder"}
      /\ pc = "m_folder" => op.pc = "m_insert"
      /\ pc = "m_unlist" => op.pc = "m_folder"
      /\ pc = "m_undo_folder" => op.pc = "m_undo_unlist"
      /\ pc = "m_undo_insert" => op.pc = "m_undo_folder"
      /\ op.pc = "m_upsert" => pc = "m_flags"
      /\ op.pc = "m_insert" => pc = "m_folder"
      /\ op.pc \in {"m_flags", "r_flags"} => pc \in {"r_flags", "idle"}
      /\ pc \in IngestPCs => op.pc \in IngestPCs
  BY <1>0, MoveOkFacts, AfterOkFacts
<1>7. /\ op.pc \in MovePCs \cup {"h_manifest"} => op.move
      /\ op.pc \in IngestPCs => ~op.move
      /\ op.move => op.new.at # 0
      /\ ~op.move => op.new.at = 0
      /\ op.new.at <= moves /\ op.old.at <= moves
  BY DEF ListedInv, ClockOK
<1>8. /\ \A p \in Ops : p # o /\ Fresh(ops[p]) => ops[p].new.at # op.new.at
      /\ \A p \in Ops : Fresh(ops[p]) => ops[p].new.at # op.old.at
  BY <1>7 DEF ListedInv, ClockOK, OwnOK, Fresh
<1>9. {"m_insert", "m_undo_insert", "m_unlist", "m_undo_unlist", "m_upsert"} \subseteq MovePCs
      /\ {"i_mailbox", "i_undo_mailbox", "i_life"} \subseteq IngestPCs
      /\ "idle" \notin MovePCs \cup {"h_manifest"} /\ "idle" \notin IngestPCs
  BY DEF MovePCs, IngestPCs
<1> HIDE DEF op, m, pc, n, L
<1>10. /\ n.move => op.move /\ n.new = op.new
       /\ n.pc \in MovePCs \cup {"h_manifest"} => n.move
       /\ n.pc \in IngestPCs => ~n.move
       /\ n.move => n.new.at # 0
       /\ ~n.move => n.new.at = 0
       /\ n.new.at <= moves /\ n.old.at <= moves
       /\ n.old.at = 0 \/ n.old = op.old
  BY <1>2, <1>3, <1>6, <1>7, <1>9, SMTT(30), SMT
<1>11. ClockOK'
  <2>1. \A x \in Messages : \A r \in store'[x].listed \cup store'[x].life : r.at <= moves
    <3>1. \A x \in Messages : \A r \in store[x].listed \cup store[x].life : r.at <= moves
      BY DEF ListedInv, ClockOK
    <3>2. \A r \in store'[m].listed : r \in L \/ r = op.new \/ r = op.old
      BY <1>4
    <3>3. \A r \in store'[m].life : r \in store[m].life \/ r = op.new
      BY <1>5, SMTT(30), SMT
    <3> QED
      BY <1>0, <1>3, <1>7, <3>1, <3>2, <3>3, SMTT(30) DEF L
  <2>2. \A p \in Ops : /\ ops'[p].pc \in MovePCs \cup {"h_manifest"} => ops'[p].move
                       /\ ops'[p].pc \in IngestPCs => ~ops'[p].move
                       /\ ops'[p].move => ops'[p].new.at # 0
                       /\ ~ops'[p].move => ops'[p].new.at = 0
                       /\ ops'[p].new.at <= moves /\ ops'[p].old.at <= moves
    BY <1>1, <1>10, SMTT(30) DEF ListedInv, ClockOK, n
  <2>3. \A p, q \in Ops : p # q /\ ops'[p].move /\ ops'[q].move => ops'[p].new.at # ops'[q].new.at
    BY <1>1, <1>10, SMTT(30), SMT DEF ListedInv, ClockOK, n, op
  <2> QED
    BY <1>3, <2>1, <2>2, <2>3, SMTT(30) DEF ClockOK
<1>12. OwnOK'
  <2> SUFFICES ASSUME NEW p \in Ops, Fresh(ops'[p])
               PROVE  /\ \A q \in Ops : ops'[q].old.at # ops'[p].new.at
                      /\ \A x \in Messages : \A r \in store'[x].life : r.at # ops'[p].new.at
                      /\ ops'[p].pc \in Inserted => ops'[p].new \in store'[ops'[p].msg].listed
                      /\ ops'[p].pc \notin Inserted =>
                           \A x \in Messages : \A r \in store'[x].listed : r.at # ops'[p].new.at
    BY DEF OwnOK, Fresh
  <2>1. CASE p # o
    <3>1. ops'[p] = ops[p] /\ Fresh(ops[p]) /\ ops[p].new.at # 0
      BY <1>1, <2>1 DEF ListedInv, ClockOK, Fresh
    <3>2. ops[p].new.at # op.new.at /\ ops[p].new.at # op.old.at /\ ops[p].new.at # n.old.at
      BY <1>8, <1>10, <2>1, <3>1
    <3>3. \A q \in Ops : ops'[q].old.at # ops[p].new.at
      BY <1>1, <3>1, <3>2, SMT DEF ListedInv, OwnOK, n
    <3>4. \A x \in Messages : \A r \in store'[x].life : r.at # ops[p].new.at
      BY <1>0, <1>3, <1>5, <3>1, <3>2, SMTT(30), SMT DEF ListedInv, OwnOK
    <3>5. ops[p].pc \in Inserted => ops[p].new \in store'[ops[p].msg].listed
      BY <1>0, <1>3, <1>4, <3>1, <3>2 DEF ListedInv, OwnOK, L
    <3>6. ops[p].pc \notin Inserted =>
            \A x \in Messages : \A r \in store'[x].listed : r.at # ops[p].new.at
      BY <1>0, <1>3, <1>4, <3>1, <3>2, SMTT(30), SMT DEF ListedInv, OwnOK, L
    <3> QED
      BY <3>1, <3>3, <3>4, <3>5, <3>6
  <2>2. CASE p = o
    <3>1. Fresh(n) /\ n.move /\ pc # "idle"
      BY <1>2, <2>2 DEF n, Fresh
    <3>2. /\ op.pc \notin {"m_flags", "r_flags", "m_upsert"} /\ Fresh(op) /\ op.move
          /\ n.new = op.new /\ n.msg = m /\ n.old = op.old /\ n.new.at # 0
      BY <1>2, <1>6, <1>10, <3>1 DEF Fresh, m
    <3>3. op.pc \notin IngestPCs
      BY <1>7, <3>2
    <3>4. /\ \A q \in Ops : ops[q].old.at # op.new.at
          /\ \A x \in Messages : \A r \in store[x].life : r.at # op.new.at
          /\ op.pc \in Inserted => op.new \in L
          /\ op.pc \notin Inserted =>
               \A x \in Messages : \A r \in store[x].listed : r.at # op.new.at
      BY <3>2 DEF ListedInv, OwnOK, op, m, L
    <3>5. \A q \in Ops : ops'[q].old.at # n.new.at
      BY <1>1, <3>2, <3>4 DEF n, op
    <3>6. \A x \in Messages : \A r \in store'[x].life : r.at # n.new.at
      BY <1>0, <1>3, <1>5, <1>9, <3>2, <3>3, <3>4, ZenonT(30)
    <3>7. n.pc \in Inserted => n.new \in store'[m].listed
      <4>1. op.old # op.new
        BY <3>4 DEF op
      <4>2. ASSUME n.pc \in Inserted
            PROVE  op.pc = "m_insert" \/ (op.pc \in Inserted /\ op.pc # "m_undo_insert")
        BY <1>2, <1>6, <4>2
      <4>3. {"i_undo_mailbox", "d_unlist", "i_mailbox"} \cap Inserted = {}
        BY DEF Inserted
      <4> QED
        BY <1>4, <3>2, <3>4, <4>1, <4>2, <4>3, SMT
    <3>8. n.pc \notin Inserted =>
            \A x \in Messages : \A r \in store'[x].listed : r.at # n.new.at
      <4>1. ASSUME n.pc \notin Inserted PROVE op.pc \notin Inserted /\ op.pc # "m_insert"
        <5>1. /\ "m_folder" \in Inserted
              /\ op.pc \in Inserted => pc \in Inserted \cup {"m_flags", "idle"}
          BY SMT DEF pc, AfterOk, AfterMove, PersistOk, DeleteOk, MoveOk, Inserted
        <5> QED
          BY <1>2, <1>6, <3>1, <4>1, <5>1 DEF Fresh
      <4>2. {"m_undo_unlist", "m_undo_insert", "m_unlist"} \subseteq Inserted
        BY DEF Inserted
      <4>3. ASSUME n.pc \notin Inserted PROVE store'[m].listed \subseteq L
        BY <1>4, <1>9, <3>3, <4>1, <4>2, <4>3
      <4> QED
        BY <1>0, <1>3, <3>2, <3>4, <4>1, <4>3, ZenonT(30) DEF L
    <3> QED
      BY <2>2, <3>2, <3>5, <3>6, <3>7, <3>8 DEF n
  <2> QED
    BY <2>1, <2>2
<1>13. UndoOK'
  <2>1. n.pc \in Undoing => op.pc \in Undoing
    BY <1>2, <1>6 DEF Undoing
  <2> QED
    BY <1>1, <1>3, <2>1 DEF ListedInv, UndoOK, n, op
<1>14. /\ op.pc = "m_unlist" => op.new \in L /\ op.new # op.old
       /\ op.pc = "m_undo_unlist" => op.new # op.old
       /\ op.pc = "m_insert" => \A r \in L : r # op.new
  <2>1. op.pc \in {"m_unlist", "m_undo_unlist", "m_insert"} => Fresh(op)
    BY <1>7, <1>9 DEF Fresh
  <2>2. "m_insert" \notin Inserted /\ "m_unlist" \in Inserted
    BY DEF Inserted
  <2> QED
    BY <1>0, <2>1, <2>2 DEF ListedInv, OwnOK, op, L, m
<1>15. Stored(m) => op.pc \notin {"i_undo_mailbox", "d_unlist"}
  <2>1. ASSUME Stored(m), op.pc = "i_undo_mailbox" PROVE FALSE
    <3>1. ingest[m] = "running"
      BY <1>9, <2>1 DEF IInv, IngestOK, op, m
    <3>2. PICK p \in Ops : ops[p].msg = m /\ ops[p].pc \in Storing
      BY <2>1, <3>1 DEF Stored
    <3>3. "i_undo_mailbox" \notin Storing /\ Storing \subseteq IngestPCs
      BY DEF Storing, IngestPCs
    <3> QED
      BY <1>9, <2>1, <3>2, <3>3 DEF IInv, IngestOK, op, m
  <2>2. ASSUME Stored(m), op.pc = "d_unlist" PROVE FALSE
    BY <2>2 DEF IInv, BodyOK, Unlinked, Stored, op, m
  <2> QED
    BY <2>1, <2>2
<1>16. op.pc # "m_unlist" /\ op.pc # "m_undo_insert" /\ Stored(m) => L \subseteq store'[m].listed
  BY <1>4, <1>15
<1>17. \A x \in Messages : Stored(x)' => Stored(x) \/ (op.pc = "i_mailbox" /\ x = m)
  BY StoredStep DEF op, m
<1>18. SpareOK'
  <2> SUFFICES ASSUME NEW p \in Ops, MayUndo(ops[p])', Stored(ops[p].msg)'
               PROVE  \E r \in store'[ops'[p].msg].listed : r # ops'[p].new
    BY DEF SpareOK
  <2>1. PICK x \in Messages : x = ops'[p].msg
    BY DEF IInv, TypeOK, OpType
  <2>2. Stored(x)'
    BY <2>1 DEF Stored
  <2>3. Stored(x) \/ (op.pc = "i_mailbox" /\ x = m)
    BY <1>17, <2>2
  <2>4. CASE p # o
    <3>1. ops'[p] = ops[p] /\ MayUndo(ops[p])
      BY <1>1, <1>3, <2>4 DEF MayUndo
    <3>2. ops[p].move /\ ops[p].new.at # 0
      BY <3>1 DEF ListedInv, ClockOK, MayUndo, MovePCs
    <3>3. Stored(x) => \E r \in store[x].listed : r # ops[p].new
      BY <2>1, <3>1 DEF ListedInv, SpareOK
    <3>4. CASE x # m
      BY <1>3, <2>1, <2>3, <3>1, <3>3, <3>4
    <3>5. CASE x = m /\ op.pc = "i_mailbox"
      <4>1. op.new.at = 0 /\ op.new \in store'[m].listed
        BY <1>4, <1>7, <1>9, <3>5
      <4> QED
        BY <2>1, <3>1, <3>2, <3>5, <4>1
    <3>6. CASE x = m /\ Stored(m)
      <4>1. CASE op.pc = "m_unlist"
        <5>1. op.new \in store'[m].listed /\ op.move
          BY <1>4, <1>7, <1>9, <1>14, <4>1
        <5>2. op.new.at # ops[p].new.at
          BY <2>4, <3>2, <5>1 DEF ListedInv, ClockOK, op
        <5> QED
          BY <2>1, <3>1, <3>6, <5>1, <5>2
      <4>2. op.pc # "m_undo_insert"
        <5>1. op.pc = "m_undo_insert" => faults # 0 /\ ops[p].pc \notin Undoing
          BY <2>4 DEF ListedInv, UndoOK, Undoing, op
        <5> QED
          BY <3>1, <5>1 DEF MayUndo, Undoing
      <4>3. CASE op.pc # "m_unlist"
        BY <1>16, <2>1, <3>1, <3>3, <3>6, <4>2, <4>3 DEF L
      <4> QED
        BY <4>1, <4>3
    <3> QED
      BY <2>3, <3>4, <3>5, <3>6
  <2>5. CASE p = o
    <3>1. n.pc \in {"m_folder", "m_unlist", "m_undo_folder", "m_undo_insert"}
          /\ (n.pc \in {"m_folder", "m_unlist"} => faults = 0)
      BY <1>3, <2>5 DEF MayUndo, n
    <3>2. pc = n.pc /\ n.msg = m /\ n.new = op.new /\ x = m
      BY <1>2, <2>1, <2>5, <3>1 DEF n, m
    <3>3. op.pc \in {"m_insert", "m_folder", "m_undo_unlist", "m_undo_folder"}
      BY <1>6, <3>1, <3>2
    <3>4. Stored(m) /\ L \subseteq store'[m].listed
      BY <1>16, <2>3, <3>2, <3>3
    <3>5. \E r \in store'[m].listed : r # op.new
      <4>1. CASE op.pc = "m_insert"
        <5>1. L # {}
          BY <1>0, <3>4 DEF ListedInv, StoredListed, L
        <5> QED
          BY <1>14, <3>4, <4>1, <5>1
      <4>2. CASE op.pc = "m_undo_unlist"
        BY <1>4, <1>14, <4>2, SMT
      <4>3. CASE op.pc \in {"m_folder", "m_undo_folder"}
        <5>1. MayUndo(op)
          BY <1>6, <3>1, <3>2, <4>3 DEF MayUndo
        <5> QED
          BY <3>4, <5>1 DEF ListedInv, SpareOK, op, m, L
      <4> QED
        BY <3>3, <4>1, <4>2, <4>3
    <3> QED
      BY <2>5, <3>2, <3>5 DEF n
  <2> QED
    BY <2>4, <2>5
<1>19. StoredListed'
  <2> SUFFICES ASSUME NEW x \in Messages, Stored(x)' PROVE store'[x].listed # {}
    BY DEF StoredListed
  <2>1. Stored(x) \/ (op.pc = "i_mailbox" /\ x = m)
    BY <1>17
  <2>2. CASE x # m
    BY <1>3, <2>1, <2>2 DEF ListedInv, StoredListed
  <2>3. CASE x = m /\ op.pc = "i_mailbox"
    BY <1>4, <2>3
  <2>4. CASE x = m /\ Stored(m)
    <3>1. CASE op.pc = "m_unlist"
      BY <1>4, <1>14, <2>4, <3>1
    <3>2. CASE op.pc = "m_undo_insert"
      <4>1. \E r \in L : r # op.new
        BY <2>4, <3>2 DEF ListedInv, SpareOK, MayUndo, op, m, L
      <4> QED
        BY <1>4, <2>4, <3>2, <4>1
    <3>3. CASE op.pc \notin {"m_unlist", "m_undo_insert"}
      BY <1>0, <1>16, <2>4, <3>3 DEF ListedInv, StoredListed, L
    <3> QED
      BY <3>1, <3>2, <3>3
  <2> QED
    BY <2>1, <2>2, <2>3, <2>4
<1> QED
  BY <1>11, <1>12, <1>13, <1>18, <1>19 DEF ListedInv

\* Every step keeps both invariants.
LEMMA NextListed == CleanFaults /\ IInv /\ IInv' /\ ListedInv /\ [Next]_vars => ListedInv'
<1> SUFFICES ASSUME CleanFaults, IInv, IInv', ListedInv, [Next]_vars PROVE ListedInv'
  OBVIOUS
<1>1. ASSUME NEW o \in Actors, NEW m \in Messages,
             BeginIngest(o, m) \/ BeginPatch(o, m) \/ BeginDelete(o, m) \/ BeginPermanent(o, m)
      PROVE  ListedInv'
  BY <1>1, RequestsListed
<1>2. ASSUME NEW o \in Ops, Step(o) \/ StatementFails(o) \/ Crash(o)
      PROVE  ListedInv'
  BY <1>2, GetManifestListed, GetLifecycleListed, StatementListed, FailsListed, CrashListed DEF Step
<1>3. CASE BeginSweep
  BY <1>3, ElapseListed DEF BeginSweep
<1>4. CASE SweepNext
  BY <1>4, SweepNextListed
<1>5. ASSUME NEW m \in Messages, RetentionElapses(m)
      PROVE  ListedInv'
  <2> DEFINE t == [store[m] EXCEPT !.aged = TRUE]
  <2>1. /\ t.manifest = store[m].manifest /\ t.listed = store[m].listed /\ t.life = store[m].life
    BY ZenonT(30) DEF IInv, TypeOK, StoreType
  <2>2. store' = [store EXCEPT ![m] = t] /\ UNCHANGED <<ingest, ops, moves, faults>>
    BY <1>5 DEF RetentionElapses
  <2> HIDE DEF t
  <2>3. \A x \in Messages : /\ store'[x].manifest = store[x].manifest
                            /\ store'[x].listed = store[x].listed
                            /\ store'[x].life = store[x].life
    BY <2>1, <2>2 DEF IInv, TypeOK
  <2> QED
    BY <2>2, <2>3, ElapseListed
<1>6. CASE UNCHANGED vars
  BY <1>6, ElapseListed DEF vars
<1> QED
  BY <1>1, <1>2, <1>3, <1>4, <1>5, <1>6 DEF Next

(* As long as at most one statement fails, or one process stops, and an    *)
(* error means that nothing was written, an accepted message that has its  *)
(* manifest is listed in some folder at every moment, for any number of    *)
(* messages, concurrent moves, deletions and sweeps: MoveMessage writes    *)
(* the new row before it removes the old one and its undo puts that back.  *)
THEOREM AcceptedIsListed == ASSUME CleanFaults PROVE Spec => []NeverUnlisted
<1>1. IInv /\ IInv' /\ ListedInv /\ [Next]_vars => ListedInv'
  BY NextListed
<1>2. ListedInv => NeverUnlisted
  BY DEF ListedInv, StoredListed, Stored, NeverUnlisted
<1> QED
  BY <1>1, <1>2, InitListed, Invariance, PTL DEF Spec

-----------------------------------------------------------------------------
(***************************************************************************)
(* One request at a time.  When requests do not overlap and at most one    *)
(* write is refused, a finished request leaves listing, manifest and       *)
(* lifecycle row in agreement, and a finished deletion leaves nothing.     *)
(* The invariant follows the message that is being worked on, statement by *)
(* statement; every other message is in order.                             *)
(***************************************************************************)
OneByOne ==
  /\ \A a, b \in Actors : a = b
  /\ Retained = {} /\ FaultKinds \subseteq {"refused"} /\ MaxFaults <= 1

\* A message without a lifecycle row, whose ingest failed, may be listed where it arrived.
InOrder(s) ==
  s.manifest = "whole" =>
    \/ s.listed = s.life /\ \E r \in s.life : r.folder = s.folder
    \/ s.life = {} /\ s.listed \subseteq {ArrivalRow(s.folder)}

\* What the stores hold of a message just before a program's next statement.
Arrived == {"i_flags", "i_optin", "i_ledger", "i_retention", "i_life", "i_undo_optin",
            "i_undo_manifest", "i_undo_mailbox"}

IngestFits(s, op) ==
  /\ op.pc \in Arriving \cup Arrived \cup {"i_mailbox"} => s.life = {}
  /\ op.pc \in Arriving => s.manifest = "none"
  /\ op.pc \in Arriving \cup {"i_mailbox"} => s.listed = {}
  /\ op.pc \in Arrived => s.listed = {op.new}
  /\ op.pc \in Arrived \cup {"i_mailbox"} => s.folder = op.new.folder
  /\ op.pc \in {"i_mailbox"} \cup (Arrived \ {"i_undo_mailbox"}) => s.manifest = "whole"
  /\ op.pc = "i_undo_mailbox" => s.manifest = "none"
  /\ op.pc = "i_undo_put" => InOrder(s)

MoveFits(s, op) ==
  /\ op.pc \in MovePCs \ {"m_manifest"} => s.manifest = "whole"
  /\ op.pc \in {"m_manifest", "m_life", "m_flags"} => InOrder(s)
  /\ op.pc = "m_life" => op.old = ArrivalRow(s.folder)
  /\ op.pc \in Inserted \cup {"m_insert"} =>
       s.life = {op.old} \/ (s.life = {} /\ op.old.at = 0)
  /\ op.pc = "m_insert" => s.listed \subseteq {op.old} /\ s.life \subseteq s.listed
  /\ op.pc \in {"m_folder", "m_unlist", "m_undo_folder", "m_undo_insert"} =>
       s.listed \subseteq {op.old, op.new} /\ s.life \cup {op.new} \subseteq s.listed
  /\ op.pc \in {"m_upsert", "m_undo_unlist"} => s.listed = {op.new}
  /\ op.pc \in {"m_insert", "m_folder", "m_undo_insert"} => s.folder = op.old.folder
  /\ op.pc \in {"m_unlist", "m_upsert", "m_undo_unlist", "m_undo_folder"} =>
       s.folder = op.new.folder

DeleteFits(s, op) ==
  /\ op.pc \in {"h_manifest", "d_manifest", "d_life", "d_delete"} => InOrder(s)
  /\ op.pc \in {"d_life", "d_delete"} => s.manifest = "whole"
  /\ op.pc = "d_life" => op.old = ArrivalRow(s.folder)
  /\ op.pc \in {"d_delete", "d_unlist"} => s.listed \subseteq {op.old}
  /\ op.pc \in Unlinked => s.manifest = "none"
  /\ op.pc \in Unlinked \ {"d_unlist"} => s.listed = {}
  /\ op.pc \in {"d_optin", "d_lifecycle", "d_body"} => ~s.flags
  /\ op.pc \in {"d_lifecycle", "d_body"} => ~s.optin
  /\ op.pc = "d_body" => s.life = {}

ReadFits(s, op) ==
  /\ op.pc \in ReadPCs => InOrder(s)
  /\ op.pc \in ReadPCs \ {"r_manifest"} => s.manifest = "whole"

Fits(s, op) == IngestFits(s, op) /\ MoveFits(s, op) /\ DeleteFits(s, op) /\ ReadFits(s, op)

AloneInv ==
  /\ batch = {} /\ Idle(Sweeper)
  /\ \A m \in Messages : /\ ~store[m].aged /\ store[m].manifest # "ghost"
                         /\ Quiet(m) => InOrder(store[m])
                         /\ ingest[m] = "acked" /\ store[m].manifest = "whole" => store[m].life # {}
                         /\ ingest[m] = "new" =>
                              /\ Quiet(m) /\ store[m].manifest = "none"
                              /\ store[m].listed = {} /\ store[m].life = {}
  /\ \A m \in deleted : Gone(m) /\ Quiet(m) /\ ingest[m] # "new"
  /\ \A o \in Ops : ~Idle(o) => Fits(store[ops[o].msg], ops[o])

-----------------------------------------------------------------------------
(* AloneInv *)

\* At the start there is nothing.
LEMMA InitAlone == Init => AloneInv
<1> SUFFICES ASSUME Init PROVE AloneInv
  OBVIOUS
<1>1. \A o \in Ops : Idle(o)
  BY DEF Init, IdleOp, Op, Idle
<1>2. \A m \in Messages : /\ ~store[m].aged /\ store[m].manifest = "none"
                          /\ store[m].listed = {} /\ store[m].life = {}
  BY DEF Init, NoMessage
<1>3. Sweeper \in Ops /\ batch = {} /\ deleted = {}
  BY DEF Init, Ops
<1> QED
  BY <1>1, <1>2, <1>3 DEF AloneInv, Quiet, InOrder

\* A step of the one actor that is at work, on the message m.
LEMMA AloneStep ==
  ASSUME OneByOne, IInv, IInv', AloneInv, NEW o \in Actors, NEW m \in Messages, NEW n, NEW t,
         ops' = [ops EXCEPT ![o] = n], store' = [store EXCEPT ![m] = t], batch' = batch,
         Idle(o) \/ ops[o].msg = m,
         n.pc = "idle" => InOrder(t),
         n.pc # "idle" => n.msg = m /\ Fits(t, n),
         ~t.aged, t.manifest # "ghost",
         \A x \in Messages : x # m => ingest'[x] = ingest[x],
         ingest'[m] # "new",
         ingest'[m] = "acked" /\ t.manifest = "whole" => t.life # {},
         deleted' \subseteq deleted \cup {m},
         m \in deleted' =>
           n.pc = "idle" /\ t = [NoMessage EXCEPT !.ledger = t.ledger, !.folder = t.folder]
  PROVE  AloneInv'
<1>1. /\ ops'[o] = n /\ \A p \in Ops : p # o => ops'[p] = ops[p]
      /\ store'[m] = t /\ \A x \in Messages : x # m => store'[x] = store[x]
      /\ o \in Ops /\ o # Sweeper /\ Sweeper \in Ops
  BY SweeperAssumption DEF IInv, TypeOK, Ops
<1>2. \A p \in Ops : p # o => ops[p].pc = "idle"
  BY DEF AloneInv, Idle, OneByOne, Ops
<1>3. \A x \in Messages : x # m => Quiet(x)
  BY <1>1, <1>2 DEF Quiet, Idle
<1>4. \A x \in Messages : x # m => Quiet(x)'
  BY <1>1, <1>2, SMT DEF Quiet, Idle
<1>5. Quiet(m)' <=> n.pc = "idle"
  BY <1>1, <1>2, ZenonT(30) DEF Quiet, Idle
<1>6. batch' = {} /\ Idle(Sweeper)'
  BY <1>1 DEF AloneInv, Idle
<1>7. \A x \in Messages :
        /\ ~store'[x].aged /\ store'[x].manifest # "ghost"
        /\ Quiet(x)' => InOrder(store'[x])
        /\ ingest'[x] = "acked" /\ store'[x].manifest = "whole" => store'[x].life # {}
        /\ ingest'[x] = "new" => /\ Quiet(x)' /\ store'[x].manifest = "none"
                                 /\ store'[x].listed = {} /\ store'[x].life = {}
  BY <1>1, <1>3, <1>4, <1>5, SMT DEF AloneInv
<1>8. \A x \in deleted' : Gone(x)' /\ Quiet(x)' /\ ingest'[x] # "new"
  <2> SUFFICES ASSUME NEW x \in deleted' PROVE Gone(x)' /\ Quiet(x)' /\ ingest'[x] # "new"
    OBVIOUS
  <2>1. x \in Messages
    BY DEF IInv, TypeOK
  <2>2. CASE x = m
    BY <1>1, <1>5, <2>2 DEF Gone
  <2>3. CASE x # m
    <3>1. x \in deleted
      BY <2>3
    <3> QED
      BY <1>1, <1>4, <2>1, <2>3, <3>1, ZenonT(30) DEF AloneInv, Gone
  <2> QED
    BY <2>2, <2>3
<1>9. \A p \in Ops : ops'[p].pc # "idle" => Fits(store'[ops'[p].msg], ops'[p])
  BY <1>1, <1>2, SMT
<1> QED
  BY <1>6, <1>7, <1>8, <1>9 DEF AloneInv, Idle

\* A row is the arrival row of its folder when its time is the arrival.
LEMMA ArrivalRows == \A r \in Rows : r.at = 0 => r = ArrivalRow(r.folder)
BY SMT DEF Rows, ArrivalRow

\* The statements of persist and of its undo, one after the other.
LEMMA IngestEffectFits ==
  ASSUME NEW s \in StoreType, NEW op \in OpType, NEW n \in OpType,
         op.pc \in IngestPCs, IngestFits(s, op), op.new.at = 0,
         ~s.aged, s.manifest # "ghost",
         n.pc = AfterOk(op), n.pc # "idle" => n.old = op.old /\ n.new = op.new
  PROVE  LET t == Effect(s, op)
         IN  /\ ~t.aged /\ t.manifest # "ghost"
             /\ n.pc = "idle" => InOrder(t)
             /\ n.pc # "idle" => Fits(t, n)
             /\ op.pc = "i_life" => t.life # {}
<1> DEFINE t == Effect(s, op)
<1>0. op.new = ArrivalRow(op.new.folder)
  BY ArrivalRows DEF OpType
<1>2. n.pc = PersistOk[op.pc]
  BY DEF AfterOk, AfterMove, AfterHeader, PersistOk, DeleteOk, MoveOk, IngestPCs
<1>3. n.pc \in IngestPCs \cup {"idle"}
  BY <1>2, SMT DEF PersistOk, IngestPCs
<1>4. n.pc # "idle" /\ IngestFits(t, n) => Fits(t, n)
  BY <1>3 DEF Fits, MoveFits, DeleteFits, ReadFits, IngestPCs, MovePCs, DeletePCs, ReadPCs,
     Inserted, Unlinked
<1>5. CASE op.pc = "i_put"
  <2>1. t = [s EXCEPT !.body = TRUE] /\ n.pc = "i_manifest"
    BY <1>2, <1>5, SMT DEF Effect, PutBody, PersistOk
  <2>2. t.manifest = s.manifest /\ t.listed = s.listed /\ t.life = s.life /\ t.aged = s.aged
    BY <2>1 DEF StoreType
  <2> HIDE DEF t
  <2> QED
    BY <1>4, <1>5, <2>1, <2>2 DEF IngestFits, Arriving, Arrived, t
<1>6. CASE op.pc = "i_manifest"
  <2>1. t = [s EXCEPT !.manifest = "whole", !.folder = op.new.folder] /\ n.pc = "i_mailbox"
    BY <1>2, <1>6, SMT DEF Effect, InsertManifestRow, PersistOk
  <2>2. /\ t.manifest = "whole" /\ t.folder = op.new.folder
        /\ t.listed = s.listed /\ t.life = s.life /\ t.aged = s.aged
    BY <2>1 DEF StoreType
  <2> HIDE DEF t
  <2> QED
    BY <1>4, <1>6, <2>1, <2>2 DEF IngestFits, Arriving, Arrived, t
<1>7. CASE op.pc = "i_mailbox"
  <2>1. t = [s EXCEPT !.listed = s.listed \cup {op.new}] /\ n.pc = "i_flags"
    BY <1>2, <1>7, SMT DEF Effect, InsertMailboxRow, PersistOk
  <2>2. /\ t.listed = s.listed \cup {op.new} /\ t.manifest = s.manifest
        /\ t.folder = s.folder /\ t.life = s.life /\ t.aged = s.aged
    BY <2>1 DEF StoreType
  <2> HIDE DEF t
  <2> QED
    BY <1>4, <1>7, <2>1, <2>2 DEF IngestFits, Arriving, Arrived, t
<1>8. CASE op.pc \in {"i_flags", "i_optin", "i_ledger", "i_retention", "i_undo_optin"}
  <2>1. /\ t.manifest = s.manifest /\ t.listed = s.listed /\ t.life = s.life /\ t.aged = s.aged
        /\ t.folder = s.folder
    BY <1>8 DEF Effect, SetFlags, SetOptInMetadata, AppendIngestLedger, DeleteOptInMetadata,
       StoreType
  <2>2. n.pc \in {"i_optin", "i_ledger", "i_retention", "i_life", "i_undo_manifest"}
    BY <1>2, <1>8, SMT DEF PersistOk
  <2> HIDE DEF t
  <2> QED
    BY <1>4, <1>8, <2>1, <2>2, SMTT(30) DEF IngestFits, Arriving, Arrived, t
<1>9. CASE op.pc = "i_life"
  <2>1. t = [s EXCEPT !.life = {op.new}, !.aged = FALSE] /\ n.pc = "idle"
    BY <1>2, <1>9, SMT DEF Effect, UpsertMessageLifecycle, PersistOk
  <2>2. /\ t.life = {op.new} /\ t.aged = FALSE /\ t.manifest = s.manifest
        /\ t.listed = s.listed /\ t.folder = s.folder
    BY <2>1 DEF StoreType
  <2> HIDE DEF t
  <2> QED
    BY <1>9, <2>1, <2>2 DEF IngestFits, Arriving, Arrived, InOrder, t
<1>10. CASE op.pc = "i_undo_manifest"
  <2>1. t = [s EXCEPT !.manifest = "none"] /\ n.pc = "i_undo_mailbox"
    BY <1>2, <1>10, SMT DEF Effect, DeleteManifestRow, PersistOk
  <2>2. /\ t.manifest = "none" /\ t.listed = s.listed /\ t.life = s.life /\ t.aged = s.aged
        /\ t.folder = s.folder
    BY <2>1 DEF StoreType
  <2> HIDE DEF t
  <2> QED
    BY <1>4, <1>10, <2>1, <2>2 DEF IngestFits, Arriving, Arrived, t
<1>11. CASE op.pc = "i_undo_mailbox"
  <2>1. t = [s EXCEPT !.listed = s.listed \ {op.new}] /\ n.pc = "i_undo_put"
    BY <1>2, <1>11, SMT DEF Effect, DeleteMailboxRow, PersistOk
  <2>2. t.manifest = s.manifest /\ t.aged = s.aged
    BY <2>1 DEF StoreType
  <2> HIDE DEF t
  <2> QED
    BY <1>4, <1>11, <2>1, <2>2 DEF IngestFits, Arriving, Arrived, InOrder, t
<1>12. CASE op.pc = "i_undo_put"
  <2>1. t = [s EXCEPT !.body = FALSE] /\ n.pc = "idle"
    BY <1>2, <1>12, SMT DEF Effect, DeleteBody, PersistOk
  <2>2. /\ t.manifest = s.manifest /\ t.listed = s.listed /\ t.life = s.life /\ t.aged = s.aged
        /\ t.folder = s.folder
    BY <2>1 DEF StoreType
  <2> HIDE DEF t
  <2> QED
    BY <1>12, <2>1, <2>2 DEF IngestFits, InOrder, t
<1> QED
  BY <1>5, <1>6, <1>7, <1>8, <1>9, <1>10, <1>11, <1>12 DEF IngestPCs

\* The statements of MoveMessage and of its undo, one after the other.
LEMMA MoveEffectFits ==
  ASSUME NEW s \in StoreType, NEW op \in OpType, NEW n \in OpType,
         op.pc \in MovePCs \ Reads, MoveFits(s, op),
         op.pc \in Inserted \cup {"m_insert"} => op.old # op.new,
         ~s.aged, n.pc = AfterOk(op), n.pc # "idle" => n.old = op.old /\ n.new = op.new
  PROVE  LET t == Effect(s, op)
         IN  /\ ~t.aged /\ t.manifest = "whole"
             /\ n.pc = "idle" => InOrder(t)
             /\ n.pc # "idle" => Fits(t, n)
             /\ s.life # {} => t.life # {}
<1> DEFINE t == Effect(s, op)
<1>1. s.manifest = "whole" /\ op.old \in Rows
  BY DEF MoveFits, Reads, OpType
<1>2. n.pc \in MovePCs \cup {"r_flags"} /\ MoveFits(t, n) /\ ReadFits(t, n) => Fits(t, n)
  BY DEF Fits, IngestFits, DeleteFits, IngestPCs, MovePCs, DeletePCs, Arriving, Arrived, Unlinked
<1>3. n.pc \in MovePCs => ReadFits(t, n)
  BY DEF ReadFits, MovePCs, ReadPCs
<1>4. n.pc = "r_flags" => MoveFits(t, n)
  BY DEF MoveFits, MovePCs, Inserted
<1>5. CASE op.pc = "m_insert"
  <2>1. t = [s EXCEPT !.listed = s.listed \cup {op.new}] /\ n.pc = "m_folder"
    BY <1>5, SMT DEF Effect, InsertMailboxRow, AfterOk, PersistOk, DeleteOk, MoveOk
  <2>2. /\ t.listed = s.listed \cup {op.new} /\ t.manifest = s.manifest
        /\ t.folder = s.folder /\ t.life = s.life /\ t.aged = s.aged
    BY <2>1 DEF StoreType
  <2> HIDE DEF t
  <2>3. MoveFits(t, n)
    BY <1>1, <1>5, <2>1, <2>2, SMTT(30) DEF MoveFits, MovePCs, Inserted
  <2> QED
    BY <1>1, <1>2, <1>3, <2>1, <2>2, <2>3 DEF MovePCs, t
<1>6. CASE op.pc \in {"m_folder", "m_undo_folder"}
  <2> DEFINE f == IF op.pc = "m_folder" THEN op.new.folder ELSE op.old.folder
  <2>1. /\ t = UpdateManifestFolder(s, f)
        /\ n.pc = IF op.pc = "m_folder" THEN "m_unlist" ELSE "m_undo_insert"
    BY <1>6, SMT DEF Effect, AfterOk, PersistOk, DeleteOk, MoveOk
  <2>2. /\ t.folder = f /\ t.manifest = "whole"
        /\ t.listed = s.listed /\ t.life = s.life /\ t.aged = s.aged
    BY <1>1, <2>1, SMTT(30) DEF StoreType, UpdateManifestFolder, UpdateManifest
  <2> HIDE DEF t
  <2>3. MoveFits(t, n)
    BY <1>1, <1>6, <2>1, <2>2 DEF MoveFits, MovePCs, Inserted
  <2> QED
    BY <1>1, <1>2, <1>3, <1>6, <2>1, <2>2, <2>3, SMTT(30) DEF MovePCs, t
<1>7. CASE op.pc = "m_unlist"
  <2>1. t = [s EXCEPT !.listed = s.listed \ {op.old}] /\ n.pc = "m_upsert"
    BY <1>7, SMT DEF Effect, DeleteMailboxRow, AfterOk, PersistOk, DeleteOk, MoveOk
  <2>2. /\ t.listed = s.listed \ {op.old} /\ t.manifest = s.manifest
        /\ t.folder = s.folder /\ t.life = s.life /\ t.aged = s.aged
    BY <2>1 DEF StoreType
  <2> HIDE DEF t
  <2>3. t.listed = {op.new}
    BY <1>7, <2>2 DEF MoveFits, Inserted
  <2>4. MoveFits(t, n)
    BY <1>1, <1>7, <2>1, <2>2, <2>3 DEF MoveFits, MovePCs, Inserted
  <2> QED
    BY <1>1, <1>2, <1>3, <2>1, <2>2, <2>4, SMTT(30) DEF MovePCs, t
<1>8. CASE op.pc = "m_upsert"
  <2>1. t = [s EXCEPT !.life = {op.new}, !.aged = FALSE] /\ n.pc = "m_flags"
    BY <1>8, SMT DEF Effect, UpsertMessageLifecycle, AfterOk, PersistOk, DeleteOk, MoveOk
  <2>2. /\ t.life = {op.new} /\ t.aged = FALSE /\ t.manifest = s.manifest
        /\ t.listed = s.listed /\ t.folder = s.folder
    BY <2>1 DEF StoreType
  <2> HIDE DEF t
  <2>3. InOrder(t)
    BY <1>8, <2>2 DEF MoveFits, InOrder
  <2>4. MoveFits(t, n)
    BY <1>1, <2>1, <2>2, <2>3 DEF MoveFits, Inserted
  <2> QED
    BY <1>1, <1>2, <1>3, <2>1, <2>2, <2>4 DEF MovePCs, t
<1>9. CASE op.pc = "m_flags"
  <2>1. t = [s EXCEPT !.flags = TRUE] /\ n.pc \in {"r_flags", "idle"}
    BY <1>9, MoveOkFacts DEF Effect, SetFlags
  <2>2. /\ t.manifest = s.manifest /\ t.listed = s.listed /\ t.life = s.life /\ t.aged = s.aged
        /\ t.folder = s.folder
    BY <2>1 DEF StoreType
  <2> HIDE DEF t
  <2>3. InOrder(t)
    BY <1>9, <2>2 DEF MoveFits, InOrder
  <2>4. ReadFits(t, n)
    BY <1>1, <2>2, <2>3 DEF ReadFits
  <2> QED
    BY <1>1, <1>2, <1>4, <2>1, <2>2, <2>3, <2>4 DEF t
<1>10. CASE op.pc = "m_undo_unlist"
  <2>1. t = [s EXCEPT !.listed = s.listed \cup {op.old}] /\ n.pc = "m_undo_folder"
    BY <1>10, SMT DEF Effect, InsertMailboxRow, AfterOk, PersistOk, DeleteOk, MoveOk
  <2>2. /\ t.listed = s.listed \cup {op.old} /\ t.manifest = s.manifest
        /\ t.folder = s.folder /\ t.life = s.life /\ t.aged = s.aged
    BY <2>1 DEF StoreType
  <2> HIDE DEF t
  <2>3. MoveFits(t, n)
    BY <1>1, <1>10, <2>1, <2>2 DEF MoveFits, MovePCs, Inserted
  <2> QED
    BY <1>1, <1>2, <1>3, <2>1, <2>2, <2>3, SMTT(30) DEF MovePCs, t
<1>11. CASE op.pc = "m_undo_insert"
  <2>1. t = [s EXCEPT !.listed = s.listed \ {op.new}] /\ n.pc = "idle"
    BY <1>11, SMT DEF Effect, DeleteMailboxRow, AfterOk, PersistOk, DeleteOk, MoveOk
  <2>2. /\ t.listed = s.listed \ {op.new} /\ t.manifest = s.manifest
        /\ t.folder = s.folder /\ t.life = s.life /\ t.aged = s.aged
    BY <2>1 DEF StoreType
  <2> HIDE DEF t
  <2>3. /\ t.life = {op.old} \/ (t.life = {} /\ op.old.at = 0)
        /\ t.folder = op.old.folder /\ t.listed \subseteq {op.old} /\ t.life \subseteq t.listed
    BY <1>11, <2>2 DEF MoveFits, Inserted
  <2>4. InOrder(t)
    BY <1>1, <2>3, ArrivalRows DEF InOrder
  <2> QED
    BY <1>1, <2>1, <2>2, <2>4 DEF t
<1> QED
  BY <1>5, <1>6, <1>7, <1>8, <1>9, <1>10, <1>11, SMTT(30) DEF MovePCs, Reads

\* Two messages with the same rows are the same.
LEMMA SameMessage ==
  ASSUME NEW a \in StoreType, NEW b \in StoreType,
         a.body = b.body, a.manifest = b.manifest, a.folder = b.folder, a.listed = b.listed,
         a.flags = b.flags, a.optin = b.optin, a.ledger = b.ledger, a.life = b.life,
         a.aged = b.aged
  PROVE  a = b
BY SMT DEF StoreType

\* The statements of DeletePermanent, one after the other; what is left in the end.
LEMMA DeleteEffectFits ==
  ASSUME NEW s \in StoreType, NEW op \in OpType, NEW n \in OpType,
         op.pc \in DeletePCs \ Reads, DeleteFits(s, op),
         ~s.aged, n.pc = AfterOk(op), n.pc # "idle" => n.old = op.old /\ n.new = op.new
  PROVE  LET t == Effect(s, op)
         IN  /\ ~t.aged /\ t.manifest = "none"
             /\ n.pc = "idle" <=> op.pc = "d_body"
             /\ n.pc = "idle" => t = [NoMessage EXCEPT !.ledger = t.ledger, !.folder = t.folder]
             /\ n.pc # "idle" => Fits(t, n)
<1> DEFINE t == Effect(s, op)
<1>1. n.pc = DeleteOk[op.pc]
  BY DEF AfterOk, AfterMove, AfterHeader, PersistOk, DeleteOk, MoveOk, DeletePCs, Reads
<1>2. n.pc \in Unlinked /\ DeleteFits(t, n) => Fits(t, n)
  BY DEF Fits, IngestFits, MoveFits, ReadFits, IngestPCs, MovePCs, DeletePCs, ReadPCs, Arriving,
     Arrived, Unlinked, Inserted
<1>3. CASE op.pc = "d_delete"
  <2>1. t = [s EXCEPT !.manifest = "none"] /\ n.pc = "d_unlist"
    BY <1>1, <1>3, SMT DEF Effect, DeleteManifestRow, DeleteOk
  <2>2. t.manifest = "none" /\ t.listed = s.listed /\ t.aged = s.aged
    BY <2>1 DEF StoreType
  <2> HIDE DEF t
  <2> QED
    BY <1>2, <1>3, <2>1, <2>2 DEF DeleteFits, Unlinked, t
<1>4. CASE op.pc = "d_unlist"
  <2>1. t = [s EXCEPT !.listed = s.listed \ {op.old}] /\ n.pc = "d_flags"
    BY <1>1, <1>4, SMT DEF Effect, DeleteMailboxRow, DeleteOk
  <2>2. t.manifest = s.manifest /\ t.listed = s.listed \ {op.old} /\ t.aged = s.aged
    BY <2>1 DEF StoreType
  <2> HIDE DEF t
  <2> QED
    BY <1>2, <1>4, <2>1, <2>2 DEF DeleteFits, Unlinked, t
<1>5. CASE op.pc = "d_flags"
  <2>1. t = [s EXCEPT !.flags = FALSE] /\ n.pc = "d_optin"
    BY <1>1, <1>5, SMT DEF Effect, DeleteFlags, DeleteOk
  <2>2. t.manifest = s.manifest /\ t.listed = s.listed /\ t.flags = FALSE /\ t.aged = s.aged
    BY <2>1 DEF StoreType
  <2> HIDE DEF t
  <2> QED
    BY <1>2, <1>5, <2>1, <2>2 DEF DeleteFits, Unlinked, t
<1>6. CASE op.pc = "d_optin"
  <2>1. t = [s EXCEPT !.optin = FALSE] /\ n.pc = "d_lifecycle"
    BY <1>1, <1>6, SMT DEF Effect, DeleteOptInMetadata, DeleteOk
  <2>2. /\ t.manifest = s.manifest /\ t.listed = s.listed /\ t.flags = s.flags
        /\ t.optin = FALSE /\ t.aged = s.aged
    BY <2>1 DEF StoreType
  <2> HIDE DEF t
  <2> QED
    BY <1>2, <1>6, <2>1, <2>2 DEF DeleteFits, Unlinked, t
<1>7. CASE op.pc = "d_lifecycle"
  <2>1. t = [s EXCEPT !.life = {}, !.aged = FALSE] /\ n.pc = "d_body"
    BY <1>1, <1>7, SMT DEF Effect, DeleteMessageLifecycle, DeleteOk
  <2>2. /\ t.manifest = s.manifest /\ t.listed = s.listed /\ t.flags = s.flags
        /\ t.optin = s.optin /\ t.life = {} /\ t.aged = FALSE
    BY <2>1 DEF StoreType
  <2> HIDE DEF t
  <2> QED
    BY <1>2, <1>7, <2>1, <2>2 DEF DeleteFits, Unlinked, t
<1>8. CASE op.pc = "d_body"
  <2>1. t = [s EXCEPT !.body = FALSE] /\ n.pc = "idle"
    BY <1>1, <1>8, SMT DEF Effect, DeleteBody, DeleteOk
  <2>2. /\ s.manifest = "none" /\ s.listed = {} /\ s.flags = FALSE /\ s.optin = FALSE
        /\ s.life = {} /\ s.aged = FALSE
    BY <1>8 DEF DeleteFits, Unlinked, StoreType
  <2>3. t = [NoMessage EXCEPT !.ledger = s.ledger, !.folder = s.folder]
    <3> DEFINE g == [NoMessage EXCEPT !.ledger = s.ledger, !.folder = s.folder]
    <3>1. NoMessage \in StoreType
      BY DEF NoMessage, StoreType, Folders, StandardFolders
    <3>2. g \in StoreType /\ t \in StoreType
      BY <2>1, <3>1 DEF StoreType
    <3>3. /\ g.body = FALSE /\ g.manifest = "none" /\ g.folder = s.folder /\ g.listed = {}
          /\ g.flags = FALSE /\ g.optin = FALSE /\ g.ledger = s.ledger /\ g.life = {}
          /\ g.aged = FALSE
      BY DEF NoMessage
    <3>4. /\ t.body = FALSE /\ t.manifest = "none" /\ t.folder = s.folder /\ t.listed = {}
          /\ t.flags = FALSE /\ t.optin = FALSE /\ t.ledger = s.ledger /\ t.life = {}
          /\ t.aged = FALSE
      BY <2>1, <2>2 DEF StoreType
    <3> HIDE DEF g, t
    <3>5. g = t
      BY <3>2, <3>3, <3>4, SameMessage, ZenonT(30)
    <3> QED
      BY <3>5 DEF g
  <2>4. t.ledger = s.ledger /\ t.folder = s.folder /\ t.manifest = "none" /\ ~t.aged
    BY <2>1, <2>2 DEF StoreType
  <2> HIDE DEF t
  <2> QED
    BY <1>8, <2>1, <2>3, <2>4 DEF t
<1> QED
  BY <1>3, <1>4, <1>5, <1>6, <1>7, <1>8 DEF DeletePCs, Reads

\* The two writes of PATCH.
LEMMA ReadEffectFits ==
  ASSUME NEW s \in StoreType, NEW op \in OpType, NEW n \in OpType,
         op.pc \in ReadPCs \ Reads, ReadFits(s, op),
         ~s.aged, n.pc = AfterOk(op), n.pc # "idle" => n.old = op.old /\ n.new = op.new
  PROVE  LET t == Effect(s, op)
         IN  /\ ~t.aged /\ t.manifest = "whole"
             /\ n.pc = "idle" => InOrder(t)
             /\ n.pc # "idle" => Fits(t, n)
             /\ s.life # {} => t.life # {}
<1> DEFINE t == Effect(s, op)
<1>1. op.pc \in {"r_header", "r_flags"} /\ s.manifest = "whole" /\ InOrder(s)
  BY DEF ReadFits, ReadPCs, Reads
<1>2. /\ t.manifest = s.manifest /\ t.listed = s.listed /\ t.life = s.life /\ t.aged = s.aged
      /\ t.folder = s.folder
  BY <1>1 DEF Effect, SetFlags, UpdateManifest, StoreType
<1>3. n.pc \in {"m_manifest", "r_flags", "idle"}
  BY <1>1 DEF AfterOk, AfterHeader, PersistOk, DeleteOk, MoveOk
<1> HIDE DEF t
<1>4. InOrder(t)
  BY <1>1, <1>2 DEF InOrder
<1>5. n.pc # "idle" => Fits(t, n)
  BY <1>1, <1>2, <1>3, <1>4, SMTT(30) DEF Fits, IngestFits, MoveFits, DeleteFits, ReadFits,
     IngestPCs,
     MovePCs, DeletePCs, ReadPCs, Arriving, Arrived, Unlinked, Inserted
<1> QED
  BY <1>1, <1>2, <1>4, <1>5 DEF t

\* A write that succeeds.
LEMMA StatementAlone ==
  ASSUME OneByOne, IInv, IInv', ListedInv, AloneInv, NEW o \in Ops, Statement(o)
  PROVE  AloneInv'
<1> DEFINE op == ops[o]
           m  == op.msg
           s  == store[m]
           n  == At(op, AfterOk(op))
           t  == Effect(s, op)
<1>1. /\ op \in OpType /\ m \in Messages /\ s \in StoreType /\ AfterOk(op) \in PCs
      /\ op.pc \in PCs /\ op.old \in Rows /\ op.new \in Rows
  BY AfterOkType DEF IInv, TypeOK, OpType
<1>2. /\ op.pc # "idle" /\ op.pc \notin Reads
      /\ store' = [store EXCEPT ![m] = t] /\ ops' = [ops EXCEPT ![o] = n]
      /\ ingest' = IF op.pc \in {"i_life", "i_undo_put"}
                     THEN [ingest EXCEPT ![m] = IF op.pc = "i_life" THEN "acked" ELSE "failed"]
                     ELSE ingest
      /\ deleted' = IF op.pc = "d_body" THEN deleted \cup {m} ELSE deleted
      /\ batch' = batch
  BY DEF Statement, Goto, Begin
<1>3. o \in Actors
  BY <1>2 DEF AloneInv, Idle, Ops
<1>4. n \in OpType
  BY <1>2 DEF IInv, TypeOK
<1>5. n.pc = AfterOk(op) /\ (n.pc # "idle" => n.msg = m /\ n.new = op.new /\ n.old = op.old)
  <2> DEFINE pc == AfterOk(op)
  <2> HIDE DEF op, pc
  <2>1. LET u == At(op, pc)
        IN  /\ u.pc = pc
            /\ pc # "idle" => u.msg = op.msg /\ u.new = op.new /\ u.old = op.old
    <3>1. pc \in PCs
      BY <1>1 DEF pc
    <3> QED
      BY <1>1, <3>1, AtKeeps
  <2> QED
    BY <2>1 DEF pc
<1>6. Fits(s, op) /\ ~s.aged /\ s.manifest # "ghost"
  BY <1>1, <1>2 DEF AloneInv, Idle
<1>7. op.pc \in IngestPCs => op.new.at = 0 /\ ingest[m] = "running"
  BY DEF ListedInv, ClockOK, IInv, IngestOK
<1>8. op.pc \in Inserted \cup {"m_insert"} => op.old # op.new
  <2>1. op.pc \in Inserted \cup {"m_insert"} => Fresh(op)
    BY DEF ListedInv, ClockOK, Fresh, Inserted, MovePCs
  <2> QED
    BY <2>1 DEF ListedInv, OwnOK
<1>9. m \notin deleted /\ ingest[m] # "new"
  BY <1>1, <1>2 DEF AloneInv, Quiet, Idle
<1>10. ingest[m] = "acked" /\ s.manifest = "whole" => s.life # {}
  BY <1>1 DEF AloneInv
<1>11. /\ \A x \in Messages : x # m => ingest'[x] = ingest[x]
       /\ ingest'[m] # "new"
       /\ ingest'[m] = "acked" => op.pc = "i_life" \/ ingest[m] = "acked"
  BY <1>1, <1>2, <1>9 DEF IInv, TypeOK
<1> HIDE DEF op, m, s, n, t
<1>12. /\ ~t.aged /\ t.manifest # "ghost"
       /\ n.pc = "idle" => InOrder(t)
       /\ n.pc # "idle" => Fits(t, n)
       /\ ingest'[m] = "acked" /\ t.manifest = "whole" => t.life # {}
       /\ op.pc = "d_body" =>
            n.pc = "idle" /\ t = [NoMessage EXCEPT !.ledger = t.ledger, !.folder = t.folder]
  <2>1. CASE op.pc \in IngestPCs
    <3>1. /\ ~t.aged /\ t.manifest # "ghost"
          /\ n.pc = "idle" => InOrder(t)
          /\ n.pc # "idle" => Fits(t, n)
          /\ op.pc = "i_life" => t.life # {}
      BY <1>1, <1>4, <1>5, <1>6, <1>7, <2>1, IngestEffectFits DEF Fits, t
    <3> QED
      BY <1>7, <1>11, <2>1, <3>1 DEF IngestPCs
  <2>2. CASE op.pc \in MovePCs
    <3>1. /\ ~t.aged /\ t.manifest = "whole"
          /\ n.pc = "idle" => InOrder(t)
          /\ n.pc # "idle" => Fits(t, n)
          /\ s.life # {} => t.life # {}
      BY <1>1, <1>2, <1>4, <1>5, <1>6, <1>8, <2>2, MoveEffectFits, SMTT(30) DEF Fits, t
    <3>2. s.manifest = "whole" /\ op.pc \notin {"i_life", "d_body"}
      BY <1>2, <1>6, <2>2 DEF Fits, MoveFits, MovePCs, Reads
    <3> QED
      BY <1>10, <1>11, <3>1, <3>2, SMTT(30)
  <2>3. CASE op.pc \in DeletePCs
    <3>1. /\ ~t.aged /\ t.manifest = "none"
          /\ n.pc = "idle" <=> op.pc = "d_body"
          /\ n.pc = "idle" => t = [NoMessage EXCEPT !.ledger = t.ledger, !.folder = t.folder]
          /\ n.pc # "idle" => Fits(t, n)
      BY <1>1, <1>2, <1>4, <1>5, <1>6, <2>3, DeleteEffectFits, ZenonT(30) DEF Fits, t
    <3> QED
      BY <3>1, SMTT(30) DEF InOrder
  <2>4. CASE op.pc \in ReadPCs
    <3>1. /\ ~t.aged /\ t.manifest = "whole"
          /\ n.pc = "idle" => InOrder(t)
          /\ n.pc # "idle" => Fits(t, n)
          /\ s.life # {} => t.life # {}
      BY <1>1, <1>2, <1>4, <1>5, <1>6, <2>4, ReadEffectFits DEF Fits, t
    <3>2. s.manifest = "whole" /\ op.pc \notin {"i_life", "d_body"}
      BY <1>2, <1>6, <2>4 DEF Fits, ReadFits, ReadPCs, Reads
    <3> QED
      BY <1>10, <1>11, <3>1, <3>2
  <2> QED
    BY <1>1, <1>2, <2>1, <2>2, <2>3, <2>4 DEF PCs
<1>13. ops[o].msg = m
  BY DEF m, op
<1>14. deleted' \subseteq deleted \cup {m} /\ (m \in deleted' => op.pc = "d_body")
  BY <1>2, <1>9
<1> QED
  BY <1>1, <1>2, <1>3, <1>5, <1>11, <1>12, <1>13, <1>14, AloneStep, ZenonT(30)

\* A write that is refused: persist and MoveMessage begin their undo.
LEMMA RefusedFits ==
  ASSUME NEW s \in StoreType, NEW op \in OpType, NEW n \in OpType, Fits(s, op),
         op.pc \notin Reads \cup Undoing \cup {"idle"},
         op.pc \in IngestPCs => op.new.at = 0,
         n.pc = AfterErr(op), n.pc # "idle" => n.old = op.old /\ n.new = op.new
  PROVE  /\ n.pc = "idle" => InOrder(s)
         /\ n.pc # "idle" => Fits(s, n)
<1>1. op.old \in Rows /\ op.new \in Rows /\ op.pc \in PCs
  BY DEF OpType
<1>2. CASE op.pc \in IngestPCs
  <2>1. op.new = ArrivalRow(op.new.folder)
    BY <1>1, <1>2, ArrivalRows
  <2>2. n.pc = PersistErr[op.pc]
    BY <1>2 DEF AfterErr, AfterMove, PersistErr, MoveErr, IngestPCs
  <2>3. n.pc \in IngestPCs \cup {"idle"}
    BY <1>2, <2>2, SMTT(30), SMT DEF PersistErr, IngestPCs
  <2>4. n.pc # "idle" /\ IngestFits(s, n) => Fits(s, n)
    BY <2>3 DEF Fits, MoveFits, DeleteFits, ReadFits, IngestPCs, MovePCs, DeletePCs, ReadPCs,
       Inserted, Unlinked
  <2>5. n.pc \in {"idle", "i_undo_put"} => InOrder(s)
    BY <1>2, <2>1, <2>2 DEF Fits, IngestFits, InOrder, PersistErr, IngestPCs, Arriving, Arrived
  <2>6. n.pc \notin {"idle", "i_undo_put"} =>
          /\ op.pc \in Arrived \ {"i_flags", "i_undo_manifest", "i_undo_mailbox"}
          /\ n.pc \in {"i_undo_manifest", "i_undo_optin"}
    BY <1>2, <2>2, SMTT(30), SMT DEF PersistErr, IngestPCs, Arrived
  <2>7. n.pc # "idle" => IngestFits(s, n)
    <3>1. CASE n.pc = "i_undo_put"
      BY <2>5, <3>1 DEF IngestFits, Arriving, Arrived
    <3>2. CASE n.pc \notin {"idle", "i_undo_put"}
      BY <2>6, <3>2, SMTT(30) DEF Fits, IngestFits, Arriving, Arrived
    <3> QED
      BY <3>1, <3>2
  <2> QED
    BY <2>4, <2>5, <2>7
<1>3. CASE op.pc \in {"m_folder", "m_unlist", "m_upsert"}
  <2>1. /\ op.pc = "m_folder" => n.pc = "m_undo_insert"
        /\ op.pc = "m_unlist" => n.pc = "m_undo_folder"
        /\ op.pc = "m_upsert" => n.pc = "m_undo_unlist"
    BY <1>3, SMT DEF AfterErr, AfterMove, PersistErr, MoveErr
  <2>2. MoveFits(s, n)
    BY <1>3, <2>1, SMTT(30) DEF Fits, MoveFits, MovePCs, Inserted
  <2> QED
    BY <1>3, <2>1, <2>2 DEF Fits, IngestFits, DeleteFits, ReadFits, IngestPCs, MovePCs, DeletePCs,
       ReadPCs, Arriving, Arrived, Unlinked
<1>4. CASE op.pc = "m_insert"
  <2>1. n.pc = "idle"
    BY <1>4, SMT DEF AfterErr, AfterMove, PersistErr, MoveErr
  <2> QED
    BY <1>1, <1>4, <2>1, ArrivalRows, SMTT(30) DEF Fits, MoveFits, InOrder
<1>5. CASE op.pc \in {"m_flags", "r_header", "r_flags"}
  <2>1. n.pc \in {"r_flags", "idle"}
    BY <1>5 DEF AfterErr, AfterMove, PersistErr, MoveErr
  <2>2. InOrder(s) /\ s.manifest = "whole"
    BY <1>5 DEF Fits, MoveFits, ReadFits, MovePCs, ReadPCs
  <2> QED
    BY <2>1, <2>2 DEF Fits, IngestFits, MoveFits, DeleteFits, ReadFits, IngestPCs, MovePCs,
       DeletePCs, ReadPCs, Arriving, Arrived, Unlinked, Inserted
<1>6. CASE op.pc \in DeletePCs
  <2>1. n.pc = "idle"
    BY <1>6 DEF AfterErr, AfterMove, PersistErr, MoveErr, DeletePCs, Reads
  <2> QED
    BY <1>6, <2>1 DEF Fits, DeleteFits, InOrder, DeletePCs, Unlinked, Reads
<1> QED
  BY <1>1, <1>2, <1>3, <1>4, <1>5, <1>6 DEF PCs, MovePCs, ReadPCs, Reads, Undoing

\* A statement that fails is a write, the first to fail, and took no effect.
LEMMA FailsAlone ==
  ASSUME OneByOne, IInv, IInv', ListedInv, AloneInv, NEW o \in Ops, StatementFails(o)
  PROVE  AloneInv'
<1> DEFINE op == ops[o]
           m  == op.msg
           s  == store[m]
           n  == At(op, AfterErr(op))
<1>1. /\ op \in OpType /\ m \in Messages /\ s \in StoreType /\ AfterErr(op) \in PCs
      /\ store \in [Messages -> StoreType]
  BY AfterErrType DEF IInv, TypeOK, OpType
<1>2. /\ op.pc # "idle" /\ ops' = [ops EXCEPT ![o] = n] /\ store' = store
      /\ ingest' = IF op.pc \in IngestPCs /\ AfterErr(op) = "idle"
                     THEN [ingest EXCEPT ![m] = "failed"] ELSE ingest
      /\ deleted' = deleted /\ batch' = batch
  BY DEF StatementFails, Goto, Begin, OneByOne
<1>3. op.pc \notin Reads
  BY DEF StatementFails, OneByOne
<1>4. faults = 0
  BY BoundsAssumption, SMT DEF StatementFails, OneByOne, IInv, TypeOK
<1>5. op.pc \notin Undoing
  BY <1>4 DEF ListedInv, UndoOK
<1>6. o \in Actors
  BY <1>2 DEF AloneInv, Idle, Ops
<1>7. n \in OpType
  BY <1>2 DEF IInv, TypeOK
<1>8. n.pc = AfterErr(op) /\ (n.pc # "idle" => n.msg = m /\ n.new = op.new /\ n.old = op.old)
  <2> DEFINE pc == AfterErr(op)
  <2> HIDE DEF op, pc
  <2>1. LET u == At(op, pc)
        IN  /\ u.pc = pc
            /\ pc # "idle" => u.msg = op.msg /\ u.new = op.new /\ u.old = op.old
    <3>1. pc \in PCs
      BY <1>1 DEF pc
    <3> QED
      BY <1>1, <3>1, AtKeeps, ZenonT(30)
  <2> QED
    BY <2>1 DEF pc
<1>9. Fits(s, op) /\ ~s.aged /\ s.manifest # "ghost"
  BY <1>1, <1>2 DEF AloneInv, Idle
<1>10. op.pc \in IngestPCs => op.new.at = 0
  BY DEF ListedInv, ClockOK
<1>11. m \notin deleted /\ ingest[m] # "new"
  BY <1>1, <1>2 DEF AloneInv, Quiet, Idle
<1>12. ingest[m] = "acked" /\ s.manifest = "whole" => s.life # {}
  BY <1>1 DEF AloneInv
<1>13. /\ \A x \in Messages : x # m => ingest'[x] = ingest[x]
       /\ ingest'[m] # "new"
       /\ ingest'[m] = "acked" => ingest[m] = "acked"
  BY <1>1, <1>2, <1>11 DEF IInv, TypeOK
<1>14. store' = [store EXCEPT ![m] = s] /\ ops[o].msg = m
  BY <1>1, <1>2
<1> HIDE DEF op, m, s, n
<1>15. /\ n.pc = "idle" => InOrder(s)
       /\ n.pc # "idle" => Fits(s, n)
  BY <1>1, <1>2, <1>3, <1>5, <1>7, <1>8, <1>9, <1>10, RefusedFits
<1> QED
  BY <1>1, <1>2, <1>6, <1>8, <1>9, <1>11, <1>12, <1>13, <1>14, <1>15, AloneStep, ZenonT(30)

\* A read, or the beginning of a request: the stores stay as they are.
LEMMA AsideAlone ==
  ASSUME OneByOne, IInv, IInv', AloneInv, NEW o \in Actors, NEW m \in Messages, NEW n,
         ops' = [ops EXCEPT ![o] = n], UNCHANGED <<store, deleted, batch>>,
         Idle(o) \/ ops[o].msg = m, m \notin deleted,
         n.pc = "idle" => InOrder(store[m]),
         n.pc # "idle" => n.msg = m /\ Fits(store[m], n),
         \A x \in Messages : x # m => ingest'[x] = ingest[x],
         ingest'[m] # "new", ingest'[m] = "acked" => ingest[m] = "acked"
  PROVE  AloneInv'
<1> DEFINE t == store[m]
<1>1. /\ ~t.aged /\ t.manifest # "ghost"
      /\ ingest[m] = "acked" /\ t.manifest = "whole" => t.life # {}
  BY DEF AloneInv
<1>2. store' = [store EXCEPT ![m] = t]
  BY DEF IInv, TypeOK
<1> HIDE DEF t
<1>3. /\ n.pc = "idle" => InOrder(t)
      /\ n.pc # "idle" => n.msg = m /\ Fits(t, n)
  BY DEF t
<1> QED
  BY <1>1, <1>2, <1>3, AloneStep

\* Requests begin on a message that is in order, ingests on one that is not there.
LEMMA BeginsAlone ==
  ASSUME OneByOne, IInv, IInv', AloneInv, NEW o \in Actors, NEW m \in Messages,
         BeginIngest(o, m) \/ BeginPatch(o, m) \/ BeginDelete(o, m) \/ BeginPermanent(o, m)
  PROVE  AloneInv'
<1>1. Quiet(m)
  <2>1. Idle(o) /\ o \in Ops
    BY DEF BeginIngest, BeginPatch, BeginDelete, BeginPermanent, Ops
  <2> QED
    BY <2>1 DEF Quiet, AloneInv, OneByOne, Ops
<1>2. InOrder(store[m])
  BY <1>1 DEF AloneInv
<1>3. CASE BeginIngest(o, m)
  <2>1. PICK n : /\ ops' = [ops EXCEPT ![o] = n] /\ n.pc = "i_put" /\ n.msg = m
    <3>1. PICK f : ops' = [ops EXCEPT ![o] = Op("i_put", m, ArrivalRow(f), FALSE, FALSE)]
      BY <1>3 DEF BeginIngest, Begin
    <3>2. /\ Op("i_put", m, ArrivalRow(f), FALSE, FALSE).pc = "i_put"
          /\ Op("i_put", m, ArrivalRow(f), FALSE, FALSE).msg = m
      BY DEF Op
    <3> QED
      BY <3>1, <3>2
  <2>2. /\ Idle(o) /\ ingest[m] = "new" /\ ingest' = [ingest EXCEPT ![m] = "running"]
        /\ UNCHANGED <<store, deleted, batch>>
    BY <1>3 DEF BeginIngest
  <2>3. Fits(store[m], n)
    <3>1. store[m].manifest = "none" /\ store[m].listed = {} /\ store[m].life = {}
      BY <2>2 DEF AloneInv
    <3> QED
      BY <2>1, <3>1, SMTT(30) DEF Fits, IngestFits, MoveFits, DeleteFits, ReadFits, MovePCs,
         DeletePCs,
         ReadPCs, Arriving, Arrived, Unlinked, Inserted
  <2>4. m \notin deleted
    BY <2>2 DEF AloneInv
  <2>5. ingest'[m] = "running" /\ \A x \in Messages : x # m => ingest'[x] = ingest[x]
    BY <2>2 DEF IInv, TypeOK
  <2> QED
    BY <2>1, <2>2, <2>3, <2>4, <2>5, AsideAlone
<1>4. CASE BeginPatch(o, m) \/ BeginDelete(o, m) \/ BeginPermanent(o, m)
  <2>1. PICK n : /\ ops' = [ops EXCEPT ![o] = n] /\ n.msg = m
                 /\ n.pc \in {"r_manifest", "h_manifest", "d_manifest"}
    <3>1. PICK pc \in {"r_manifest", "h_manifest", "d_manifest"} :
            \E new, move, read : ops' = [ops EXCEPT ![o] = Op(pc, m, new, move, read)]
      BY <1>4, ZenonT(30) DEF BeginPatch, BeginDelete, BeginPermanent, Begin
    <3>2. PICK new, move, read : ops' = [ops EXCEPT ![o] = Op(pc, m, new, move, read)]
      BY <3>1
    <3>3. Op(pc, m, new, move, read).pc = pc /\ Op(pc, m, new, move, read).msg = m
      BY DEF Op
    <3> QED
      BY <3>2, <3>3
  <2>2. Idle(o) /\ Known(m) /\ UNCHANGED <<store, ingest, deleted, batch>>
    BY <1>4 DEF BeginPatch, BeginDelete, BeginPermanent
  <2>3. Fits(store[m], n)
    BY <1>2, <2>1 DEF Fits, IngestFits, MoveFits, DeleteFits, ReadFits, MovePCs, DeletePCs,
       ReadPCs, Arriving, Arrived, Unlinked, Inserted
  <2>4. m \notin deleted
    <3>1. m \in deleted => store[m].listed = {} /\ store[m].manifest = "none"
      BY DEF AloneInv, Gone, NoMessage
    <3> QED
      BY <2>2, <3>1 DEF Known
  <2>5. ingest[m] # "new"
    BY <2>2 DEF AloneInv, Known
  <2> QED
    BY <2>1, <2>2, <2>3, <2>4, <2>5, AsideAlone
<1> QED
  BY <1>3, <1>4

\* GetManifest goes on with a message that is in order, or ends.
LEMMA GetManifestAlone ==
  ASSUME OneByOne, IInv, IInv', AloneInv, NEW o \in Ops, GetManifest(o)
  PROVE  AloneInv'
<1> DEFINE op == ops[o]
           s  == store[op.msg]
<1>1. /\ op \in OpType /\ op.msg \in Messages
      /\ op.pc \in {"r_manifest", "m_manifest", "h_manifest", "d_manifest"}
      /\ UNCHANGED <<store, ingest, deleted, batch>>
  BY DEF GetManifest, IInv, TypeOK, OpType
<1>2. o \in Actors /\ InOrder(s)
  <2>1. ~Idle(o)
    BY <1>1 DEF Idle
  <2>2. Fits(s, op)
    BY <2>1 DEF AloneInv
  <2>3. InOrder(s)
    BY <1>1, <2>2 DEF Fits, MoveFits, DeleteFits, ReadFits, ReadPCs
  <2> QED
    BY <2>1, <2>3 DEF AloneInv, Ops
<1>3. op.msg \notin deleted /\ ingest[op.msg] # "new"
  BY <1>1, SMTT(30) DEF AloneInv, Quiet, Idle
<1>4. PICK n : /\ ops' = [ops EXCEPT ![o] = n]
               /\ n.pc # "idle" => /\ n.msg = op.msg /\ s.manifest = "whole"
                                   /\ n.pc \in {"m_life", "d_life"} => n.old = ArrivalRow(s.folder)
               /\ n.pc \in {"idle", "r_header", "r_flags", "m_manifest", "m_life", "d_manifest", "d_life"}
  <2>1. ASSUME NEW pc \in {"idle", "r_header", "r_flags", "m_manifest", "d_manifest"}
        PROVE  LET u == At(op, pc) IN u.pc = pc /\ (pc # "idle" => u.msg = op.msg)
    <3> HIDE DEF op
    <3>1. pc \in PCs
      BY DEF PCs, MovePCs, DeletePCs, ReadPCs
    <3> QED
      BY <1>1, <3>1, AtKeeps
  <2>2. ASSUME NEW pc \in {"m_life", "d_life"}
        PROVE  LET u == [op EXCEPT !.pc = pc, !.old = ArrivalRow(s.folder)]
               IN  u.pc = pc /\ u.msg = op.msg /\ u.old = ArrivalRow(s.folder)
    BY <1>1 DEF OpType
  <2>3. CASE s.manifest # "whole" /\ ops' = [ops EXCEPT ![o] = At(op, "idle")]
    <3> HIDE DEF op, s
    <3> QED
      BY <2>1, <2>3
  <2>4. ASSUME s.manifest = "whole",
               NEW pc \in {"idle", "r_header", "r_flags", "m_manifest", "d_manifest"},
               ops' = [ops EXCEPT ![o] = At(op, pc)]
        PROVE  \E n : /\ ops' = [ops EXCEPT ![o] = n]
                      /\ n.pc # "idle" => /\ n.msg = op.msg /\ s.manifest = "whole"
                                          /\ n.pc \in {"m_life", "d_life"} => n.old = ArrivalRow(s.folder)
                      /\ n.pc \in {"idle", "r_header", "r_flags", "m_manifest", "m_life", "d_manifest", "d_life"}
    <3> HIDE DEF op, s
    <3> QED
      BY <2>1, <2>4
  <2>5. ASSUME s.manifest = "whole", NEW pc \in {"m_life", "d_life"},
               ops' = [ops EXCEPT ![o] = [op EXCEPT !.pc = pc, !.old = ArrivalRow(s.folder)]]
        PROVE  \E n : /\ ops' = [ops EXCEPT ![o] = n]
                      /\ n.pc # "idle" => /\ n.msg = op.msg /\ s.manifest = "whole"
                                          /\ n.pc \in {"m_life", "d_life"} => n.old = ArrivalRow(s.folder)
                      /\ n.pc \in {"idle", "r_header", "r_flags", "m_manifest", "m_life", "d_manifest", "d_life"}
    <3> HIDE DEF op, s
    <3> QED
      BY <2>2, <2>5
  <2>6. \/ s.manifest # "whole" /\ ops' = [ops EXCEPT ![o] = At(op, "idle")]
        \/ s.manifest = "whole" /\ \E pc \in {"idle", "r_header", "r_flags", "m_manifest", "d_manifest"} :
             ops' = [ops EXCEPT ![o] = At(op, pc)]
        \/ s.manifest = "whole" /\ \E pc \in {"m_life", "d_life"} :
             ops' = [ops EXCEPT ![o] = [op EXCEPT !.pc = pc, !.old = ArrivalRow(s.folder)]]
    BY DEF GetManifest, Goto, Begin, AfterHeader, AfterMove
  <2> QED
    BY <2>3, <2>4, <2>5, <2>6
<1> HIDE DEF s
<1>5. n.pc # "idle" => Fits(s, n)
  BY <1>2, <1>4, SMTT(30) DEF Fits, IngestFits, MoveFits, DeleteFits, ReadFits, MovePCs, DeletePCs,
     ReadPCs, Arriving, Arrived, Unlinked, Inserted
<1> QED
  BY <1>1, <1>2, <1>3, <1>4, <1>5, AsideAlone DEF s

\* GetMessageLifecycle names the one row that lists the message.
LEMMA GetLifecycleAlone ==
  ASSUME OneByOne, IInv, IInv', AloneInv, NEW o \in Ops, GetLifecycle(o)
  PROVE  AloneInv'
<1> DEFINE op == ops[o]
           s  == store[op.msg]
<1>1. /\ op \in OpType /\ op.msg \in Messages /\ s \in StoreType
      /\ op.pc \in {"m_life", "d_life"} /\ UNCHANGED <<store, ingest, deleted, batch>>
  BY DEF GetLifecycle, IInv, TypeOK, OpType
<1>2. o \in Actors /\ InOrder(s) /\ s.manifest = "whole" /\ op.old = ArrivalRow(s.folder)
  <2>1. ~Idle(o)
    BY <1>1 DEF Idle
  <2>2. Fits(s, op)
    BY <2>1 DEF AloneInv
  <2>3. InOrder(s) /\ s.manifest = "whole" /\ op.old = ArrivalRow(s.folder)
    BY <1>1, <2>2 DEF Fits, MoveFits, DeleteFits, MovePCs
  <2> QED
    BY <2>1, <2>3 DEF AloneInv, Ops
<1>3. op.msg \notin deleted /\ ingest[op.msg] # "new"
  BY <1>1, SMTT(30) DEF AloneInv, Quiet, Idle
<1>4. PICK r : /\ ops' = [ops EXCEPT ![o] = [op EXCEPT !.pc = IF op.pc = "m_life" THEN "m_insert" ELSE "d_delete",
                                                       !.old = r]]
               /\ r \in s.life \/ (s.life = {} /\ r = op.old)
  <2>1. AfterOk(op) = IF op.pc = "m_life" THEN "m_insert" ELSE "d_delete"
    BY <1>1, SMTT(30), SMT DEF AfterOk, PersistOk, DeleteOk, MoveOk
  <2>2. CASE s.life = {} /\ ops' = [ops EXCEPT ![o] = At(op, AfterOk(op))]
    <3>1. At(op, AfterOk(op)) = [op EXCEPT !.pc = AfterOk(op)]
      BY <1>1, <2>1 DEF At
    <3>2. [op EXCEPT !.pc = AfterOk(op)] = [op EXCEPT !.pc = AfterOk(op), !.old = op.old]
      BY <1>1 DEF OpType
    <3> QED
      BY <2>1, <2>2, <3>1, <3>2
  <2>3. ASSUME NEW r \in s.life,
               ops' = [ops EXCEPT ![o] = At([op EXCEPT !.old = r], AfterOk(op))]
        PROVE  ops' = [ops EXCEPT ![o] = [op EXCEPT !.pc = AfterOk(op), !.old = r]]
    <3>1. At([op EXCEPT !.old = r], AfterOk(op)) = [[op EXCEPT !.old = r] EXCEPT !.pc = AfterOk(op)]
      BY <1>1, <2>1 DEF At
    <3>2. [[op EXCEPT !.old = r] EXCEPT !.pc = AfterOk(op)] = [op EXCEPT !.pc = AfterOk(op), !.old = r]
      BY <1>1 DEF OpType
    <3> QED
      BY <2>3, <3>1, <3>2
  <2>4. \/ s.life = {} /\ ops' = [ops EXCEPT ![o] = At(op, AfterOk(op))]
        \/ \E r \in s.life : ops' = [ops EXCEPT ![o] = At([op EXCEPT !.old = r], AfterOk(op))]
    BY DEF GetLifecycle, Goto, Begin
  <2> QED
    BY <2>1, <2>2, <2>3, <2>4
<1> DEFINE n == [op EXCEPT !.pc = IF op.pc = "m_life" THEN "m_insert" ELSE "d_delete", !.old = r]
<1>5. /\ n.pc \in {"m_insert", "d_delete"} /\ n.old = r /\ n.msg = op.msg
  BY <1>1 DEF OpType
<1>6. /\ s.life = {r} \/ (s.life = {} /\ r = ArrivalRow(s.folder))
      /\ s.listed \subseteq {r} /\ s.life \subseteq s.listed /\ s.folder = r.folder
      /\ s.life = {} => r.at = 0
  <2>1. CASE r \in s.life
    <3>1. s.life = {r}
      BY <1>1, <2>1 DEF StoreType
    <3> QED
      BY <1>2, <3>1 DEF InOrder
  <2>2. CASE s.life = {} /\ r = op.old
    BY <1>2, <2>2, SMTT(30), SMT DEF InOrder, ArrivalRow
  <2> QED
    BY <1>4, <2>1, <2>2
<1>7. ops' = [ops EXCEPT ![o] = n]
  BY <1>4
<1> HIDE DEF s, n
<1>8. Fits(s, n)
  BY <1>2, <1>5, <1>6 DEF Fits, IngestFits, MoveFits, DeleteFits, ReadFits, MovePCs, DeletePCs,
     ReadPCs, Arriving, Arrived, Unlinked, Inserted
<1> QED
  BY <1>1, <1>2, <1>3, <1>5, <1>7, <1>8, AsideAlone DEF s

\* Every step of one request at a time keeps the invariant.
LEMMA NextAlone ==
  ASSUME OneByOne, IInv, IInv', ListedInv, AloneInv, [Next]_vars
  PROVE  AloneInv'
<1>1. ASSUME NEW o \in Actors, NEW m \in Messages,
             BeginIngest(o, m) \/ BeginPatch(o, m) \/ BeginDelete(o, m) \/ BeginPermanent(o, m)
      PROVE  AloneInv'
  BY <1>1, BeginsAlone
<1>2. ASSUME NEW o \in Ops, Step(o) \/ StatementFails(o)
      PROVE  AloneInv'
  BY <1>2, GetManifestAlone, GetLifecycleAlone, StatementAlone, FailsAlone DEF Step
<1>3. \A o \in Ops : ~Crash(o)
  BY DEF Crash, OneByOne
<1>4. ~BeginSweep /\ ~SweepNext
  <2>1. \A m \in Messages : ~Expired(m)
    BY DEF AloneInv, Expired
  <2> QED
    BY <2>1 DEF BeginSweep, SweepNext, AloneInv
<1>5. \A m \in Messages : ~RetentionElapses(m)
  BY SMTT(30) DEF RetentionElapses, OneByOne
<1>6. CASE UNCHANGED vars
  BY <1>6 DEF vars, AloneInv, Idle, Quiet, Gone
<1> QED
  BY <1>1, <1>2, <1>3, <1>4, <1>5, <1>6 DEF Next

\* One request at a time, and one refused write: all three invariants hold.
LEMMA AloneInvariance == ASSUME OneByOne PROVE Spec => [](ListedInv /\ AloneInv)
<1>1. CleanFaults
  BY DEF OneByOne, CleanFaults
<1>2. IInv /\ IInv' /\ ListedInv /\ [Next]_vars => ListedInv'
  BY <1>1, NextListed
<1>3. IInv /\ IInv' /\ ListedInv /\ AloneInv /\ [Next]_vars => AloneInv'
  BY NextAlone
<1> QED
  BY <1>2, <1>3, InitListed, InitAlone, Invariance, PTL DEF Spec

(* When requests do not overlap, at most one write is refused and no       *)
(* retention period applies, every accepted message that nobody works on   *)
(* is listed exactly where its lifecycle row and its manifest say, for any *)
(* number of messages, folders and moves: MoveMessage's undo takes back    *)
(* all that was done.                                                      *)
THEOREM FoldersAgree == ASSUME OneByOne PROVE Spec => []FolderAgrees
<1>1. AloneInv => FolderAgrees
  BY DEF AloneInv, FolderAgrees, InOrder
<1> QED
  BY <1>1, AloneInvariance, PTL

(* Under the same conditions a permanent deletion that succeeded leaves no *)
(* row and no body of the message but the ledger's.                        *)
THEOREM DeletionsComplete == ASSUME OneByOne PROVE Spec => []DeletedIsGone
<1>1. AloneInv => DeletedIsGone
  BY DEF AloneInv, DeletedIsGone
<1> QED
  BY <1>1, AloneInvariance, PTL
=============================================================================
