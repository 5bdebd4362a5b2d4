------------------------------ MODULE Mailbox -------------------------------
(***************************************************************************)
(* One user's messages across the four stores: the body blob (S3), the     *)
(* manifest, listing, flags and opt-in rows (ScyllaDB), and the ledger and *)
(* lifecycle rows (CockroachDB).  No transaction spans them.  mailpipe's   *)
(* persist, mailops' MoveMessage, DeletePermanent and SweepExpired and the *)
(* PATCH and DELETE handlers are programs of one statement per step, which *)
(* interleave, fail and are cut short by crashes.                          *)
(*                                                                         *)
(* All statements name the message id, so a message's rows are one record. *)
(***************************************************************************)
EXTENDS Integers, FiniteSets

CONSTANTS Messages,    \* the message ids persist draws
          Actors,      \* concurrent requests and SMTP sessions
          Sweeper,     \* the retention sweeper
          Requests,    \* what actors do: "ingest", "patch", "delete", "permanent"
          Sources,     \* where mail comes from: a subset of DOMAIN IngestFolders
          Targets,     \* folders that clients and filters move to
          Retained,    \* folders with a retention period
          SweepLimit,  \* the LIMIT of ListExpiredMessages (200)
          MaxMoves,    \* bound: moves started
          FaultKinds,  \* "unread": a read fails; "refused": a write fails;
                       \* "applied": it fails after it took effect;
                       \* "crash": the process stops
          MaxFaults    \* bound: faults

ASSUME SweeperAssumption == Sweeper \notin Actors
ASSUME MessagesAssumption == Messages # {}
ASSUME BoundsAssumption == SweepLimit \in Nat \ {0} /\ MaxMoves \in Nat /\ MaxFaults \in Nat

StandardFolders == {"inbox", "sent", "drafts", "trash", "archive"}
Folders == StandardFolders \cup Targets

Ops == Actors \cup {Sweeper}

\* A listing row's key: its folder and the time the message entered it.
Rows == [folder : Folders, at : 0 .. MaxMoves]
ArrivalRow(f) == [folder |-> f, at |-> 0]

VARIABLES store,    \* the rows of each message
          ingest,   \* history: how the message's ingest ended
          deleted,  \* history: messages whose permanent deletion succeeded
          ops,      \* programs in progress
          batch,    \* messages the sweep has yet to delete
          moves,    \* moves started: the clock of folder_entered_at
          faults

vars == <<store, ingest, deleted, ops, batch, moves, faults>>

\* A manifest is a "ghost" when only its folder column was written: its
\* user_id is null and GetManifest answers not found.
StoreType ==
  [body : BOOLEAN, manifest : {"none", "ghost", "whole"}, folder : Folders,
   listed : SUBSET Rows, flags : BOOLEAN, optin : BOOLEAN, ledger : BOOLEAN,
   life : {{}} \cup {{r} : r \in Rows}, aged : BOOLEAN]

NoMessage ==
  [body |-> FALSE, manifest |-> "none", folder |-> "inbox", listed |-> {}, flags |-> FALSE,
   optin |-> FALSE, ledger |-> FALSE, life |-> {}, aged |-> FALSE]

IngestPCs == {"i_put", "i_manifest", "i_mailbox", "i_flags", "i_optin", "i_ledger",
              "i_retention", "i_life", "i_undo_optin", "i_undo_manifest", "i_undo_mailbox",
              "i_undo_put"}
MovePCs   == {"m_manifest", "m_life", "m_insert", "m_folder", "m_unlist", "m_upsert", "m_flags",
              "m_undo_unlist", "m_undo_folder", "m_undo_insert"}
DeletePCs == {"h_manifest", "d_manifest", "d_life", "d_delete", "d_unlist", "d_flags", "d_optin",
              "d_lifecycle", "d_body"}
ReadPCs   == {"r_manifest", "r_header", "r_flags"}
PCs       == {"idle"} \cup IngestPCs \cup MovePCs \cup DeletePCs \cup ReadPCs

\* old, new: the listing rows a move or delete works on.  move, read: what a
\* PATCH asks for.
OpType ==
  [pc : PCs, msg : Messages, old : Rows, new : Rows, move : BOOLEAN, read : BOOLEAN]

TypeOK ==
  /\ store \in [Messages -> StoreType]
  /\ ingest \in [Messages -> {"new", "running", "acked", "failed", "crashed"}]
  /\ deleted \subseteq Messages
  /\ ops \in [Ops -> OpType]
  /\ batch \subseteq Messages
  /\ moves \in 0 .. MaxMoves
  /\ faults \in 0 .. MaxFaults

Op(pc, m, new, move, read) ==
  [pc |-> pc, msg |-> m, old |-> ArrivalRow("inbox"), new |-> new, move |-> move, read |-> read]

IdleOp == Op("idle", CHOOSE m \in Messages : TRUE, ArrivalRow("inbox"), FALSE, FALSE)

Init ==
  /\ store = [m \in Messages |-> NoMessage]
  /\ ingest = [m \in Messages |-> "new"]
  /\ deleted = {}
  /\ ops = [o \in Ops |-> IdleOp]
  /\ batch = {}
  /\ moves = 0
  /\ faults = 0

-----------------------------------------------------------------------------
(* Statements on the rows of one message *)

PutBody(s)            == [s EXCEPT !.body = TRUE]
DeleteBody(s)         == [s EXCEPT !.body = FALSE]
InsertManifestRow(s, f) == [s EXCEPT !.manifest = "whole", !.folder = f]
DeleteManifestRow(s)  == [s EXCEPT !.manifest = "none"]
InsertMailboxRow(s, r) == [s EXCEPT !.listed = @ \cup {r}]
DeleteMailboxRow(s, r) == [s EXCEPT !.listed = @ \ {r}]
SetFlags(s)           == [s EXCEPT !.flags = TRUE]
DeleteFlags(s)        == [s EXCEPT !.flags = FALSE]
SetOptInMetadata(s)   == [s EXCEPT !.optin = TRUE]
DeleteOptInMetadata(s) == [s EXCEPT !.optin = FALSE]
AppendIngestLedger(s) == [s EXCEPT !.ledger = TRUE]

UpsertMessageLifecycle(s, r) == [s EXCEPT !.life = {r}, !.aged = FALSE]

\* Fault: the DELETE names the wrong row.
DeleteNoLifecycle(s) == s

DeleteMessageLifecycle(s) == [s EXCEPT !.life = {}, !.aged = FALSE]

\* CQL's UPDATE is an upsert: it makes a ghost of a manifest that is gone.
UpdateManifest(s) == [s EXCEPT !.manifest = IF s.manifest = "none" THEN "ghost" ELSE @]
UpdateManifestFolder(s, f) == [UpdateManifest(s) EXCEPT !.folder = f]

\* The statement at each program counter.
Effect(s, op) ==
  CASE op.pc = "i_put"                           -> PutBody(s)
    [] op.pc = "i_manifest"                      -> InsertManifestRow(s, op.new.folder)
    [] op.pc \in {"i_mailbox", "m_insert"}       -> InsertMailboxRow(s, op.new)
    [] op.pc \in {"i_flags", "m_flags", "r_flags"} -> SetFlags(s)
    [] op.pc = "i_optin"                         -> SetOptInMetadata(s)
    [] op.pc = "i_ledger"                        -> AppendIngestLedger(s)
    [] op.pc \in {"i_life", "m_upsert"}          -> UpsertMessageLifecycle(s, op.new)
    [] op.pc \in {"i_undo_optin", "d_optin"}     -> DeleteOptInMetadata(s)
    [] op.pc \in {"i_undo_manifest", "d_delete"} -> DeleteManifestRow(s)
    [] op.pc \in {"i_undo_mailbox", "m_undo_insert"} -> DeleteMailboxRow(s, op.new)
    [] op.pc \in {"i_undo_put", "d_body"}        -> DeleteBody(s)
    [] op.pc = "m_folder"                        -> UpdateManifestFolder(s, op.new.folder)
    [] op.pc \in {"m_unlist", "d_unlist"}        -> DeleteMailboxRow(s, op.old)
    [] op.pc = "m_undo_unlist"                   -> InsertMailboxRow(s, op.old)
    [] op.pc = "m_undo_folder"                   -> UpdateManifestFolder(s, op.old.folder)
    [] op.pc = "d_flags"                         -> DeleteFlags(s)
    [] op.pc = "d_lifecycle"                     -> DeleteMessageLifecycle(s)
    [] op.pc = "r_header"                        -> UpdateManifest(s)
    [] OTHER                                     -> s

-----------------------------------------------------------------------------
(* The programs: where a statement leads when it succeeds and when it      *)
(* reports an error                                                        *)

\* mailpipe.persist (InsertManifest is three statements).
PersistOk ==
  [i_put |-> "i_manifest", i_manifest |-> "i_mailbox", i_mailbox |-> "i_flags",
   i_flags |-> "i_optin", i_optin |-> "i_ledger", i_ledger |-> "i_retention",
   i_retention |-> "i_life", i_life |-> "idle", i_undo_optin |-> "i_undo_manifest",
   i_undo_manifest |-> "i_undo_mailbox", i_undo_mailbox |-> "i_undo_put", i_undo_put |-> "idle"]

\* The compensating deletes ignore their errors; DeleteManifest gives up after
\* a failure of its first statement.
PersistErr ==
  [i_put |-> "idle", i_manifest |-> "i_undo_put", i_mailbox |-> "i_undo_put",
   i_flags |-> "i_undo_put", i_optin |-> "i_undo_manifest", i_ledger |-> "i_undo_optin",
   i_retention |-> "i_undo_optin", i_life |-> "i_undo_optin", i_undo_optin |-> "i_undo_manifest",
   i_undo_manifest |-> "i_undo_put", i_undo_mailbox |-> "i_undo_put", i_undo_put |-> "idle"]

\* Fault: the old listing row is removed before the new one is written.
MoveOkUnlistFirst ==
  [m_insert |-> "m_folder", m_folder |-> "m_upsert", m_unlist |-> "m_insert",
   m_upsert |-> "m_flags", m_life |-> "m_unlist",
   m_undo_unlist |-> "m_undo_folder", m_undo_folder |-> "m_undo_insert", m_undo_insert |-> "idle"]

MoveOk ==
  [m_life |-> "m_insert", m_insert |-> "m_folder", m_folder |-> "m_unlist", m_unlist |-> "m_upsert",
   m_upsert |-> "m_flags",
   m_undo_unlist |-> "m_undo_folder", m_undo_folder |-> "m_undo_insert", m_undo_insert |-> "idle"]

\* Fault: the undo of the listing row is forgotten.
MoveErrNoRelist ==
  [m_life |-> "m_insert", m_insert |-> "idle", m_folder |-> "m_undo_insert",
   m_unlist |-> "m_undo_folder", m_upsert |-> "m_undo_folder",
   m_undo_unlist |-> "m_undo_folder", m_undo_folder |-> "m_undo_insert", m_undo_insert |-> "idle"]

MoveErr ==
  [m_life |-> "m_insert", m_insert |-> "idle", m_folder |-> "m_undo_insert",
   m_unlist |-> "m_undo_folder", m_upsert |-> "m_undo_unlist",
   m_undo_unlist |-> "m_undo_folder", m_undo_folder |-> "m_undo_insert", m_undo_insert |-> "idle"]

\* Fault: the body is deleted first.
DeleteOkBodyFirst ==
  [d_life |-> "d_body", d_body |-> "d_delete", d_delete |-> "d_unlist", d_unlist |-> "d_flags",
   d_flags |-> "d_optin", d_optin |-> "d_lifecycle", d_lifecycle |-> "idle"]

\* Fault: the listing row is forgotten.
DeleteOkKeepsRow ==
  [d_life |-> "d_delete", d_delete |-> "d_flags", d_unlist |-> "d_flags", d_flags |-> "d_optin",
   d_optin |-> "d_lifecycle", d_lifecycle |-> "d_body", d_body |-> "idle"]

\* DeletePermanent: after an error nothing more is deleted, except that an
\* unreadable lifecycle row is replaced by the manifest's columns.
DeleteOk ==
  [d_life |-> "d_delete", d_delete |-> "d_unlist", d_unlist |-> "d_flags", d_flags |-> "d_optin",
   d_optin |-> "d_lifecycle", d_lifecycle |-> "d_body", d_body |-> "idle"]

\* PATCH: the header refresh, then the move, then the read flag.
AfterHeader(op) == IF op.move THEN "m_manifest" ELSE IF op.read THEN "r_flags" ELSE "idle"
AfterMove(op)   == IF op.read THEN "r_flags" ELSE "idle"

AfterOk(op) ==
  CASE op.pc \in DOMAIN PersistOk -> PersistOk[op.pc]
    [] op.pc \in DOMAIN DeleteOk  -> DeleteOk[op.pc]
    [] op.pc = "m_flags"          -> AfterMove(op)
    [] op.pc \in DOMAIN MoveOk    -> MoveOk[op.pc]
    [] op.pc = "r_header"         -> AfterHeader(op)
    [] OTHER                      -> "idle"

AfterErr(op) ==
  CASE op.pc \in DOMAIN PersistErr -> PersistErr[op.pc]
    [] op.pc = "d_life"            -> "d_delete"
    [] op.pc = "m_flags"           -> AfterMove(op)
    [] op.pc \in DOMAIN MoveErr    -> MoveErr[op.pc]
    [] OTHER                       -> "idle"

-----------------------------------------------------------------------------
(* Beginning an operation *)

\* The folders each entry point of mailpipe passes to persist; the filters of
\* the recipient may divert external mail.
IngestFolders ==
  [IngestExternal |-> {"inbox"} \cup Targets, IngestSubmission |-> {"sent"},
   IngestInternal |-> {"inbox"}, IngestClientSent |-> {"sent"},
   IngestInternalPlaintext |-> {"inbox"}]

ASSUME SourcesAssumption == Sources \subseteq DOMAIN IngestFolders

Idle(o) == ops[o].pc = "idle"

\* The mailbox shows the message, so a client can name it.
Known(m) == store[m].listed # {} \/ store[m].manifest = "whole"

Begin(o, op) == ops' = [ops EXCEPT ![o] = op]

BeginIngest(o, m) ==
  /\ "ingest" \in Requests /\ Idle(o) /\ ingest[m] = "new"
  /\ \E src \in Sources : \E f \in IngestFolders[src] :
       Begin(o, Op("i_put", m, ArrivalRow(f), FALSE, FALSE))
  /\ ingest' = [ingest EXCEPT ![m] = "running"]
  /\ UNCHANGED <<store, deleted, batch, moves, faults>>

\* apiMailMessagePatch.
BeginPatch(o, m) ==
  /\ "patch" \in Requests /\ Idle(o) /\ Known(m)
  /\ \E f \in Targets, move, read \in BOOLEAN :
       /\ move => moves < MaxMoves
       /\ Begin(o, Op("r_manifest", m, [folder |-> f, at |-> IF move THEN moves + 1 ELSE 0],
                      move, read))
       /\ moves' = IF move THEN moves + 1 ELSE moves
  /\ UNCHANGED <<store, ingest, deleted, batch, faults>>

\* apiMailMessageDelete without mode=permanent: to the trash, or away from it.
BeginDelete(o, m) ==
  /\ "delete" \in Requests /\ Idle(o) /\ Known(m) /\ moves < MaxMoves
  /\ Begin(o, Op("h_manifest", m, [folder |-> "trash", at |-> moves + 1], TRUE, FALSE))
  /\ moves' = moves + 1
  /\ UNCHANGED <<store, ingest, deleted, batch, faults>>

\* mode=permanent.
BeginPermanent(o, m) ==
  /\ "permanent" \in Requests /\ Idle(o) /\ Known(m)
  /\ Begin(o, Op("d_manifest", m, ArrivalRow("inbox"), FALSE, FALSE))
  /\ UNCHANGED <<store, ingest, deleted, batch, moves, faults>>

-----------------------------------------------------------------------------
(* Steps *)

At(op, pc) == IF pc = "idle" THEN IdleOp ELSE [op EXCEPT !.pc = pc]

Goto(o, op, pc) == Begin(o, At(op, pc))

\* GetManifest at the head of a program; m_manifest and d_manifest fall back on
\* the manifest's folder and creation time for the row to remove.
GetManifest(o) ==
  LET op == ops[o]
      s  == store[op.msg]
      at(pc) == [op EXCEPT !.pc = pc, !.old = ArrivalRow(s.folder)]
  IN  /\ op.pc \in {"r_manifest", "m_manifest", "h_manifest", "d_manifest"}
      /\ \/ /\ s.manifest # "whole"
            /\ Goto(o, op, "idle")
         \/ /\ s.manifest = "whole"
            /\ \/ /\ op.pc = "r_manifest"
                  /\ \E next \in {"r_header", AfterHeader(op)} : Goto(o, op, next)
               \/ /\ op.pc = "m_manifest"
                  /\ IF s.folder = op.new.folder
                       THEN Goto(o, op, AfterMove(op))
                       ELSE Begin(o, at("m_life"))
               \/ /\ op.pc = "h_manifest"
                  /\ Goto(o, op, IF s.folder = "trash" THEN "d_manifest" ELSE "m_manifest")
               \/ /\ op.pc = "d_manifest"
                  /\ Begin(o, at("d_life"))
      /\ UNCHANGED <<store, ingest, deleted, batch, moves, faults>>

\* GetMessageLifecycle: the row to remove is the one it names.
GetLifecycle(o) ==
  LET op == ops[o]
      s  == store[op.msg]
  IN  /\ op.pc \in {"m_life", "d_life"}
      /\ \/ s.life = {} /\ Goto(o, op, AfterOk(op))
         \/ \E r \in s.life : Goto(o, [op EXCEPT !.old = r], AfterOk(op))
      /\ UNCHANGED <<store, ingest, deleted, batch, moves, faults>>

Reads == {"r_manifest", "m_manifest", "h_manifest", "d_manifest", "m_life", "d_life"}

\* A write that reports success.
Statement(o) ==
  LET op == ops[o]
  IN  /\ op.pc \notin Reads \cup {"idle"}
      /\ store' = [store EXCEPT ![op.msg] = Effect(store[op.msg], op)]
      /\ Goto(o, op, AfterOk(op))
      /\ ingest' = IF op.pc \in {"i_life", "i_undo_put"}
                     THEN [ingest EXCEPT ![op.msg] = IF op.pc = "i_life" THEN "acked" ELSE "failed"]
                     ELSE ingest
      /\ deleted' = IF op.pc = "d_body" THEN deleted \cup {op.msg} ELSE deleted
      /\ UNCHANGED <<batch, moves, faults>>

\* A read or write that reports an error, whether or not it took effect.
StatementFails(o) ==
  LET op == ops[o]
  IN  /\ op.pc # "idle"
      /\ faults < MaxFaults
      /\ \/ /\ (IF op.pc \in Reads THEN "unread" ELSE "refused") \in FaultKinds
            /\ UNCHANGED store
         \/ /\ "applied" \in FaultKinds /\ op.pc \notin Reads
            /\ store' = [store EXCEPT ![op.msg] = Effect(store[op.msg], op)]
      /\ Goto(o, op, AfterErr(op))
      /\ ingest' = IF op.pc \in IngestPCs /\ AfterErr(op) = "idle"
                     THEN [ingest EXCEPT ![op.msg] = "failed"] ELSE ingest
      /\ faults' = faults + 1
      /\ UNCHANGED <<deleted, batch, moves>>

\* The process running the program stops.
Crash(o) ==
  /\ "crash" \in FaultKinds /\ ~Idle(o) /\ faults < MaxFaults
  /\ Goto(o, ops[o], "idle")
  /\ ingest' = IF ops[o].pc \in IngestPCs THEN [ingest EXCEPT ![ops[o].msg] = "crashed"] ELSE ingest
  /\ batch' = IF o = Sweeper THEN {} ELSE batch
  /\ faults' = faults + 1
  /\ UNCHANGED <<store, deleted, moves>>

-----------------------------------------------------------------------------
(* SweepExpired *)

\* The JOIN of ListExpiredMessages.  Its order, oldest first, is left open: the
\* arrival times of different messages are not related here.
Expired(m) == store[m].life # {} /\ store[m].aged

BeginSweep ==
  /\ Idle(Sweeper) /\ batch = {}
  /\ \E S \in SUBSET {m \in Messages : Expired(m)} :
       /\ S # {}
       /\ \/ Cardinality(S) = SweepLimit
          \/ (Cardinality(S) < SweepLimit /\ \A m \in Messages : Expired(m) => m \in S)
       /\ batch' = S
  /\ UNCHANGED <<store, ingest, deleted, ops, moves, faults>>

\* DeletePermanent for each row listed; nothing is looked up again.
SweepNext ==
  /\ Idle(Sweeper)
  /\ \E m \in batch :
       /\ Begin(Sweeper, Op("d_manifest", m, ArrivalRow("inbox"), FALSE, FALSE))
       /\ batch' = batch \ {m}
  /\ UNCHANGED <<store, ingest, deleted, moves, faults>>

\* The retention period of the folder elapses.
RetentionElapses(m) ==
  /\ ~store[m].aged
  /\ \E r \in store[m].life : r.folder \in Retained
  /\ store' = [store EXCEPT ![m] = [@ EXCEPT !.aged = TRUE]]
  /\ UNCHANGED <<ingest, deleted, ops, batch, moves, faults>>

Step(o) == GetManifest(o) \/ GetLifecycle(o) \/ Statement(o)

Next ==
  \/ \E o \in Actors, m \in Messages :
       BeginIngest(o, m) \/ BeginPatch(o, m) \/ BeginDelete(o, m) \/ BeginPermanent(o, m)
  \/ \E o \in Ops : Step(o) \/ StatementFails(o) \/ Crash(o)
  \/ BeginSweep \/ SweepNext
  \/ \E m \in Messages : RetentionElapses(m)

Spec == Init /\ [][Next]_vars

(* Requests that began go on until they end, the sweeper's ticker keeps    *)
(* running, and time passes.  Nobody has to begin a request.               *)
Fairness ==
  /\ \A o \in Ops : WF_vars(Step(o))
  /\ WF_vars(BeginSweep) /\ WF_vars(SweepNext)
  /\ \A m \in Messages : WF_vars(RetentionElapses(m))

FairSpec == Spec /\ Fairness

-----------------------------------------------------------------------------
(* Properties *)

Quiet(m) == \A o \in Ops : Idle(o) \/ ops[o].msg # m

(* A message that was accepted can be read as long as its manifest is      *)
(* there: persist writes the body first, DeletePermanent deletes it last,  *)
(* whatever fails, crashes or runs at the same time.                       *)
AckedHasBody ==
  \A m \in Messages : (ingest[m] = "acked" /\ store[m].manifest = "whole") => store[m].body

(* An accepted message that has its manifest is listed in some folder at   *)
(* every moment: MoveMessage adds the new row before it removes the old    *)
(* one, and a failed move puts back what it removed.                       *)
NeverUnlisted ==
  \A m \in Messages :
    (ingest[m] = "acked" /\ store[m].manifest = "whole") => store[m].listed # {}

(* One request at a time: whenever none is in progress, listing, manifest  *)
(* and lifecycle row of an accepted message agree on where it is, also     *)
(* after a statement failed and the move was undone.                       *)
FolderAgrees ==
  \A m \in Messages :
    (Quiet(m) /\ ingest[m] = "acked" /\ store[m].manifest = "whole") =>
      /\ store[m].listed = store[m].life
      /\ \E r \in store[m].life : r.folder = store[m].folder

Gone(m) == store[m] = [NoMessage EXCEPT !.ledger = store[m].ledger, !.folder = store[m].folder]

(* "DeletePermanent permanently deletes a message and its lifecycle        *)
(* metadata": once it has succeeded, and nobody works on the message, no   *)
(* row and no body is left but the ledger's.                               *)
DeletedIsGone == \A m \in deleted : Quiet(m) => Gone(m)

(* A message whose retention period is over does not stay over it: sweeps  *)
(* of limited size get to every one of them.                               *)
ExpiredArePurged == \A m \in Messages : Expired(m) ~> ~Expired(m)

(* "On any error after the blob upload it issues compensating deletes":    *)
(* an ingest that reports an error leaves nothing behind.                  *)
FailedIngestLeavesNothing ==
  \A m \in Messages : ingest[m] = "failed" => store[m] = [NoMessage EXCEPT !.folder = store[m].folder]

(* "SweepExpired permanently deletes messages whose folder retention       *)
(* windows have elapsed": the sweeper deletes the manifest of no other.    *)
SweepSparesOthers ==
  [][ \A m \in Messages :
        (ops[Sweeper].pc = "d_delete" /\ ops'[Sweeper].pc = "d_unlist" /\ ops[Sweeper].msg = m)
          => Expired(m) ]_vars
=============================================================================
