------------------------------ MODULE MailList ------------------------------
(***************************************************************************)
(* The message list of the web client (MailApp in static/mail/mail-app.jsx *)
(* and static/mail/mail-message-list.jsx): loading a folder, selecting,    *)
(* moving, deleting and marking messages, one request at a time or in bulk.*)
(* The handlers run on one thread, but every await lets another one in:    *)
(* an operation is therefore a record in a slot, its requests are served   *)
(* one by one, and the component reacts when the last reply is back.       *)
(*                                                                         *)
(* The server is modelled by what its handlers promise (Mailbox.tla has    *)
(* them in detail): each request takes effect at once or fails.            *)
(***************************************************************************)
EXTENDS MailSelection

CONSTANTS
  Folders,     \* The folders of the sidebar that are used, "inbox" and "trash" among them.
  ReadBefore,  \* The messages read in an earlier session.
  Slots,       \* Operations the user has in flight at a time.
  MaxEvents    \* Bound on the loads started and the requests failed, together.

ASSUME FoldersAssumption ==
  {"inbox", "trash"} \subseteq Folders /\ Folders \subseteq {"inbox", "archive", "trash"}
ASSUME BoundsAssumption == ReadBefore \subseteq Messages /\ MaxEvents \in Nat

VARIABLES
  box,         \* Server: the folder of each message, or "gone".
  seen,        \* Server: the messages marked read.
  view,        \* "mail" or "settings".
  folder,      \* The folder the sidebar highlights.
  gen,         \* folderLoadGenRef.
  loads,       \* The folder loads in flight.
  loading,     \* The spinner replaces the rows.
  hasMail,     \* FALSE once the API answered 503.
  list,        \* messages: a function from the messages listed to their read flag.
  shown,       \* The folder whose rows list was last set from.
  sel,         \* listSelection.
  modal,       \* The confirm dialog: what it will do, and to which messages.
  confirming,  \* confirmLoading.
  bulkBusy,
  ops,         \* The operations in flight.
  reads,       \* readInFlightRef: the messages the mark-as-read effect is marking.
  faults

server == <<box, seen>>
nav    == <<view, folder>>
loadVars == <<gen, loads, loading, hasMail>>
dialog == <<modal, confirming>>
vars   == <<box, seen, view, folder, gen, loads, loading, hasMail, list, shown, sel,
            modal, confirming, bulkBusy, ops, reads, faults>>

Kinds == {"move", "delete", "purge", "bulkMove", "bulkDelete", "bulkPurge", "bulkRead", "empty"}

NoRows == [m \in {} |-> FALSE]

Load(g, f) == [gen |-> g, folder |-> f, served |-> FALSE, rows |-> NoRows]

Op(kind, todo, dest) ==
  [kind |-> kind, todo |-> todo, done |-> {}, dest |-> dest, gen |-> 0, state |-> "running"]

IdleOp == Op("idle", {}, "")

NoModal == [kind |-> "none", ids |-> {}]

WithinBound == gen - 1 + faults < MaxEvents

Rows(S) == [m \in S |-> m \in seen]

InFolder(f) == {m \in Messages : box[m] = f}

\* A click on a folder of the sidebar, some time after the session began: the
\* rows of the folder left behind are still in the list.
Init ==
  /\ box \in [Messages -> Folders] /\ seen = ReadBefore
  /\ view = "mail" /\ folder \in Folders /\ shown \in Folders
  /\ gen = 1 /\ loading = TRUE /\ hasMail = TRUE /\ loads = {Load(1, folder)}
  /\ list = Rows(InFolder(shown))
  /\ sel = emptyMailListSelection
  /\ modal = NoModal /\ confirming = FALSE /\ bulkBusy = FALSE
  /\ ops = [s \in Slots |-> IdleOp]
  /\ reads = {}
  /\ faults = 0

-----------------------------------------------------------------------------
(* What a render commits *)

\* A new list and selection, and the effects that follow: the selection loses
\* what is no longer visible, and the focused message, if its row is new or
\* newly focused, unread and not being marked, is shown read and marked.
Commit(list1, sel1, fresh) ==
  LET sel2 == PruneToVisible(sel1, DOMAIN list1)
      m    == sel2.focus
      mark == /\ m \in DOMAIN list1 /\ ~list1[m]
              /\ m # sel.focus \/ m \in fresh
              /\ m \notin reads
  IN  /\ sel' = sel2
      /\ list' = IF mark THEN [list1 EXCEPT ![m] = TRUE] ELSE list1
      /\ reads' = IF mark THEN reads \cup {m} ELSE reads

Select(sel1) == Commit(list, sel1, {})

Without(l, S) == [m \in DOMAIN l \ S |-> l[m]]

-----------------------------------------------------------------------------
(* Loading a folder *)

\* Fault: a load takes the generation of the one before.
loadFolderSameGen(f) ==
  /\ WithinBound
  /\ loads' = loads \cup {Load(gen, f)}
  /\ loading' = TRUE
  /\ UNCHANGED <<gen, hasMail>>

loadFolder(f) ==
  /\ WithinBound
  /\ gen' = gen + 1
  /\ loads' = loads \cup {Load(gen + 1, f)}
  /\ loading' = TRUE
  /\ UNCHANGED hasMail

\* A click on a folder of the sidebar; the effect on view and folder reloads.
OpenFolder(f) ==
  /\ modal = NoModal
  /\ view' = "mail" /\ folder' = f
  /\ IF view = "mail" /\ folder = f THEN UNCHANGED loadVars ELSE loadFolder(f)
  /\ Select(emptyMailListSelection)
  /\ UNCHANGED <<server, shown, dialog, bulkBusy, ops, faults>>

OpenSettings ==
  /\ modal = NoModal /\ view = "mail"
  /\ view' = "settings"
  /\ UNCHANGED <<server, folder, loadVars, list, shown, sel, dialog, bulkBusy, ops, reads, faults>>

\* The refresh button, the R key, Retry, and the load effect when identities
\* or the cache become ready.
Refresh ==
  /\ view = "mail"
  /\ loadFolder(folder)
  /\ UNCHANGED <<server, nav, list, shown, sel, dialog, bulkBusy, ops, reads, faults>>

\* fetchManifests reads the folder on the server.
ServeLoad(l) ==
  /\ ~l.served
  /\ loads' = (loads \ {l}) \cup {[l EXCEPT !.served = TRUE, !.rows = Rows(InFolder(l.folder))]}
  /\ UNCHANGED <<server, nav, gen, loading, hasMail, list, shown, sel, dialog, bulkBusy,
                 ops, reads, faults>>

\* The headers are decrypted and the generation is compared: the answer of a
\* load that another one has superseded is dropped.
ApplyLoad(l) ==
  /\ l.served
  /\ loads' = loads \ {l}
  /\ IF l.gen = gen
       THEN /\ Commit(l.rows, sel, DOMAIN l.rows)
            /\ shown' = l.folder /\ hasMail' = TRUE /\ loading' = FALSE
       ELSE UNCHANGED <<list, shown, sel, reads, hasMail, loading>>
  /\ UNCHANGED <<server, nav, gen, dialog, bulkBusy, ops, faults>>

\* The catch branch: 503 also hides the list.
FailLoad(l) ==
  /\ ~l.served /\ WithinBound
  /\ faults' = faults + 1
  /\ loads' = loads \ {l}
  /\ IF l.gen = gen
       THEN /\ Commit(NoRows, sel, {})
            /\ shown' = l.folder /\ loading' = FALSE
            /\ \E unavailable \in BOOLEAN : hasMail' = (hasMail /\ ~unavailable)
       ELSE UNCHANGED <<list, shown, sel, reads, hasMail, loading>>
  /\ UNCHANGED <<server, nav, gen, dialog, bulkBusy, ops>>

-----------------------------------------------------------------------------
(* Selecting *)

Page == view = "mail" /\ hasMail
RowsClickable == Page /\ ~loading /\ modal = NoModal

UnchangedBySelecting ==
  UNCHANGED <<server, nav, loadVars, shown, dialog, bulkBusy, ops, faults>>

\* A click on a row, or on its check box, which acts as one with Ctrl held.
ClickRow(m, key) ==
  /\ RowsClickable /\ m \in DOMAIN list
  /\ Select(handleMailListRowClick(sel, DOMAIN list, m, key))
  /\ UnchangedBySelecting

\* The check box of the header and Clear; both stay live while a load runs.
ClickSelectAll ==
  /\ Page /\ modal = NoModal /\ DOMAIN list # {}
  /\ Select(IF DOMAIN list \subseteq sel.ids THEN emptyMailListSelection
            ELSE selectAllVisibleMail(DOMAIN list))
  /\ UnchangedBySelecting

\* Keys reach the list under an open dialog too.
PressArrow(down, shift) ==
  /\ Page /\ DOMAIN list # {}
  /\ Select(ArrowKey(sel, DOMAIN list, down, shift))
  /\ UnchangedBySelecting

PressEscape ==
  /\ Page
  /\ Select(EscapeKey(sel))
  /\ UnchangedBySelecting

-----------------------------------------------------------------------------
(* Starting an operation *)

Start(s, op) == ops[s] = IdleOp /\ ops' = [ops EXCEPT ![s] = op]

UnchangedByStarting ==
  UNCHANGED <<server, nav, loadVars, list, shown, sel, reads, faults>>

\* The context menu of a row, opened and used before the list is reloaded.
MenuOf(m) == RowsClickable /\ m \in DOMAIN list

\* Where "Move To Inbox" and "Archive", single or in bulk, lead.
MoveTarget == IF folder \in {"trash", "archive"} THEN "inbox" ELSE "archive"

handleMoveMessage(s, m) ==
  /\ MenuOf(m) /\ MoveTarget \in Folders
  /\ Start(s, Op("move", {m}, MoveTarget))
  /\ UNCHANGED <<modal, confirming, bulkBusy>> /\ UnchangedByStarting

\* "Move To Trash": no dialog.
handleDeleteMessage(s, m) ==
  /\ MenuOf(m) /\ folder # "trash"
  /\ Start(s, Op("delete", {m}, "trash"))
  /\ UNCHANGED <<modal, confirming, bulkBusy>> /\ UnchangedByStarting

\* "Delete Permanently" in the trash, "Delete Immediately" elsewhere.
handleDeleteImmediately(m) ==
  /\ MenuOf(m)
  /\ modal' = [kind |-> "purge", ids |-> {m}]
  /\ UNCHANGED <<confirming, bulkBusy, ops>> /\ UnchangedByStarting

BulkBar ==
  Page /\ modal = NoModal /\ Cardinality(sel.ids) > 1 /\ ~bulkBusy /\ ~confirming

StartBulk(s, op) ==
  /\ BulkBar /\ Start(s, op)
  /\ bulkBusy' = TRUE
  /\ UNCHANGED <<modal, confirming>> /\ UnchangedByStarting

bulkMoveSelected(s) == MoveTarget \in Folders /\ StartBulk(s, Op("bulkMove", sel.ids, MoveTarget))

bulkTrashSelected(s) == folder # "trash" /\ StartBulk(s, Op("bulkDelete", sel.ids, "trash"))

bulkMarkReadSelected(s) ==
  LET targets == {m \in sel.ids \cap DOMAIN list : ~list[m]}
  IN  folder # "trash" /\ targets # {} /\ StartBulk(s, Op("bulkRead", targets, ""))

bulkPermDeleteSelected ==
  /\ BulkBar /\ folder = "trash"
  /\ modal' = [kind |-> "bulkPurge", ids |-> sel.ids]
  /\ UNCHANGED <<confirming, bulkBusy, ops>> /\ UnchangedByStarting

openEmptyTrashConfirm ==
  /\ Page /\ modal = NoModal /\ folder = "trash" /\ ~loading /\ ~confirming
  /\ modal' = [kind |-> "empty", ids |-> {}]
  /\ UNCHANGED <<confirming, bulkBusy, ops>> /\ UnchangedByStarting

\* Fault: the operation works on what is selected by now.
ConfirmSelection(s) ==
  /\ modal # NoModal /\ ~confirming
  /\ Start(s, Op(modal.kind, sel.ids, ""))
  /\ confirming' = TRUE
  /\ UNCHANGED <<server, nav, loadVars, list, shown, sel, modal, bulkBusy, reads, faults>>

\* onConfirm: the operation works on the messages the dialog was opened for.
Confirm(s) ==
  /\ modal # NoModal /\ ~confirming
  /\ Start(s, Op(modal.kind, modal.ids, ""))
  /\ confirming' = TRUE
  /\ UNCHANGED <<server, nav, loadVars, list, shown, sel, modal, bulkBusy, reads, faults>>

CloseModal ==
  /\ modal # NoModal /\ ~confirming
  /\ modal' = NoModal
  /\ UNCHANGED <<confirming, bulkBusy, ops>> /\ UnchangedByStarting

-----------------------------------------------------------------------------
(* Requests and replies *)

\* What one request of an operation does to message m on the server.  A
\* delete without mode=permanent moves to the trash, and away from it.
NewPlace(op, m) ==
  CASE op.kind \in {"move", "bulkMove"} -> op.dest
    [] op.kind \in {"delete", "bulkDelete"} -> IF box[m] = "trash" THEN "gone" ELSE "trash"
    [] op.kind \in {"purge", "bulkPurge", "empty"} -> "gone"
    [] OTHER -> box[m]

Apply(op, m) ==
  /\ box' = [box EXCEPT ![m] = NewPlace(op, m)]
  /\ seen' = IF op.kind = "bulkRead" THEN seen \cup {m} ELSE seen

UnchangedByServing ==
  UNCHANGED <<nav, loadVars, list, shown, sel, modal, confirming, bulkBusy, reads>>

\* The next request succeeds.
Serve(s) ==
  LET op == ops[s]  m == FirstRow(op.todo)
  IN  /\ op.todo # {} /\ box[m] # "gone"
      /\ Apply(op, m)
      /\ ops' = [ops EXCEPT ![s].todo = @ \ {m}, ![s].done = IF op.kind = "empty" THEN {} ELSE @ \cup {m}]
      /\ UNCHANGED faults /\ UnchangedByServing

\* It fails: the message is gone, or the request or its reply is lost.
ServeFails(s) ==
  LET op == ops[s]  m == FirstRow(op.todo)
  IN  /\ op.todo # {}
      /\ ops' = [ops EXCEPT ![s].todo = {}, ![s].done = {}, ![s].state = "failed"]
      /\ \/ box[m] = "gone" /\ UNCHANGED <<server, faults>>
         \/ /\ WithinBound /\ faults' = faults + 1
            /\ \/ UNCHANGED server
               \/ box[m] # "gone" /\ Apply(op, m)
      /\ UnchangedByServing

\* The next page of openEmptyTrashConfirm's loop; an empty one ends it.
FetchTrash(s) ==
  /\ ops[s].kind = "empty" /\ ops[s].state = "running" /\ ops[s].todo = {}
  /\ IF InFolder("trash") # {}
       THEN /\ ops' = [ops EXCEPT ![s].todo = InFolder("trash")]
            /\ UNCHANGED <<loadVars, list, shown, sel, reads>>
       ELSE /\ loadFolder("trash")
            /\ Commit(NoRows, emptyMailListSelection, {})
            /\ ops' = [ops EXCEPT ![s].state = "reloading", ![s].gen = gen + 1]
            /\ UNCHANGED shown
  /\ UNCHANGED <<server, nav, dialog, bulkBusy, faults>>

\* The rows an operation that succeeded takes off the list.
Removed(op) == IF op.kind = "bulkRead" THEN {} ELSE op.done

\* The list and the selection after the last reply.
Settle(op) ==
  LET removed == Removed(op)
      rows    == Without(list, removed)
  IN  IF op.kind = "bulkRead"
        THEN Commit([m \in DOMAIN list |-> list[m] \/ m \in op.done], sel, op.done)
        ELSE Commit(rows, mailListSelectionAfterRemoving(sel, removed), {})

\* The last reply of an operation, or its catch and finally branches.
Return(s) ==
  LET op == ops[s]
      ok == op.state = "running"
      asked == op.kind \in {"purge", "bulkPurge", "empty"}
  IN  /\ op # IdleOp /\ op.todo = {}
      /\ \/ op.kind # "empty"
         \/ op.state = "failed"
         \/ op.state = "reloading" /\ \A l \in loads : l.gen # op.gen
      /\ ops' = [ops EXCEPT ![s] = IdleOp]
      /\ IF ok THEN Settle(op) ELSE UNCHANGED <<list, sel, reads>>
      /\ bulkBusy' = (bulkBusy /\ op.kind \notin {"bulkMove", "bulkDelete", "bulkRead"})
      /\ confirming' = (confirming /\ ~asked)
      /\ modal' = IF asked /\ op.state # "failed" THEN NoModal ELSE modal
      /\ UNCHANGED <<server, nav, loadVars, shown, faults>>

\* setMessageRead of the mark-as-read effect, and its reply.
ReadRecorded(m) ==
  /\ m \in reads /\ box[m] # "gone"
  /\ seen' = seen \cup {m} /\ reads' = reads \ {m}
  /\ UNCHANGED <<box, nav, loadVars, list, shown, sel, dialog, bulkBusy, ops, faults>>

\* Fault: a failure leaves the mark.
ReadFailsKeepsMark(m) ==
  /\ m \in reads /\ reads' = reads \ {m}
  /\ \/ box[m] = "gone" /\ UNCHANGED faults
     \/ WithinBound /\ faults' = faults + 1
  /\ UNCHANGED <<server, nav, loadVars, list, shown, sel, dialog, bulkBusy, ops>>

\* A failure takes the mark back, and the effect, which the new row of the
\* focused message starts again, puts it on anew.
ReadFails(m) ==
  LET again == m = sel.focus /\ m \in DOMAIN list
  IN  /\ m \in reads
      /\ \/ box[m] = "gone" /\ UNCHANGED <<seen, faults>>
         \/ /\ WithinBound /\ faults' = faults + 1
            /\ seen' \in {seen, seen \cup {m}}
      /\ reads' = IF again THEN reads ELSE reads \ {m}
      /\ list' = IF m \in DOMAIN list THEN [list EXCEPT ![m] = again] ELSE list
      /\ UNCHANGED <<box, nav, loadVars, shown, sel, dialog, bulkBusy, ops>>

-----------------------------------------------------------------------------

Selecting ==
  \/ \E m \in Messages, key \in {"none", "shift", "mod"} : ClickRow(m, key)
  \/ ClickSelectAll
  \/ \E down, shift \in BOOLEAN : PressArrow(down, shift)
  \/ PressEscape

Starting ==
  \/ \E s \in Slots :
       \/ \E m \in Messages : handleMoveMessage(s, m) \/ handleDeleteMessage(s, m)
       \/ bulkMoveSelected(s) \/ bulkTrashSelected(s) \/ bulkMarkReadSelected(s)
       \/ Confirm(s)
  \/ \E m \in Messages : handleDeleteImmediately(m)
  \/ bulkPermDeleteSelected \/ openEmptyTrashConfirm \/ CloseModal

Answering ==
  \/ \E s \in Slots : Serve(s) \/ ServeFails(s) \/ FetchTrash(s) \/ Return(s)
  \/ \E m \in Messages : ReadRecorded(m) \/ ReadFails(m)

Loading ==
  \/ \E f \in Folders : OpenFolder(f)
  \/ OpenSettings \/ Refresh
  \/ \E l \in loads : ServeLoad(l) \/ ApplyLoad(l) \/ FailLoad(l)

Next == Loading \/ Selecting \/ Starting \/ Answering

Spec == Init /\ [][Next]_vars

-----------------------------------------------------------------------------
(* Properties *)

TypeOK ==
  /\ box \in [Messages -> Folders \cup {"gone"}] /\ seen \subseteq Messages
  /\ view \in {"mail", "settings"} /\ folder \in Folders
  /\ gen \in 1 .. MaxEvents + 1 /\ loading \in BOOLEAN /\ hasMail \in BOOLEAN
  /\ \A l \in loads : l.gen \in 1 .. gen /\ l.folder \in Folders
  /\ DOMAIN list \subseteq Messages /\ \A m \in DOMAIN list : list[m] \in BOOLEAN
  /\ shown \in Folders /\ sel \in Selections
  /\ modal.ids \subseteq Messages /\ confirming \in BOOLEAN /\ bulkBusy \in BOOLEAN
  /\ \A s \in Slots : ops[s].kind \in Kinds \cup {"idle"} /\ ops[s].todo \cup ops[s].done \subseteq Messages
  /\ reads \subseteq Messages
  /\ faults \in 0 .. MaxEvents

\* When the spinner is gone from the mail page, the rows are those of the
\* folder the sidebar highlights, however many loads overlapped.
ListIsOfFolder == view = "mail" /\ ~loading => shown = folder

\* The focused message and the anchor are among the selected rows, and every
\* selected row is listed.
SelectionIsListed == WellFormed(sel, DOMAIN list)

\* Only the messages the open dialog was raised for are deleted with
\* mode=permanent, whatever the keys did to the selection behind it.
AskedFirst ==
  \A s \in Slots :
    ops[s].kind \in {"purge", "bulkPurge"} =>
      confirming /\ ops[s].todo \cup ops[s].done \subseteq modal.ids

\* A row shown as read is read on the server, or is being marked.
ReadIsRecorded == \A m \in DOMAIN list : list[m] => m \in seen \/ m \in reads

\* The spinner turns exactly while the load started last is in flight, so it
\* neither sticks nor stops early when loads overtake each other.
SpinnerHasLoad == loading <=> \E l \in loads : l.gen = gen

\* No message is lost unless a dialog asked.
LossIsConfirmed ==
  [][\A m \in Messages : box[m] # "gone" /\ box'[m] = "gone" => confirming]_vars
=============================================================================
