----------------------------- MODULE SettingsLists -----------------------------
(* The list sections of the settings panel (static/mail/mail-settings.jsx):    *)
(* identities, folders, filters, SMTP credentials and trusted contacts.  Each  *)
(* shows a list read from the server and runs asynchronous handlers of one     *)
(* shape: raise a busy flag, send a request, on success close a modal and read *)
(* the list again, on failure show the error, and lower the flag.  They differ *)
(* in the order of these steps and in which buttons the flags disable, which   *)
(* is what the definitions below keep.  A row is reduced to the two parts the  *)
(* handlers tell apart: a flag (a filter's "enabled", an identity's            *)
(* "is_default") and a body (the rule, the profile, the SMTP password).        *)
EXTENDS Naturals, FiniteSets

CONSTANTS
  Sections,    \* the sections a behaviour may start in
  Items,       \* the rows a list may have
  Floating,    \* identities of type plus or disposable
  MaxBody,     \* bound on the versions of a row's body
  MaxPresses,  \* bound on the handlers the user starts
  MaxUpsets,   \* bound on requests that fail, answers that are lost and sections left
  None

VARIABLES
  section,  \* the section shown
  server,   \* the rows the server stores
  view,     \* the section component's React state
  calls,    \* handlers that have not finished
  spent     \* what has been used of the bounds, and what went out of order

vars == <<section, server, view, calls, spent>>

Row == [on : BOOLEAN, body : 0 .. MaxBody]
Table == [Items -> Row \cup {None}]
Listed(rows) == {i \in Items : rows[i] # None}

Handlers == {"load", "create", "setDefault", "updateProfile", "toggleEnabled",
             "saveEdit", "executeDelete", "executeRegenerate"}
NoModal == [kind |-> None, id |-> None, row |-> None]
Modal(kind, i, row) == [kind |-> kind, id |-> i, row |-> row]
Call(n, h, i, row, pc) ==
  [n |-> n, h |-> h, id |-> i, row |-> row, pc |-> pc, rows |-> None, at |-> 0,
   live |-> TRUE]

(* What a section shows when it is mounted: an empty list under the spinner.   *)
Mounted ==
  [rows |-> [i \in Items |-> None], loading |-> TRUE, err |-> FALSE,
   ready |-> FALSE, modal |-> NoModal, creating |-> 0, deleting |-> FALSE,
   saving |-> None, saveBusy |-> FALSE]

(* Which busy flag a handler raises, whether it clears the error as it starts, *)
(* when it closes its modal, and whether it waits for the list it asks for.    *)
handleSetDefault == [flag |-> None, clears |-> FALSE, close |-> None, waits |-> TRUE]

executeDeleteIdentity ==
  [flag |-> "deleting", clears |-> FALSE, close |-> "late", waits |-> TRUE]

handleUpdateProfile ==
  [flag |-> "saving", clears |-> TRUE, close |-> None, waits |-> TRUE]

createIdentity == [flag |-> "creating", clears |-> FALSE, close |-> "early", waits |-> FALSE]

createFolder == [flag |-> "creating", clears |-> FALSE, close |-> "early", waits |-> FALSE]

deleteFolder ==
  [flag |-> "deleting", clears |-> FALSE, close |-> "late", waits |-> TRUE]

createFilter == [flag |-> None, clears |-> FALSE, close |-> "early", waits |-> TRUE]

executeDeleteFilter ==
  [flag |-> "deleting", clears |-> FALSE, close |-> "late", waits |-> TRUE]

saveEdit == [flag |-> "saveBusy", clears |-> TRUE, close |-> "early", waits |-> TRUE]

toggleEnabled == [flag |-> "saving", clears |-> TRUE, close |-> None, waits |-> TRUE]

createCred == [flag |-> "creating", clears |-> TRUE, close |-> "early", waits |-> TRUE]

executeRegenerate ==
  [flag |-> "deleting", clears |-> FALSE, close |-> "early", waits |-> TRUE]

executeRemove ==
  [flag |-> "deleting", clears |-> FALSE, close |-> "early", waits |-> TRUE]

onAdd == [flag |-> "creating", clears |-> TRUE, close |-> None, waits |-> TRUE]

onDelete == [flag |-> None, clears |-> FALSE, close |-> None, waits |-> TRUE]

Script(h) ==
  CASE section = "identities" /\ h = "create" -> createIdentity
    [] section = "identities" /\ h = "executeDelete" -> executeDeleteIdentity
    [] h = "setDefault" -> handleSetDefault
    [] h = "updateProfile" -> handleUpdateProfile
    [] section = "folders" /\ h = "create" -> createFolder
    [] section = "folders" /\ h = "executeDelete" -> deleteFolder
    [] section = "filters" /\ h = "create" -> createFilter
    [] section = "filters" /\ h = "executeDelete" -> executeDeleteFilter
    [] h = "saveEdit" -> saveEdit
    [] h = "toggleEnabled" -> toggleEnabled
    [] section = "smtp" /\ h = "create" -> createCred
    [] section = "smtp" /\ h = "executeDelete" -> executeRemove
    [] h = "executeRegenerate" -> executeRegenerate
    [] section = "contacts" /\ h = "create" -> onAdd
    [] section = "contacts" /\ h = "executeDelete" -> onDelete
    [] OTHER -> [flag |-> None, clears |-> TRUE, close |-> None, waits |-> TRUE]

(* A row is on screen unless the list is replaced by the loading note; custom  *)
(* folders, plus addresses and disposable addresses are shown through a load.  *)
identityShown(v, i) == v.rows[i] # None /\ (v.loading => i \in Floating)

folderShown(v, i) == v.rows[i] # None

filterShown(v, i) == v.rows[i] # None /\ ~v.loading

credentialShown(v, i) == v.rows[i] # None /\ ~v.loading

contactShown(v, i) == v.rows[i] # None /\ ~v.loading

Shown(v, i) ==
  CASE section = "identities" -> identityShown(v, i)
    [] section = "folders" -> folderShown(v, i)
    [] section = "filters" -> filterShown(v, i)
    [] section = "smtp" -> credentialShown(v, i)
    [] section = "contacts" -> contactShown(v, i)

(* A modal's overlay covers the page: its buttons are reached only without one. *)
Page(v) == v.modal = NoModal

Raised(v, flag, n, i) ==
  CASE flag = "creating" -> [v EXCEPT !.creating = n]
    [] flag = "deleting" -> [v EXCEPT !.deleting = TRUE]
    [] flag = "saving" -> [v EXCEPT !.saving = i]
    [] flag = "saveBusy" -> [v EXCEPT !.saveBusy = TRUE]
    [] OTHER -> v

(* The form of an identity or a folder is unmounted with its modal, so only    *)
(* the call of the form still on screen lowers the flag; savingFingerprint and *)
(* toggleLoading hold one row and are cleared whichever row they hold.         *)
Lowered(v, flag, n) ==
  CASE flag = "creating" -> IF v.creating = n THEN [v EXCEPT !.creating = 0] ELSE v
    [] flag = "deleting" -> [v EXCEPT !.deleting = FALSE]
    [] flag = "saving" -> [v EXCEPT !.saving = None]
    [] flag = "saveBusy" -> [v EXCEPT !.saveBusy = FALSE]
    [] OTHER -> v

ModalOf(h) ==
  CASE h = "create" -> {"create"}
    [] h = "saveEdit" -> {"edit"}
    [] h \in {"executeDelete", "executeRegenerate"} -> {"delete", "regenerate"}
    [] OTHER -> {}

Closed(v, h) ==
  IF v.modal.kind \in ModalOf(h)
  THEN [v EXCEPT !.modal = NoModal,
                 !.creating = IF section \in {"identities", "folders"} /\ h = "create"
                              THEN 0 ELSE @]
  ELSE v

loadStart(v) == [v EXCEPT !.loading = TRUE, !.err = FALSE]

-------------------------------------------------------------------------------
(* A handler starts: its request carries what the component held when the      *)
(* button was pressed.                                                         *)
Press(h, i, row) ==
  LET n == spent.presses + 1
      v == IF Script(h).clears THEN [view EXCEPT !.err = FALSE] ELSE view
  IN /\ spent.presses < MaxPresses
     /\ view' = Raised(v, Script(h).flag, n, i)
     /\ calls' = calls \cup {Call(n, h, i, row, "sent")}
     /\ spent' = [spent EXCEPT !.presses = n]
     /\ UNCHANGED <<section, server>>

SetModal(m) == view' = [view EXCEPT !.modal = m] /\ UNCHANGED <<section, server, calls, spent>>

OpenCreate ==
  /\ Page(view) /\ section # "contacts" /\ spent.presses < MaxPresses
  /\ section = "smtp" => view.ready
  /\ SetModal(Modal("create", None, None))

OpenConfirm(kind, i) ==
  /\ Page(view) /\ Shown(view, i) /\ section # "contacts" /\ spent.presses < MaxPresses
  /\ kind = "regenerate" => section = "smtp"
  /\ section = "identities" => ~view.rows[i].on
  /\ SetModal(Modal(kind, i, None))

openEdit(i) ==
  /\ Page(view) /\ section = "filters" /\ Shown(view, i) /\ spent.presses < MaxPresses
  /\ SetModal(Modal("edit", i, view.rows[i]))

(* Typing in the edit form changes the draft only. *)
EditDraft(row) ==
  /\ view.modal.kind = "edit" /\ view.modal.row # row
  /\ SetModal([view.modal EXCEPT !.row = row])

(* Escape, the overlay and Cancel: a confirm modal and the edit form stay      *)
(* while their handler runs, and so does the SMTP form; the identity, folder   *)
(* and filter forms close at any time.                                         *)
CloseModal ==
  /\ view.modal.kind \in {"delete", "regenerate"} => ~view.deleting
  /\ view.modal.kind = "edit" => ~view.saveBusy
  /\ view.modal.kind = "create" /\ section = "smtp" => view.creating = 0
  /\ view.modal # NoModal
  /\ view' = [view EXCEPT !.modal = NoModal,
                          !.creating = IF section \in {"identities", "folders"} THEN 0 ELSE @]
  /\ UNCHANGED <<section, server, calls, spent>>

(* The name in the form decides which identity, folder or contact is created;  *)
(* filters and credentials get a new identifier from the server.               *)
Create(i) ==
  /\ IF section = "contacts" THEN TRUE ELSE view.modal.kind = "create"
  /\ section # "filters" => view.creating = 0
  /\ Press("create", IF section \in {"filters", "smtp"} THEN None ELSE i,
           [on |-> section = "filters", body |-> 0])

SetDefault(i) ==
  /\ Page(view) /\ section = "identities" /\ Shown(view, i)
  /\ i \notin Floating /\ ~view.rows[i].on
  /\ Press("setDefault", i, None)

UpdateProfile(i, b) ==
  /\ Page(view) /\ section = "identities" /\ Shown(view, i) /\ view.saving # i
  /\ b # view.rows[i].body
  /\ Press("updateProfile", i, [on |-> FALSE, body |-> b])

ToggleEnabled(i) ==
  /\ Page(view) /\ section = "filters" /\ Shown(view, i) /\ view.saving # i
  /\ Press("toggleEnabled", i, [view.rows[i] EXCEPT !.on = ~@])

SaveEdit ==
  /\ view.modal.kind = "edit" /\ ~view.saveBusy
  /\ Press("saveEdit", view.modal.id, view.modal.row)

Confirm ==
  /\ view.modal.kind \in {"delete", "regenerate"} /\ ~view.deleting
  /\ Press(IF view.modal.kind = "delete" THEN "executeDelete" ELSE "executeRegenerate",
           view.modal.id, None)

RemoveContact(i) ==
  /\ section = "contacts" /\ Shown(view, i)
  /\ Press("executeDelete", i, None)

-------------------------------------------------------------------------------
(* What a request does to the stored rows; None when the server refuses it     *)
(* because the row is gone, or is already there.                               *)
Applied(c, i) ==
  LET old == server[i]
  IN CASE c.h = "create" ->
            IF old = None \/ section = "contacts" THEN [server EXCEPT ![i] = c.row] ELSE None
       [] old = None -> None
       [] c.h = "setDefault" ->
            [k \in Items |-> IF server[k] = None THEN None ELSE [server[k] EXCEPT !.on = k = i]]
       [] c.h = "updateProfile" -> [server EXCEPT ![i].body = c.row.body]
       [] c.h \in {"toggleEnabled", "saveEdit"} -> [server EXCEPT ![i] = c.row]
       [] c.h = "executeDelete" -> [server EXCEPT ![i] = None]
       [] c.h = "executeRegenerate" ->
            IF old.body < MaxBody THEN [server EXCEPT ![i].body = @ + 1] ELSE None

(* The row a request is about: a new filter or credential gets a free one.     *)
Target(c, i) == IF c.id = None THEN server[i] = None ELSE i = c.id

(* A call whose component was unmounted has nobody waiting for its answer.     *)
Answer(c, pc, i, row) ==
  (calls \ {c}) \cup
    (IF c.live THEN {[c EXCEPT !.pc = pc, !.id = i, !.row = row]} ELSE {})

Serve(c, i) ==
  LET rows == Applied(c, i)
  IN /\ c.pc = "sent" /\ Target(c, i)
     /\ server' = IF rows = None THEN server ELSE rows
     /\ calls' = Answer(c, IF rows = None THEN "failed" ELSE "ok", i, server'[i])
     /\ spent' = [spent EXCEPT !.unseen = @ \/ ~c.live]
     /\ UNCHANGED <<section, view>>

(* The request fails before it does anything, or its answer is lost after it.  *)
ServeFails(c) ==
  /\ c.pc = "sent" /\ spent.upsets < MaxUpsets
  /\ calls' = Answer(c, "failed", c.id, c.row)
  /\ spent' = [spent EXCEPT !.upsets = @ + 1]
  /\ UNCHANGED <<section, server, view>>

AnswerLost(c, i) ==
  /\ c.pc = "sent" /\ Target(c, i) /\ spent.upsets < MaxUpsets
  /\ Applied(c, i) # None
  /\ server' = Applied(c, i)
  /\ calls' = Answer(c, "failed", i, c.row)
  /\ spent' = [spent EXCEPT !.upsets = @ + 1, !.unseen = TRUE]
  /\ UNCHANGED <<section, view>>

(* The catch branch: the error is shown, the modal stays, the flag goes down.  *)
Failed(c) ==
  /\ c.pc = "failed"
  /\ view' = Lowered([view EXCEPT !.err = TRUE], Script(c.h).flag, c.n)
  /\ calls' = calls \ {c}
  /\ UNCHANGED <<section, server, spent>>

(* The answer of an SMTP request brings the password, shown this once.         *)
Reveal(v, c) ==
  IF section = "smtp" /\ c.h \in {"create", "executeRegenerate"}
  THEN [v EXCEPT !.modal = Modal("shown", c.id, c.row)]
  ELSE v

(* Fault: the list is not read again.                                          *)
SucceededNoReload(c) ==
  /\ c.pc = "ok"
  /\ view' = Lowered(Closed(view, c.h), Script(c.h).flag, c.n)
  /\ calls' = calls \ {c}
  /\ UNCHANGED <<section, server, spent>>

(* The success branch up to its read of the list.                              *)
Succeeded(c) ==
  LET s == Script(c.h)
      v == IF s.close = "early" THEN Closed(view, c.h) ELSE view
  IN /\ c.pc = "ok"
     /\ view' = Reveal(loadStart(IF s.waits THEN v ELSE Lowered(v, s.flag, c.n)), c)
     /\ calls' = (calls \ {c}) \cup
                   {[c EXCEPT !.pc = "list", !.h = IF s.waits THEN @ ELSE "load"]}
     /\ UNCHANGED <<section, server, spent>>

ReadList(c) ==
  /\ c.pc = "list"
  /\ calls' = (calls \ {c}) \cup
                {[c EXCEPT !.pc = "listed", !.rows = server, !.at = spent.reads + 1]}
  /\ spent' = [spent EXCEPT !.reads = @ + 1]
  /\ UNCHANGED <<section, server, view>>

ReadFails(c) ==
  /\ c.pc = "list" /\ spent.upsets < MaxUpsets
  /\ calls' = (calls \ {c}) \cup {[c EXCEPT !.pc = "unlisted"]}
  /\ spent' = [spent EXCEPT !.upsets = @ + 1]
  /\ UNCHANGED <<section, server, view>>

(* The rest of a handler after its read of the list, which catches its own     *)
(* errors: late modals close and the flag goes down either way.                *)
Ended(v, c) ==
  LET s == Script(c.h)
      w == [v EXCEPT !.loading = FALSE]
  IN Lowered(IF s.close = "late" THEN Closed(w, c.h) ELSE w, s.flag, c.n)

ListArrives(c) ==
  /\ c.pc = "listed"
  /\ view' = Ended([view EXCEPT !.rows = c.rows, !.ready = TRUE], c)
  /\ calls' = calls \ {c}
  /\ spent' = [spent EXCEPT !.last = c.at, !.unseen = @ \/ c.at < spent.last]
  /\ UNCHANGED <<section, server>>

ListFails(c) ==
  /\ c.pc = "unlisted"
  /\ view' = Ended([view EXCEPT !.err = TRUE], c)
  /\ calls' = calls \ {c}
  /\ UNCHANGED <<section, server, spent>>

(* Another section is chosen and this one opened again: the component mounts   *)
(* afresh, and requests already sent are still carried out.                    *)
Leave ==
  /\ Page(view) /\ spent.upsets < MaxUpsets
  /\ view' = Mounted
  /\ calls' = {[c EXCEPT !.live = FALSE] : c \in {d \in calls : d.pc = "sent"}}
                \cup {Call(0, "load", None, None, "list")}
  /\ spent' = [spent EXCEPT !.upsets = @ + 1]
  /\ UNCHANGED <<section, server>>

-------------------------------------------------------------------------------
Init ==
  /\ section \in Sections
  /\ \E S \in SUBSET Items :
       server = [i \in Items |->
                  IF i \in S
                  THEN [on |-> section = "identities" /\ i = CHOOSE k \in S : TRUE, body |-> 0]
                  ELSE None]
  /\ view = Mounted
  /\ calls = {Call(0, "load", None, None, "list")}
  /\ spent = [presses |-> 0, upsets |-> 0, reads |-> 0, last |-> 0,
              unseen |-> FALSE]

Steps(c) ==
  \/ \E i \in Items : Serve(c, i)
  \/ Failed(c)
  \/ Succeeded(c)
  \/ ReadList(c)
  \/ ListArrives(c)
  \/ ListFails(c)

Faults(c) == ServeFails(c) \/ ReadFails(c) \/ \E i \in Items : AnswerLost(c, i)

User ==
  \/ OpenCreate
  \/ \E i \in Items, kind \in {"delete", "regenerate"} : OpenConfirm(kind, i)
  \/ \E i \in Items : openEdit(i)
  \/ \E row \in Row : EditDraft(row)
  \/ CloseModal
  \/ \E i \in Items : Create(i)
  \/ \E i \in Items : SetDefault(i)
  \/ \E i \in Items, b \in 0 .. MaxBody : UpdateProfile(i, b)
  \/ \E i \in Items : ToggleEnabled(i)
  \/ SaveEdit
  \/ Confirm
  \/ \E i \in Items : RemoveContact(i)
  \/ Leave

Next == User \/ \E c \in calls : Steps(c) \/ Faults(c)

(* Every request is served or fails and its continuation runs: the network and *)
(* the browser's task queue starve nobody.                                     *)
Spec == Init /\ [][Next]_vars /\ WF_vars(\E c \in calls : Steps(c))

-------------------------------------------------------------------------------
(* Type invariant of the section's component, its calls and the server's rows. *)
TypeOK ==
  /\ section \in Sections
  /\ server \in Table
  /\ view \in [rows : Table, loading : BOOLEAN, err : BOOLEAN, ready : BOOLEAN,
               modal : [kind : {None, "create", "delete", "regenerate", "edit", "shown"},
                        id : Items \cup {None}, row : Row \cup {None}],
               creating : 0 .. MaxPresses, deleting : BOOLEAN,
               saving : Items \cup {None}, saveBusy : BOOLEAN]
  /\ \A c \in calls :
       /\ c.h \in Handlers /\ c.n \in 0 .. MaxPresses
       /\ c.id \in Items \cup {None} /\ c.row \in Row \cup {None}
       /\ c.pc \in {"sent", "ok", "failed", "list", "listed", "unlisted"}
       /\ c.rows \in Table \cup {None} /\ c.live \in BOOLEAN

Reading(c) == c.pc \in {"list", "listed", "unlisted"}

(* No spinner is stuck: a section that shows "Loading..." has a read of its    *)
(* list on the way that will take the note down.                               *)
SpinnerHasLoad == view.loading => \E c \in calls : c.live /\ Reading(c)

(* No button is disabled for good: every busy flag (deleteLoading and          *)
(* actionLoading, savingFingerprint and toggleLoading, saveLoading, a form's   *)
(* loading) is held by a handler of this mount that lowers it when it ends.    *)
BusyHasCall ==
  LET Running(hs) == {c \in calls : c.live /\ c.h \in hs}
  IN /\ view.deleting => Running({"executeDelete", "executeRegenerate"}) # {}
     /\ view.saving # None =>
          \E c \in Running({"updateProfile", "toggleEnabled"}) : c.id = view.saving
     /\ view.saveBusy => Running({"saveEdit"}) # {}
     /\ view.creating # 0 => \E c \in Running({"create"}) : c.n = view.creating

(* The SMTP password on screen, which "is shown only once", is the one the     *)
(* server accepts for that credential: no other regeneration can be under way. *)
ShownPasswordWorks == view.modal.kind = "shown" => server[view.modal.id] = view.modal.row

(* When nothing is running, no error is shown, every answer reached its        *)
(* handler and lists arrived in the order they were read, the list on screen   *)
(* is the server's: each handler reads it again after its change.              *)
SettledListAgrees ==
  calls = {} /\ ~view.err /\ ~spent.unseen => view.rows = server

(* Every spinner and every busy flag goes down in the end.                     *)
BusyEnds ==
  [](view.loading \/ view.deleting \/ view.saveBusy \/ view.saving # None
       => <>(~view.loading /\ ~view.deleting /\ ~view.saveBusy /\ view.saving = None))

(* An account that has a default identity keeps one.  Violated: a row drawn    *)
(* before "set default" was answered still offers deletion, and the server     *)
(* deletes any identity.                                                       *)
DefaultKept ==
  [][section = "identities" /\ (\E i \in Listed(server) : server[i].on) /\ Listed(server') # {}
       => \E i \in Listed(server') : server'[i].on]_vars

(* At most one request that replaces a whole filter rule is out per rule.      *)
(* Violated: a rule may be edited while its toggle is still under way, and     *)
(* each request carries the whole rule as it was drawn before the other.       *)
OneWriterPerRule ==
  \A c, d \in calls :
    (/\ {c.h, d.h} \subseteq {"toggleEnabled", "saveEdit"}
     /\ c.pc = "sent" /\ d.pc = "sent" /\ c.id = d.id) => c = d
================================================================================
