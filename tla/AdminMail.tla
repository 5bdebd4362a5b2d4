------------------------------- MODULE AdminMail -------------------------------
(* The two mail sections of the operator panel                                 *)
(* (static/admin/admin-email-sections.jsx): system mail, which is previewed,   *)
(* confirmed and queued to selected or to all active users; the test composer, *)
(* which uploads attachments before it sends; and the key cards beside it.     *)
EXTENDS Naturals, FiniteSets

CONSTANTS
  Cards,       \* the parts a behaviour may exercise: "system", "composer", "keys"
  Users,       \* platform users, all of them active
  Files,       \* files the operator may attach
  Selectors,   \* DKIM selectors that may be typed
  MaxPresses,  \* bound on the handlers started
  MaxEdits,    \* bound on edits of the form
  MaxFaults,   \* bound on requests that fail
  None

VARIABLES
  section,  \* the card exercised
  server,   \* what the server stores
  view,     \* the component's React state
  calls,    \* handlers that have not finished
  spent     \* what has been used of the bounds

vars == <<section, server, view, calls, spent>>

Audiences == {"selected", "all_active"}
FileStates == {"absent", "local", "uploading", "uploaded"}

Picked(v) == {u \in Users : v.picked[u] > 0}

(* selectedUsers.length: Add leaves a user in the search results, so that the  *)
(* same user can be in the list twice.                                         *)
PickedLength(v) == Cardinality({<<u, n>> \in Users \X (1 .. 2) : n <= v.picked[u]})

payload(v) == [aud |-> v.aud, users |-> Picked(v), draft |-> v.draft]

validateSystemMailPayload(p) == p.aud = "selected" => p.users # {}

(* resolveAdminSystemRecipients: the server drops duplicates. *)
Recipients(p) == IF p.aud = "selected" THEN p.users ELSE Users

needsConfirm(v) ==
  \/ v.aud # "selected"
  \/ (IF v.preview # None /\ v.preview.count > 0 THEN v.preview.count ELSE PickedLength(v)) > 1

Call(h, p, x) ==
  [h |-> h, p |-> p, x |-> x, pc |-> "sent", next |-> view.files, got |-> None,
   n |-> spent.presses, confirmed |-> view.confirm /\ view.confirmOf = view.aud]

Start(v, c) ==
  /\ spent.presses < MaxPresses
  /\ view' = v
  /\ calls' = calls \cup {c}
  /\ spent' = [spent EXCEPT !.presses = @ + 1]
  /\ UNCHANGED <<section, server>>

Edit(v) ==
  /\ spent.edits < MaxEdits
  /\ view' = v
  /\ spent' = [spent EXCEPT !.edits = @ + 1]
  /\ UNCHANGED <<section, server, calls>>

-------------------------------------------------------------------------------
(* System mail. *)

ChooseAudience(a) ==
  /\ section = "system" /\ a # view.aud
  /\ Edit([view EXCEPT !.aud = a, !.preview = None, !.confirm = FALSE])

searchUsers ==
  /\ section = "system" /\ view.aud = "selected"
  /\ Start(view, Call("search", None, Picked(view)))

Add(u) ==
  /\ section = "system" /\ view.aud = "selected" /\ u \in view.found /\ view.picked[u] < 2
  /\ Edit([view EXCEPT !.picked[u] = @ + 1])

Remove(u) ==
  /\ section = "system" /\ view.aud = "selected" /\ view.picked[u] > 0
  /\ Edit([view EXCEPT !.picked[u] = 0])

EditText ==
  /\ section = "system" /\ view.draft < MaxEdits
  /\ Edit([view EXCEPT !.draft = @ + 1])

(* The box is drawn only when the send needs it, and keeps its tick.           *)
ConfirmBulk ==
  /\ section = "system" /\ needsConfirm(view)
  /\ view' = [view EXCEPT !.confirm = ~@, !.confirmOf = view.aud]
  /\ UNCHANGED <<section, server, calls, spent>>

Preview ==
  /\ section = "system"
  /\ IF validateSystemMailPayload(payload(view))
     THEN Start([view EXCEPT !.confirm = FALSE], Call("preview", payload(view), None))
     ELSE /\ view' = [view EXCEPT !.confirm = FALSE, !.preview = None]
          /\ UNCHANGED <<section, server, calls, spent>>

QueueSystemMail ==
  /\ section = "system" /\ view.preview # None /\ ~view.sending
  /\ needsConfirm(view) => view.confirm
  /\ validateSystemMailPayload(payload(view))
  /\ Start([view EXCEPT !.sending = TRUE], Call("send", payload(view), None))

(* A send queues one message for each recipient and records the run.           *)
Serve(c) ==
  /\ c.h \in {"search", "preview", "send"} /\ c.pc = "sent"
  /\ server' = IF c.h = "send" THEN [server EXCEPT !.runs = @ \cup {<<c.n, c.p>>}] ELSE server
  /\ calls' = (calls \ {c}) \cup {[c EXCEPT !.pc = "answered"]}
  /\ UNCHANGED <<section, view, spent>>

PreviewArrives(c) ==
  /\ c.h = "preview" /\ c.pc \in {"answered", "failed"}
  /\ view' = [view EXCEPT !.preview = IF c.pc = "failed" THEN None
                                      ELSE [count |-> Cardinality(Recipients(c.p)), of |-> c.p]]
  /\ calls' = calls \ {c}
  /\ UNCHANGED <<section, server, spent>>

SearchArrives(c) ==
  /\ c.h = "search" /\ c.pc \in {"answered", "failed"}
  /\ view' = IF c.pc = "failed" THEN view ELSE [view EXCEPT !.found = Users \ c.x]
  /\ calls' = calls \ {c}
  /\ UNCHANGED <<section, server, spent>>

(* The answer of a send, which has no recipient_count, becomes the preview.    *)
SendReturns(c) ==
  /\ c.h = "send" /\ c.pc \in {"answered", "failed"}
  /\ view' = IF c.pc = "failed" THEN [view EXCEPT !.sending = FALSE]
             ELSE [view EXCEPT !.sending = FALSE, !.confirm = FALSE, !.found = {},
                               !.picked = [u \in Users |-> 0],
                               !.preview = [count |-> 0, of |-> c.p]]
  /\ calls' = calls \ {c}
  /\ UNCHANGED <<section, server, spent>>

-------------------------------------------------------------------------------
(* The test composer in plaintext mode. *)

Attach(f) ==
  /\ section = "composer" /\ view.files[f] = "absent"
  /\ Edit([view EXCEPT !.files[f] = "local"])

Detach(f) ==
  /\ section = "composer" /\ view.files[f] # "absent"
  /\ Edit([view EXCEPT !.files[f] = "absent"])

(* The payload of both handlers is built from the attachments of the render    *)
(* they belong to: those are their names, with the uploads they had then.      *)
buildAttachmentPayload(v) ==
  [names |-> {f \in Files : v.files[f] # "absent"},
   ids |-> {f \in Files : v.files[f] = "uploaded"}]

runTestPreview ==
  /\ section = "composer"
  /\ Start(view, [Call("testPreview", buildAttachmentPayload(view), None) EXCEPT !.pc = "uploads"])

runTestSend ==
  /\ section = "composer" /\ ~view.sending
  /\ Start([view EXCEPT !.sending = TRUE],
           [Call("testSend", buildAttachmentPayload(view), None) EXCEPT !.pc = "uploads"])

(* ensurePlaintextUploads works on its own copy of the attachment list and     *)
(* writes all of it back around each upload.                                   *)
Wanted(c) == {f \in Files : c.next[f] \in {"local", "uploading"}}

ensurePlaintextUploads(c, f) ==
  /\ c.pc = "uploads" /\ f \in Wanted(c)
  /\ LET next == [c.next EXCEPT ![f] = "uploading"]
     IN /\ view' = [view EXCEPT !.files = next]
        /\ calls' = (calls \ {c}) \cup {[c EXCEPT !.pc = "upload", !.next = next, !.x = f]}
  /\ UNCHANGED <<section, server, spent>>

apiAdminTestUpload(c) ==
  /\ c.pc = "upload"
  /\ server' = [server EXCEPT !.uploads = @ \cup {c.x}]
  /\ calls' = (calls \ {c}) \cup {[c EXCEPT !.pc = "stored"]}
  /\ UNCHANGED <<section, view, spent>>

UploadDone(c) ==
  /\ c.pc \in {"stored", "notStored"}
  /\ LET next == [c.next EXCEPT ![c.x] = IF c.pc = "stored" THEN "uploaded" ELSE "local"]
     IN /\ view' = [view EXCEPT !.files = next]
        /\ calls' = (calls \ {c}) \cup
             {[c EXCEPT !.pc = IF c.pc = "stored" THEN "uploads" ELSE "failed", !.next = next]}
  /\ UNCHANGED <<section, server, spent>>

Posted(c) ==
  /\ c.pc = "uploads" /\ Wanted(c) = {}
  /\ calls' = (calls \ {c}) \cup {[c EXCEPT !.pc = "post"]}
  /\ UNCHANGED <<section, server, view, spent>>

(* Fault: a name without an upload id is passed over.                          *)
apiAdminTestSendLoosely(c, delivered) ==
  /\ c.pc = "post" /\ delivered
  /\ server' = IF c.h = "testSend" /\ c.p.ids \subseteq server.uploads
               THEN [server EXCEPT !.uploads = @ \ c.p.ids, !.runs = @ \cup {<<c.n, c.p>>}]
               ELSE server
  /\ calls' = (calls \ {c}) \cup {[c EXCEPT !.pc = "answered", !.got = TRUE]}
  /\ UNCHANGED <<section, view, spent>>

(* The server refuses a name without an upload id, then an id without an       *)
(* upload; a send, once past the first test, removes the uploads it names,     *)
(* delivered or not.                                                           *)
apiAdminTestSend(c, delivered) ==
  /\ c.pc = "post" /\ (c.h = "testPreview" => delivered)
  /\ LET valid == c.p.ids = c.p.names
         sent == valid /\ c.h = "testSend" /\ c.p.ids \subseteq server.uploads /\ delivered
     IN /\ server' = IF valid /\ c.h = "testSend"
                     THEN [server EXCEPT !.uploads = @ \ c.p.ids,
                                         !.runs = IF sent THEN @ \cup {<<c.n, c.p>>} ELSE @]
                     ELSE server
        /\ calls' = (calls \ {c}) \cup
             {[c EXCEPT !.pc = IF sent \/ (valid /\ c.h = "testPreview") THEN "answered" ELSE "failed",
                        !.got = valid]}
        /\ spent' = IF delivered THEN spent ELSE [spent EXCEPT !.faults = @ + 1]
        /\ ~delivered => valid /\ spent.faults < MaxFaults
  /\ UNCHANGED <<section, view>>

TestReturns(c) ==
  /\ c.h \in {"testPreview", "testSend"} /\ c.pc \in {"answered", "failed"}
  /\ view' = [view EXCEPT
       !.sending = IF c.h = "testSend" THEN FALSE ELSE @,
       !.files = IF c.h = "testSend" /\ c.pc = "answered"
                 THEN [f \in Files |-> IF @[f] = "uploaded" THEN "local" ELSE @[f]] ELSE @,
       !.refused = @ \/ c.got = FALSE]
  /\ calls' = calls \ {c}
  /\ UNCHANGED <<section, server, spent>>

-------------------------------------------------------------------------------
(* The key cards. *)

loadKeyMaterial(v) == [v EXCEPT !.keys = None]

RefreshKeys ==
  /\ section = "keys"
  /\ Start(loadKeyMaterial(view), [Call("load", None, None) EXCEPT !.pc = "load"])

TypeSelector(s) ==
  /\ section = "keys" /\ s # view.selector /\ view.asking = None
  /\ Edit([view EXCEPT !.selector = s, !.typed = TRUE])

AskGenerate(k) ==
  /\ section = "keys" /\ view.asking = None
  /\ view' = [view EXCEPT !.asking = k]
  /\ UNCHANGED <<section, server, calls, spent>>

CancelGenerate ==
  /\ view.asking # None /\ ~view.sending
  /\ view' = [view EXCEPT !.asking = None]
  /\ UNCHANGED <<section, server, calls, spent>>

(* keyActionBusy covers the generation and both reads after it.                *)
Generate ==
  /\ view.asking # None /\ ~view.sending
  /\ Start([view EXCEPT !.sending = TRUE], Call("generate", view.asking, None))

SaveDKIM ==
  /\ section = "keys" /\ view.asking = None
  /\ Start([view EXCEPT !.typed = FALSE], Call("config", view.selector, None))

UploadDKIM ==
  /\ section = "keys" /\ view.asking = None
  /\ Start(view, Call("pem", None, None))

ServeKey(c) ==
  /\ c.h \in {"generate", "config", "pem"} /\ c.pc = "sent"
  /\ server' = CASE c.h = "config" -> [server EXCEPT !.keys.selector = c.p]
                 [] c.h = "generate" /\ c.p = "relay" -> [server EXCEPT !.keys.relay = @ + 1]
                 [] OTHER -> [server EXCEPT !.keys.dkim = @ + 1]
  /\ calls' = (calls \ {c}) \cup {[c EXCEPT !.pc = "answered"]}
  /\ UNCHANGED <<section, view, spent>>

KeyReturns(c) ==
  /\ c.h \in {"generate", "config", "pem"} /\ c.pc \in {"answered", "failed"}
  /\ IF c.pc = "failed"
     THEN /\ view' = IF c.h = "generate" THEN [view EXCEPT !.sending = FALSE] ELSE view
          /\ calls' = calls \ {c}
     ELSE /\ view' = loadKeyMaterial(IF c.h = "generate" THEN [view EXCEPT !.asking = None] ELSE view)
          /\ calls' = (calls \ {c}) \cup {[c EXCEPT !.pc = "load"]}
  /\ UNCHANGED <<section, server, spent>>

ReadKeys(c) ==
  /\ c.pc = "load"
  /\ calls' = (calls \ {c}) \cup {[c EXCEPT !.pc = "loaded", !.got = server.keys, !.x = spent.reads]}
  /\ spent' = [spent EXCEPT !.reads = @ + 1]
  /\ UNCHANGED <<section, server, view>>

(* The status is shown and its selector put into the form; a status that could *)
(* not be read stays blank.  A handler that changed a key goes on to           *)
(* runReadiness.                                                               *)
KeysArrive(c) ==
  /\ c.pc \in {"loaded", "notLoaded"}
  /\ LET v == IF c.pc = "notLoaded" THEN [view EXCEPT !.keys = None]
              ELSE [view EXCEPT !.keys = c.got, !.selector = c.got.selector]
     IN view' = IF c.h = "load" THEN v ELSE [v EXCEPT !.ready = None]
  /\ calls' = (calls \ {c}) \cup
       (IF c.h = "load" THEN {} ELSE {[c EXCEPT !.pc = "ready", !.got = None, !.x = None]})
  /\ spent' = IF c.pc = "notLoaded" THEN [spent EXCEPT !.late = TRUE]
              ELSE [spent EXCEPT !.last = c.x, !.late = @ \/ c.x < spent.last]
  /\ UNCHANGED <<section, server>>

(* A probe card shows that it is loading, then the answer or the error; the    *)
(* readiness report is about the keys in use.                                  *)
runReadiness ==
  /\ section = "keys"
  /\ Start([view EXCEPT !.ready = None], [Call("probe", None, None) EXCEPT !.pc = "ready"])

ReadReadiness(c) ==
  /\ c.pc = "ready"
  /\ calls' = (calls \ {c}) \cup {[c EXCEPT !.pc = "checked", !.got = server.keys, !.x = spent.reads]}
  /\ spent' = [spent EXCEPT !.reads = @ + 1]
  /\ UNCHANGED <<section, server, view>>

ReadinessArrives(c) ==
  /\ c.pc \in {"checked", "notChecked"}
  /\ LET v == [view EXCEPT !.ready = IF c.pc = "checked" THEN c.got ELSE None]
     IN view' = IF c.h = "generate" THEN [v EXCEPT !.sending = FALSE] ELSE v
  /\ calls' = calls \ {c}
  /\ spent' = IF c.pc = "notChecked" THEN [spent EXCEPT !.late = TRUE]
              ELSE [spent EXCEPT !.lastReady = c.x, !.late = @ \/ c.x < spent.lastReady]
  /\ UNCHANGED <<section, server>>

-------------------------------------------------------------------------------
RequestFails(c) ==
  /\ c.pc \in {"sent", "upload", "post", "load", "ready"} /\ spent.faults < MaxFaults
  /\ calls' = (calls \ {c}) \cup
       {[c EXCEPT !.pc = CASE c.pc = "upload" -> "notStored"
                           [] c.pc = "load" -> "notLoaded"
                           [] c.pc = "ready" -> "notChecked"
                           [] OTHER -> "failed"]}
  /\ spent' = [spent EXCEPT !.faults = @ + 1]
  /\ UNCHANGED <<section, server, view>>

Init ==
  /\ section \in Cards
  /\ \E s \in Selectors :
       /\ server = [runs |-> {}, uploads |-> {},
                    keys |-> [relay |-> 0, dkim |-> 0, selector |-> s]]
       /\ view = [aud |-> "selected", picked |-> [u \in Users |-> 0], found |-> {},
                  draft |-> 0, preview |-> None, confirm |-> FALSE, confirmOf |-> None,
                  sending |-> FALSE, files |-> [f \in Files |-> "absent"], refused |-> FALSE,
                  keys |-> server.keys, ready |-> server.keys, selector |-> s, typed |-> FALSE, asking |-> None]
  /\ calls = {}
  /\ spent = [presses |-> 0, edits |-> 0, faults |-> 0, reads |-> 0, last |-> 0,
           lastReady |-> 0, late |-> FALSE]

Steps(c) ==
  \/ Serve(c)
  \/ PreviewArrives(c)
  \/ SearchArrives(c)
  \/ SendReturns(c)
  \/ \E f \in Files : ensurePlaintextUploads(c, f)
  \/ apiAdminTestUpload(c)
  \/ UploadDone(c)
  \/ Posted(c)
  \/ \E delivered \in BOOLEAN : apiAdminTestSend(c, delivered)
  \/ TestReturns(c)
  \/ ServeKey(c)
  \/ KeyReturns(c)
  \/ ReadKeys(c)
  \/ KeysArrive(c)
  \/ ReadReadiness(c)
  \/ ReadinessArrives(c)

Operator ==
  \/ \E a \in Audiences : ChooseAudience(a)
  \/ searchUsers
  \/ \E u \in Users : Add(u)
  \/ \E u \in Users : Remove(u)
  \/ EditText
  \/ ConfirmBulk
  \/ Preview
  \/ QueueSystemMail
  \/ \E f \in Files : Attach(f)
  \/ \E f \in Files : Detach(f)
  \/ runTestPreview
  \/ runTestSend
  \/ RefreshKeys
  \/ runReadiness
  \/ \E s \in Selectors : TypeSelector(s)
  \/ \E k \in {"relay", "dkim"} : AskGenerate(k)
  \/ CancelGenerate
  \/ Generate
  \/ SaveDKIM
  \/ UploadDKIM

Next == Operator \/ \E c \in calls : Steps(c) \/ RequestFails(c)

(* Every request is answered or fails and its continuation runs. *)
Spec == Init /\ [][Next]_vars /\ WF_vars(\E c \in calls : Steps(c))

-------------------------------------------------------------------------------
(* Every variable keeps its shape. *)
TypeOK ==
  /\ view.aud \in Audiences /\ view.picked \in [Users -> 0 .. 2] /\ view.found \subseteq Users
  /\ view.files \in [Files -> FileStates]
  /\ server.uploads \subseteq Files
  /\ view.confirm \in BOOLEAN /\ view.sending \in BOOLEAN
  /\ view.selector \in Selectors

(* A run to every active user was confirmed while that audience was chosen,    *)
(* whatever previews, searches and earlier sends finished in between.          *)
AllActiveIsConfirmed ==
  \A c \in calls : (c.h = "send" /\ c.p.aud = "all_active") => c.confirmed

(* A test message is never delivered without an attachment its payload names,  *)
(* although the list is edited and re-written while uploads are under way.     *)
DeliveredIsWhole ==
  \A r \in server.runs : section = "composer" => r[2].ids = r[2].names

(* A busy button has a handler that will release it, and only one.             *)
SendingIsOne ==
  LET senders == {c \in calls : c.h \in {"send", "testSend", "generate"}}
  IN IF view.sending THEN Cardinality(senders) = 1 ELSE senders = {}

(* At rest, when no status read failed or came out of order, the key card and  *)
(* the readiness report are about the keys the server uses.                    *)
SettledKeysAgree ==
  (calls = {} /\ ~spent.late) => (view.keys = server.keys /\ view.ready = server.keys)

(* Every handler that disabled a button enables it again. *)
SendingEnds == view.sending ~> ~view.sending

(* "Bulk sends require an explicit confirmation step": a run to more than one  *)
(* user was confirmed. Violated: users added after the preview are sent to     *)
(* without the box, which looks at the count of the preview.                   *)
BulkIsConfirmed ==
  \A c \in calls : (c.h = "send" /\ Cardinality(Recipients(c.p)) > 1) => c.confirmed

(* An attachment shown as "uploaded for plaintext send" is stored. Violated: a *)
(* send that delivers nothing removes the uploads and keeps the label.         *)
ShownUploadExists ==
  calls = {} => \A f \in Files : view.files[f] = "uploaded" => f \in server.uploads

(* A handler that uploads every attachment is not told that they were not      *)
(* uploaded. Violated: its payload is that of the render before the uploads.   *)
UploadsCount == ~view.refused

(* A selector typed and not yet saved stays in the form. Violated: a status    *)
(* read that ends meanwhile puts the stored one back.                          *)
TypedSelectorStays ==
  [][(view.typed /\ view'.typed) => (view'.selector = view.selector \/ calls' = calls)]_vars
================================================================================
