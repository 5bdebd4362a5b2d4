---------------------------- MODULE SettingsDomains ----------------------------
(* The custom-domains section of the settings panel                            *)
(* (CustomDomainsSection, static/mail/mail-settings.jsx): domains are added,   *)
(* verified, given a catch-all identity and removed, each by a handler that    *)
(* reads the list again and goes on with what it closed over when it started.  *)
EXTENDS Naturals, FiniteSets

CONSTANTS
  Domains,     \* domains the user may add
  Targets,     \* identities a catch-all may route to
  MaxPresses,  \* bound on the handlers the user starts
  MaxFaults,   \* bound on requests that fail
  MaxChanges,  \* bound on how often published DNS records change
  None

VARIABLES
  section,  \* "domains"
  server,   \* the stored domains, whether the account is paid, the DNS
  view,     \* the component's React state
  calls,    \* handlers that have not finished
  spent     \* what has been used of the bounds, and whether an answer was late

vars == <<section, server, view, calls, spent>>

(* normalizeCustomDomainRecord: of a stored domain the page tells apart        *)
(* whether it is ready and where unmatched addresses go.                       *)
Row == [ready : BOOLEAN, catchall : Targets \cup {None}]

Pending == [ready |-> FALSE, catchall |-> None]

NoRows == [d \in Domains |-> None]

NoDetail == [domain |-> None, result |-> None, draft |-> None]

Call(h, d, x) ==
  [h |-> h, d |-> d, x |-> x, pc |-> IF h = "load" THEN "list" ELSE "sent",
   closure |-> view.rows, result |-> None, rows |-> NoRows, at |-> 0]

(* The flag each handler holds while it runs. *)
FlagOf(h) ==
  CASE h = "add" -> "busyAdd"
    [] h = "verify" -> "verifyLoading"
    [] h = "catchall" -> "catchallLoading"
    [] h = "remove" -> "deleteLoading"
    [] OTHER -> None

(* The effect on [detailDomainName, domains]: a setup modal whose domain is no *)
(* longer listed is closed.                                                    *)
pruned(v) ==
  IF v.detail.domain # None /\ v.rows[v.detail.domain] = None
  THEN [v EXCEPT !.detail = NoDetail] ELSE v

openDomainDetails(v, d, row, result) ==
  pruned([v EXCEPT !.detail = [domain |-> d, result |-> result, draft |-> row.catchall]])

loadStart(v) == [v EXCEPT !.loading = TRUE, !.err = FALSE]

-------------------------------------------------------------------------------
Show(v) == view' = v /\ UNCHANGED <<section, server, calls, spent>>

Page == view.modal = None /\ view.detail = NoDetail

Press(h, d, x) ==
  /\ spent.presses < MaxPresses
  /\ view' = [view EXCEPT !.busy = @ \cup {FlagOf(h)}, !.err = FALSE]
  /\ calls' = calls \cup {Call(h, d, x)}
  /\ spent' = [spent EXCEPT !.presses = @ + 1]
  /\ UNCHANGED <<section, server>>

OpenAdd == Page /\ view.paid /\ Show([view EXCEPT !.modal = "add"])

Manage(d) ==
  /\ Page /\ ~view.loading /\ view.rows[d] # None
  /\ Show(openDomainDetails(view, d, view.rows[d], None))

removeOne(d) ==
  /\ Page /\ ~view.loading /\ view.rows[d] # None
  /\ Show([view EXCEPT !.modal = "remove", !.confirm = d])

CloseModal ==
  /\ view.modal # None
  /\ view.busy \cap {"busyAdd", "deleteLoading"} = {}
  /\ Show([view EXCEPT !.modal = None, !.confirm = None])

closeDomainDetails ==
  /\ view.detail # NoDetail
  /\ view.busy \cap {"verifyLoading", "catchallLoading"} = {}
  /\ Show([view EXCEPT !.detail = NoDetail])

(* validateCustomDomainInput accepted what was typed. *)
handleAdd(d) ==
  /\ view.modal = "add" /\ view.paid /\ "busyAdd" \notin view.busy
  /\ Press("add", d, None)

verifySelectedDomain ==
  /\ view.detail # NoDetail /\ "verifyLoading" \notin view.busy
  /\ Press("verify", view.detail.domain, None)

(* The catch-all controls of a ready domain: the select is disabled only by a  *)
(* save, and Save is disabled unless the draft differs from the stored value.  *)
Choosing ==
  /\ view.detail # NoDetail /\ "catchallLoading" \notin view.busy
  /\ view.rows[view.detail.domain].ready

ChooseCatchall(t) ==
  /\ Choosing /\ t # view.detail.draft
  /\ Show([view EXCEPT !.detail.draft = t])

saveCatchall ==
  /\ Choosing /\ view.detail.draft # view.rows[view.detail.domain].catchall
  /\ Press("catchall", view.detail.domain, view.detail.draft)

executeRemoveDomain ==
  /\ view.modal = "remove" /\ "deleteLoading" \notin view.busy
  /\ Press("remove", view.confirm, None)

-------------------------------------------------------------------------------
(* What a request does to the stored domains; None when it is refused.         *)
Applied(c) ==
  LET old == server.rows[c.d]
  IN CASE c.h = "add" -> IF old = None THEN [server.rows EXCEPT ![c.d] = Pending] ELSE None
       [] old = None -> None
       [] c.h = "verify" -> [server.rows EXCEPT ![c.d].ready = c.d \in server.dns]
       [] c.h = "catchall" -> [server.rows EXCEPT ![c.d].catchall = c.x]
       [] c.h = "remove" -> [server.rows EXCEPT ![c.d] = None]

Moved(c, d) == calls' = (calls \ {c}) \cup {d}

Serve(c) ==
  LET rows == Applied(c)
  IN /\ c.pc = "sent"
     /\ server' = IF rows = None THEN server ELSE [server EXCEPT !.rows = rows]
     /\ Moved(c, [c EXCEPT !.pc = IF rows = None THEN "failed" ELSE "ok",
                           !.result = IF c.h = "verify" /\ rows # None
                                      THEN [d |-> c.d, ready |-> rows[c.d].ready] ELSE None])
     /\ UNCHANGED <<section, view, spent>>

ServeFails(c) ==
  /\ c.pc \in {"sent", "list"} /\ spent.faults < MaxFaults
  /\ Moved(c, [c EXCEPT !.pc = IF c.pc = "sent" THEN "failed" ELSE "unlisted"])
  /\ spent' = [spent EXCEPT !.faults = @ + 1, !.late = @ \/ c.pc = "list"]
  /\ UNCHANGED <<section, server, view>>

(* Fault: an error leaves the button disabled.                                 *)
FailedBusy(c) ==
  /\ c.pc = "failed"
  /\ view' = [view EXCEPT !.err = TRUE]
  /\ calls' = calls \ {c}
  /\ UNCHANGED <<section, server, spent>>

(* The catch branch of a handler: its modal stays open. *)
Failed(c) ==
  /\ c.pc = "failed"
  /\ view' = [view EXCEPT !.err = TRUE, !.busy = @ \ {FlagOf(c.h)}]
  /\ calls' = calls \ {c}
  /\ UNCHANGED <<section, server, spent>>

(* The success branch up to its read of the list. *)
Succeeded(c) ==
  /\ c.pc = "ok"
  /\ view' = LET v == loadStart(view)
             IN IF c.h = "verify" THEN [v EXCEPT !.detail.result = c.result] ELSE v
  /\ Moved(c, [c EXCEPT !.pc = "list"])
  /\ UNCHANGED <<section, server, spent>>

(* load: the billing answer decides whether the domains are asked for.         *)
ReadList(c) ==
  /\ c.pc = "list"
  /\ Moved(c, [c EXCEPT !.pc = "listed", !.at = spent.reads + 1,
                        !.rows = IF server.paid THEN server.rows ELSE NoRows])
  /\ spent' = [spent EXCEPT !.reads = @ + 1]
  /\ UNCHANGED <<section, server, view>>

(* What each handler does after its read: an added domain is opened from the   *)
(* refreshed list, a verified one from the list the handler closed over.       *)
Continue(v, c, listed) ==
  CASE c.h = "add" ->
         openDomainDetails([v EXCEPT !.modal = None], c.d,
           IF listed /\ c.rows[c.d] # None THEN c.rows[c.d] ELSE Pending, None)
    [] c.h = "verify" ->
         IF c.closure[c.d] = None THEN v
         ELSE openDomainDetails(v, c.d, c.closure[c.d], c.result)
    [] c.h = "remove" -> [v EXCEPT !.modal = None, !.confirm = None]
    [] OTHER -> v

ListArrives(c) ==
  LET v == pruned([view EXCEPT !.rows = c.rows, !.loading = FALSE, !.paid = server.paid])
  IN /\ c.pc = "listed"
     /\ view' = [Continue(v, c, TRUE) EXCEPT !.busy = @ \ {FlagOf(c.h)}]
     /\ calls' = calls \ {c}
     /\ spent' = [spent EXCEPT !.last = c.at, !.late = @ \/ c.at < spent.last]
     /\ UNCHANGED <<section, server>>

ListFails(c) ==
  LET v == [view EXCEPT !.err = TRUE, !.loading = FALSE]
  IN /\ c.pc = "unlisted"
     /\ view' = [Continue(v, c, FALSE) EXCEPT !.busy = @ \ {FlagOf(c.h)}]
     /\ calls' = calls \ {c}
     /\ UNCHANGED <<section, server, spent>>

(* Somebody publishes or withdraws a domain's records. *)
DnsChanges(d) ==
  /\ spent.changes < MaxChanges
  /\ server' = [server EXCEPT !.dns = IF d \in @ THEN @ \ {d} ELSE @ \cup {d}]
  /\ spent' = [spent EXCEPT !.changes = @ + 1]
  /\ UNCHANGED <<section, view, calls>>

-------------------------------------------------------------------------------
Init ==
  /\ section = "domains"
  /\ \E S \in SUBSET Domains, paid \in BOOLEAN :
       server = [rows |-> [d \in Domains |->
                            IF d \in S THEN [ready |-> TRUE, catchall |-> None] ELSE None],
                 paid |-> paid, dns |-> S]
  /\ view = [rows |-> NoRows, loading |-> TRUE, err |-> FALSE, paid |-> FALSE, modal |-> None,
             confirm |-> None, detail |-> NoDetail, busy |-> {}]
  /\ calls = {Call("load", None, None)}
  /\ spent = [presses |-> 0, faults |-> 0, changes |-> 0, reads |-> 0, last |-> 0,
              late |-> FALSE]

Steps(c) ==
  \/ Serve(c)
  \/ Failed(c)
  \/ Succeeded(c)
  \/ ReadList(c)
  \/ ListArrives(c)
  \/ ListFails(c)

User ==
  \/ OpenAdd
  \/ \E d \in Domains : Manage(d)
  \/ \E d \in Domains : removeOne(d)
  \/ CloseModal
  \/ closeDomainDetails
  \/ \E d \in Domains : handleAdd(d)
  \/ verifySelectedDomain
  \/ \E t \in Targets \cup {None} : ChooseCatchall(t)
  \/ saveCatchall
  \/ executeRemoveDomain

Next ==
  \/ User
  \/ \E d \in Domains : DnsChanges(d)
  \/ \E c \in calls : Steps(c) \/ ServeFails(c)

(* Every request is served or fails and its continuation runs. *)
Spec == Init /\ [][Next]_vars /\ WF_vars(\E c \in calls : Steps(c))

-------------------------------------------------------------------------------
(* Every variable keeps its shape. *)
TypeOK ==
  /\ server.rows \in [Domains -> Row \cup {None}]
  /\ view.rows \in [Domains -> Row \cup {None}]
  /\ view.detail.domain \in Domains \cup {None}
  /\ view.modal \in {None, "add", "remove"}
  /\ view.busy \subseteq {"busyAdd", "verifyLoading", "catchallLoading", "deleteLoading"}
  /\ \A c \in calls : c.h \in {"load", "add", "verify", "catchall", "remove"}

(* A spinner belongs to a handler that still runs, and each handler runs once  *)
(* at a time: no button stays disabled after a failure, and no second add,     *)
(* verification, save or removal starts under the first.                       *)
OneHandlerPerFlag ==
  /\ \A flag \in view.busy : Cardinality({c \in calls : FlagOf(c.h) = flag}) = 1
  /\ \A c \in calls : FlagOf(c.h) \in view.busy \cup {None}

(* The setup modal is about one domain: it is listed, and the verification     *)
(* result it shows, and any verification or save still running, are of that    *)
(* domain.                                                                     *)
DetailIsOneDomain ==
  view.detail # NoDetail =>
    /\ view.rows[view.detail.domain] # None
    /\ view.detail.result # None => view.detail.result.d = view.detail.domain
    /\ \A c \in calls : c.h \in {"verify", "catchall"} => c.d = view.detail.domain

(* At rest, with no list that failed or came late, the domains shown are the   *)
(* stored ones.                                                                *)
SettledListAgrees ==
  (calls = {} /\ ~view.err /\ ~spent.late /\ server.paid) => view.rows = server.rows

(* Every handler ends and its button comes back. *)
BusyEnds == (view.busy # {}) ~> (view.busy = {})

(* The catch-all the modal offers to save is what the user chose there: a      *)
(* handler that finishes leaves the choice alone while the modal stays open.   *)
DraftIsChosen ==
  [][ (/\ view.detail # NoDetail
       /\ view'.detail.domain = view.detail.domain
       /\ \E c \in calls : c.pc \in {"listed", "unlisted"} /\ c \notin calls')
      => view'.detail.draft = view.detail.draft ]_vars
================================================================================
