------------------------------ MODULE AdminTables ------------------------------
(* The directory sections of the operator panel                                *)
(* (static/admin/admin-email-sections.jsx): users, outbox rows and custom      *)
(* domains.  Each shows one page of a list that an effect reads again whenever *)
(* the page or the filter changes, and runs handlers that change a row and     *)
(* call the "load" of the render they were created in.                         *)
EXTENDS Naturals, FiniteSets

CONSTANTS
  Tables,      \* the sections a behaviour may start in
  NumItems,    \* users, outbox rows or domains there may be
  PageSize,    \* rows on a page
  Modes,       \* share modes of a domain
  MaxPresses,  \* bound on what the operator starts
  MaxViews,    \* bound on the detail modals opened
  MaxFaults,   \* bound on requests that fail
  None

VARIABLES
  section,  \* the section shown
  server,   \* the stored rows
  view,     \* the section component's React state
  calls,    \* reads and handlers that have not finished
  spent     \* what has been used of the bounds, and whether a list was missed

vars == <<section, server, view, calls, spent>>

Items == 1 .. NumItems
Pages == 1 .. NumItems
Texts == {"", "x"}

(* A row's flag is a user's "not disabled", an outbox row's "failed" and a     *)
(* domain's "verified".                                                        *)
Row == [up : BOOLEAN, mode : Modes]
DefaultMode == CHOOSE m \in Modes : TRUE
NoRows == [i \in Items |-> None]

Matches(rows, i, t) ==
  /\ rows[i] # None
  /\ t # "" => CASE section = "adminUsers" -> i = 1
                 [] section = "adminOutbox" -> rows[i].up
                 [] OTHER -> TRUE

(* The page of the list that a query answers with, and the total beside it.    *)
PageOf(rows, q) ==
  LET hits == {i \in Items : Matches(rows, i, q.text)}
      rank(i) == Cardinality({j \in hits : j <= i})
  IN [i \in Items |->
       IF i \in hits /\ rank(i) \in (q.page - 1) * PageSize + 1 .. q.page * PageSize
       THEN rows[i] ELSE None]

TotalOf(rows, q) == Cardinality({i \in Items : Matches(rows, i, q.text)})

Listed(rows) == {i \in Items : rows[i] # None}

Call(h, i, x, pc) ==
  [h |-> h, i |-> i, x |-> x, q |-> view.q, pc |-> pc, rows |-> NoRows, total |-> 0,
   at |-> 0, n |-> spent.presses + 1, live |-> TRUE]

Load(q) == [Call("load", None, None, "list") EXCEPT !.q = q]

loading(v) == [v EXCEPT !.loading = TRUE]

(* Nothing lies over the table. *)
Page == view.selected = None /\ view.confirm = None

Start(v, cs) ==
  /\ spent.presses < MaxPresses
  /\ view' = v
  /\ calls' = calls \cup cs
  /\ spent' = [spent EXCEPT !.presses = @ + 1]
  /\ UNCHANGED <<section, server>>

-------------------------------------------------------------------------------
(* Prev, Next, the filter buttons, a key typed in the search box: the effect   *)
(* on [load] reads the new page.                                               *)
Prev ==
  /\ Page /\ view.q.page > 1
  /\ LET q == [view.q EXCEPT !.page = @ - 1]
     IN Start(loading([view EXCEPT !.q = q]), {Load(q)})

NextPage ==
  /\ Page
  /\ IF section = "adminOutbox"
     THEN Cardinality(Listed(view.rows)) = PageSize
     ELSE (view.q.page - 1) * PageSize + Cardinality(Listed(view.rows)) < view.total
  /\ view.q.page < NumItems
  /\ LET q == [view.q EXCEPT !.page = @ + 1]
     IN Start(loading([view EXCEPT !.q = q]), {Load(q)})

Filter(t) ==
  /\ Page /\ section \in {"adminUsers", "adminOutbox"} /\ t # view.q.text
  /\ LET q == [text |-> t, page |-> IF section = "adminOutbox" THEN 1 ELSE view.q.page]
     IN Start(loading([view EXCEPT !.q = q]), {Load(q)})

(* The search form asks with the page it closed over, and the effect asks      *)
(* again when going to page one changes it.                                    *)
SubmitSearch ==
  /\ Page /\ section = "adminUsers"
  /\ LET q == [view.q EXCEPT !.page = 1]
     IN Start(loading([view EXCEPT !.q = q]),
              {Load(view.q)} \cup (IF q = view.q THEN {} ELSE {[Load(q) EXCEPT !.n = 0]}))

Refresh == Page /\ section = "adminOutbox" /\ Start(loading(view), {Load(view.q)})

(* View: the detail modal.  For a domain an effect fetches its sharing.        *)
View(i) ==
  /\ Page /\ section \in {"adminUsers", "adminDomains"} /\ view.rows[i] # None
  /\ spent.views < MaxViews
  /\ view' = [view EXCEPT !.selected = i, !.loadErr = FALSE]
  /\ calls' = calls \cup (IF section = "adminDomains" THEN {Call("detail", i, None, "fetch")} ELSE {})
  /\ spent' = [spent EXCEPT !.views = @ + 1]
  /\ UNCHANGED <<section, server>>

(* Closing the detail modal: the users section reads its page again; a fetch   *)
(* of a domain's sharing is cancelled.                                         *)
closeModal ==
  /\ view.selected # None /\ view.confirm = None
  /\ view' = IF section = "adminUsers"
             THEN loading([view EXCEPT !.selected = None, !.busy = None])
             ELSE [view EXCEPT !.selected = None]
  /\ calls' = {c \in calls : c.h # "detail"} \cup
                (IF section = "adminUsers" THEN {[Load(view.q) EXCEPT !.n = 0]} ELSE {})
  /\ UNCHANGED <<section, server, spent>>

AskConfirm(kind, i) ==
  /\ view.confirm = None
  /\ CASE section = "adminUsers" -> kind \in {"disable", "delete"} /\ i = view.selected /\ view.busy = None
       [] section = "adminDomains" -> kind = "delete" /\
            IF view.selected = None THEN view.rows[i] # None /\ view.busy # <<"delete", i>>
                                    ELSE i = view.selected /\ view.busy = None
       [] OTHER -> FALSE
  /\ view' = [view EXCEPT !.confirm = <<kind, i>>]
  /\ UNCHANGED <<section, server, calls, spent>>

CancelConfirm ==
  /\ view.confirm # None /\ view.busy = None
  /\ view' = [view EXCEPT !.confirm = None]
  /\ UNCHANGED <<section, server, calls, spent>>

Confirm ==
  /\ view.confirm # None /\ view.busy = None
  /\ Start([view EXCEPT !.busy = view.confirm],
           {Call(view.confirm[1], view.confirm[2], None, "sent")})

retry(i) ==
  /\ section = "adminOutbox" /\ view.rows[i] # None /\ view.rows[i].up
  /\ Start(view, {Call("retry", i, None, "sent")})

registerDomain(i) ==
  /\ section = "adminDomains" /\ Page /\ view.busy # <<"add", None>>
  /\ Start([view EXCEPT !.busy = <<"add", None>>], {Call("add", i, None, "sent")})

verifyDomain(i) ==
  /\ section = "adminDomains" /\ view.confirm = None
  /\ IF view.selected = None THEN view.rows[i] # None /\ view.busy # <<"verify", i>>
                             ELSE i = view.selected /\ view.busy = None
  /\ Start([view EXCEPT !.busy = <<"verify", i>>], {Call("verify", i, None, "sent")})

ChooseMode(m) ==
  /\ section = "adminDomains" /\ view.selected # None /\ view.confirm = None /\ m # view.mode
  /\ spent.presses < MaxPresses
  /\ view' = [view EXCEPT !.mode = m, !.modeOf = view.selected]
  /\ UNCHANGED <<section, server, calls, spent>>

(* The modal is one component for every domain: its share mode, its busy flag  *)
(* and this handler outlive a change of domain.                                *)
saveSharing ==
  /\ section = "adminDomains" /\ view.selected # None /\ view.confirm = None
  /\ ~view.shareBusy /\ ~view.loadErr
  /\ Start([view EXCEPT !.shareBusy = TRUE], {Call("share", view.selected, view.mode, "sent")})

-------------------------------------------------------------------------------
(* Fault: the state of the row is not looked at.                               *)
AppliedBlindly(c, ok) ==
  IF server[c.i] = None THEN None ELSE [server EXCEPT ![c.i].up = FALSE]

(* What a request does to the rows; None when the row is not there (or, for a  *)
(* new domain, already is).  A verification finds the records or it does not.  *)
Applied(c, ok) ==
  LET rows == server
      old == rows[c.i]
  IN CASE c.h = "add" ->
            IF old = None THEN [rows EXCEPT ![c.i] = [up |-> FALSE, mode |-> DefaultMode]] ELSE None
       [] old = None -> None
       [] c.h = "disable" -> [rows EXCEPT ![c.i].up = FALSE]
       [] c.h = "delete" -> [rows EXCEPT ![c.i] = None]
       [] c.h = "retry" -> IF old.up THEN [rows EXCEPT ![c.i].up = FALSE] ELSE None
       [] c.h = "verify" -> [rows EXCEPT ![c.i].up = ok]
       [] c.h = "share" -> [rows EXCEPT ![c.i].mode = c.x]

Moved(c, d) == calls' = (calls \ {c}) \cup {d}

Serve(c, ok) ==
  /\ c.pc = "sent" /\ (c.h # "verify" => ok)
  /\ LET rows == Applied(c, ok)
     IN /\ server' = IF rows = None THEN server ELSE rows
        /\ Moved(c, [c EXCEPT !.pc = IF rows = None THEN "failed" ELSE "ok"])
  /\ UNCHANGED <<section, view, spent>>

RequestFails(c) ==
  /\ c.pc \in {"sent", "list", "fetch"} /\ spent.faults < MaxFaults
  /\ Moved(c, [c EXCEPT !.pc = CASE c.pc = "sent" -> "failed"
                                 [] c.pc = "list" -> "unlisted"
                                 [] OTHER -> "unfetched"])
  /\ spent' = [spent EXCEPT !.faults = @ + 1, !.missed = @ \/ c.pc = "list"]
  /\ UNCHANGED <<section, server, view>>

(* The catch branches: a failed retry is an unhandled rejection.               *)
Failed(c) ==
  /\ c.pc = "failed"
  /\ view' = CASE c.h = "retry" -> view
               [] c.h = "share" -> [view EXCEPT !.shareBusy = FALSE]
               [] OTHER -> [view EXCEPT !.busy = None]
  /\ calls' = calls \ {c}
  /\ UNCHANGED <<section, server, spent>>

(* Fault: the list is not read again.                                          *)
SucceededNoReload(c) ==
  /\ c.pc = "ok" /\ c.h # "share"
  /\ view' = [view EXCEPT !.confirm = None, !.selected = None, !.busy = None]
  /\ calls' = calls \ {c}
  /\ UNCHANGED <<section, server, spent>>

(* The success branches up to the list they read again.                        *)
Succeeded(c) ==
  /\ c.pc = "ok" /\ c.h # "share"
  /\ view' = LET v == loading(view)
             IN CASE section = "adminUsers" ->
                       [v EXCEPT !.confirm = None, !.selected = None, !.busy = None]
                  [] c.h = "delete" ->
                       [v EXCEPT !.confirm = None,
                                 !.selected = IF @ = c.i THEN None ELSE @]
                  [] OTHER -> v
  /\ calls' = {d \in calls \ {c} : view'.selected # None \/ d.h # "detail"} \cup
                {[c EXCEPT !.pc = "list",
                           !.h = IF section = "adminDomains" THEN @ ELSE "load"]}
  /\ UNCHANGED <<section, server, spent>>

(* load, with the page and the filter of the render that made it.              *)
ReadList(c) ==
  /\ c.pc = "list"
  /\ Moved(c, [c EXCEPT !.pc = "listed", !.rows = PageOf(server, c.q),
                        !.total = TotalOf(server, c.q), !.at = spent.reads + 1])
  /\ spent' = [spent EXCEPT !.reads = @ + 1]
  /\ UNCHANGED <<section, server, view>>

(* The domains section keeps its selection only while the list has it.         *)
pruned(v) ==
  IF section = "adminDomains" /\ v.selected # None /\ v.rows[v.selected] = None
  THEN [v EXCEPT !.selected = None] ELSE v

Ended(v, c) ==
  [v EXCEPT !.loading = FALSE, !.busy = IF c.h = "load" THEN @ ELSE None]

ListArrives(c) ==
  /\ c.pc = "listed"
  /\ view' = Ended(pruned([view EXCEPT !.rows = c.rows, !.total = c.total]), c)
  /\ calls' = {d \in calls \ {c} : view'.selected # None \/ d.h # "detail"}
  /\ spent' = [spent EXCEPT !.last = c.at, !.missed = @ \/ c.at < spent.last \/ c.q # view.q]
  /\ UNCHANGED <<section, server>>

ListFails(c) ==
  /\ c.pc = "unlisted"
  /\ view' = Ended(view, c)
  /\ calls' = calls \ {c}
  /\ UNCHANGED <<section, server, spent>>

(* The sharing of a domain, fetched for the modal or after a save.             *)
Shared(c) ==
  /\ c.h = "share" /\ c.pc = "ok"
  /\ Moved(c, [c EXCEPT !.pc = "fetch"])
  /\ UNCHANGED <<section, server, view, spent>>

FetchDetail(c) ==
  /\ c.pc = "fetch"
  /\ Moved(c, IF server[c.i] = None THEN [c EXCEPT !.pc = "unfetched"]
              ELSE [c EXCEPT !.pc = "fetched", !.x = server[c.i].mode])
  /\ UNCHANGED <<section, server, view, spent>>

DetailArrives(c) ==
  /\ c.pc \in {"fetched", "unfetched"}
  /\ LET v == IF c.pc = "fetched" THEN [view EXCEPT !.mode = c.x, !.modeOf = c.i]
              ELSE [view EXCEPT !.loadErr = @ \/ c.h = "detail"]
     IN view' = IF c.h = "share" THEN loading([v EXCEPT !.shareBusy = FALSE]) ELSE v
  /\ calls' = (calls \ {c}) \cup
                (IF c.h = "share" THEN {[c EXCEPT !.h = "load", !.pc = "list"]} ELSE {})
  /\ UNCHANGED <<section, server, spent>>

-------------------------------------------------------------------------------
First == [page |-> 1, text |-> ""]

PageInit ==
  /\ view = [q |-> First, rows |-> NoRows, total |-> 0, loading |-> TRUE, busy |-> None,
             selected |-> None, confirm |-> None, mode |-> DefaultMode, modeOf |-> None,
             shareBusy |-> FALSE, loadErr |-> FALSE]
  /\ spent = [presses |-> 0, views |-> 0, faults |-> 0, reads |-> 0, last |-> 0, missed |-> FALSE]
  /\ calls = {[Load(First) EXCEPT !.n = 0]}

Init ==
  /\ section \in Tables
  /\ \E S \in SUBSET Items, m \in Modes :
       server = [i \in Items |-> IF i \in S THEN [up |-> TRUE, mode |-> m] ELSE None]
  /\ PageInit

Steps(c) ==
  \/ \E ok \in BOOLEAN : Serve(c, ok)
  \/ Failed(c)
  \/ Succeeded(c)
  \/ ReadList(c)
  \/ ListArrives(c)
  \/ ListFails(c)
  \/ Shared(c)
  \/ FetchDetail(c)
  \/ DetailArrives(c)

Operator ==
  \/ Prev
  \/ NextPage
  \/ \E t \in Texts : Filter(t)
  \/ SubmitSearch
  \/ Refresh
  \/ \E i \in Items : View(i)
  \/ closeModal
  \/ \E i \in Items, kind \in {"disable", "delete"} : AskConfirm(kind, i)
  \/ CancelConfirm
  \/ Confirm
  \/ \E i \in Items : retry(i)
  \/ \E i \in Items : registerDomain(i)
  \/ \E i \in Items : verifyDomain(i)
  \/ \E m \in Modes : ChooseMode(m)
  \/ saveSharing

Next == Operator \/ \E c \in calls : Steps(c) \/ RequestFails(c)

(* Every request is answered or fails and its continuation runs. *)
Spec == Init /\ [][Next]_vars /\ WF_vars(\E c \in calls : Steps(c))

-------------------------------------------------------------------------------
(* Every variable keeps its shape. *)
TypeOK ==
  /\ server \in [Items -> Row \cup {None}]
  /\ view.rows \in [Items -> Row \cup {None}]
  /\ view.q \in [page : Pages, text : Texts]
  /\ view.total \in 0 .. NumItems
  /\ view.selected \in Items \cup {None}
  /\ view.mode \in Modes
  /\ \A c \in calls : c.q \in [page : Pages, text : Texts]

(* The table never claims to be loading, and no button to be busy, without a   *)
(* request that will end it.                                                   *)
BusyHasCall ==
  /\ view.loading => \E c \in calls : c.pc \in {"list", "listed", "unlisted"}
  /\ view.busy # None => \E c \in calls : c.h \in {"disable", "delete", "add", "verify"}
  /\ view.shareBusy => \E c \in calls : c.h = "share"

(* What may be destroyed is on screen: a confirmation is about the selected    *)
(* user or a listed domain, and a domain's modal is about a listed domain,     *)
(* whatever reads and handlers finished while it was open.                     *)
ModalIsListed ==
  /\ section = "adminDomains" /\ view.selected # None => view.rows[view.selected] # None
  /\ section = "adminUsers" /\ view.confirm # None => view.selected = view.confirm[2]

(* At rest, when no list failed, came late or was read for another page, the   *)
(* page shown is the stored one for the page and filter chosen.                *)
SettledPageAgrees ==
  (calls = {} /\ ~spent.missed) => view.rows = PageOf(server, view.q)

(* The loading note goes away. *)
LoadEnds == view.loading ~> ~view.loading

(* At rest the rows shown are those of the page and filter chosen. Violated:   *)
(* answers are applied in the order they come, and a handler reads the page of *)
(* the render it was created in.                                               *)
PageIsChosen ==
  (calls = {} /\ spent.faults = 0) => view.rows = PageOf(server, view.q)

(* The share mode saved for a domain was loaded for it or chosen in its modal. *)
(* Violated: the modal keeps the mode of the domain it showed before until the *)
(* new one is fetched, and Save is enabled meanwhile.                          *)
SharingIsOfDomain == [][saveSharing => view.modeOf = view.selected]_vars
================================================================================
