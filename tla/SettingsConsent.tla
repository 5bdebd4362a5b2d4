---------------------------- MODULE SettingsConsent ----------------------------
(* The "Mail & privacy" section of the settings panel (PrivacyConsentSection,  *)
(* static/mail/mail-settings.jsx): every switch is saved as it is flipped, the *)
(* page showing the new value before the server has stored it.  A switch sends *)
(* the whole record the component closed over; a retention choice sends the    *)
(* retention map and the flag that the setup was completed.                    *)
EXTENDS Naturals

CONSTANTS
  Behaviours,  \* values of the switches, taken together
  Retentions,  \* retention maps
  MaxPresses,  \* bound on the switches flipped
  MaxFaults,   \* bound on requests that fail or whose answer is lost
  None

VARIABLES
  section,  \* "consent"
  server,   \* the stored mail settings
  view,     \* the component's React state
  calls,    \* saves and reads that have not finished
  spent     \* what has been used of the bounds, and what went out of order

vars == <<section, server, view, calls, spent>>

Settings == [opt : Behaviours, days : Retentions, completed : BOOLEAN]

Call(n, body, pc) == [n |-> n, body |-> body, pc |-> pc, got |-> None, crossed |-> FALSE]

loadStart(v) == [v EXCEPT !.loading = TRUE, !.err = FALSE]

Send(v, body) ==
  /\ ~view.loading /\ spent.presses < MaxPresses
  /\ view' = v
  /\ calls' = calls \cup {Call(spent.presses + 1, body, "sent")}
  /\ spent' = [spent EXCEPT !.presses = @ + 1]
  /\ UNCHANGED <<section, server>>

saveMailBehaviour(b) ==
  /\ b # view.opt
  /\ Send([view EXCEPT !.opt = b], [opt |-> b, completed |-> view.completed])

saveRetention(r) ==
  /\ r # view.days
  /\ Send([view EXCEPT !.days = r], [days |-> r, completed |-> TRUE])

-------------------------------------------------------------------------------
(* The settings handler stores the fields the request carries and leaves the   *)
(* others alone.                                                               *)
Stored(body) ==
  [k \in DOMAIN server |-> IF k \in DOMAIN body THEN body[k] ELSE server[k]]

Moved(c, d) == calls' = (calls \ {c}) \cup {d}

Serve(c) ==
  /\ c.pc = "sent"
  /\ server' = Stored(c.body)
  /\ Moved(c, [c EXCEPT !.pc = "ok"])
  /\ spent' = [spent EXCEPT !.served = c.n, !.late = @ \/ c.n < spent.served]
  /\ UNCHANGED <<section, view>>

(* The request fails before the settings are stored, or its answer is lost.    *)
ServeFails(c) ==
  /\ c.pc \in {"sent", "list"} /\ spent.faults < MaxFaults
  /\ Moved(c, [c EXCEPT !.pc = IF c.pc = "sent" THEN "failed" ELSE "unlisted"])
  /\ spent' = [spent EXCEPT !.faults = @ + 1, !.late = @ \/ c.pc = "list"]
  /\ UNCHANGED <<section, server, view>>

AnswerLost(c) ==
  /\ c.pc = "sent" /\ spent.faults < MaxFaults
  /\ server' = Stored(c.body)
  /\ Moved(c, [c EXCEPT !.pc = "failed"])
  /\ spent' = [spent EXCEPT !.faults = @ + 1, !.served = c.n, !.late = @ \/ c.n < spent.served]
  /\ UNCHANGED <<section, view>>

Saved(c) ==
  /\ c.pc = "ok"
  /\ view' = IF "days" \in DOMAIN c.body THEN [view EXCEPT !.completed = TRUE] ELSE view
  /\ calls' = calls \ {c}
  /\ UNCHANGED <<section, server, spent>>

(* The catch branch: the error is set and loadConsent, called in the same      *)
(* turn, clears it as it starts.                                               *)
Failed(c) ==
  /\ c.pc = "failed"
  /\ view' = loadStart([view EXCEPT !.err = TRUE])
  /\ Moved(c, [c EXCEPT !.pc = "list"])
  /\ UNCHANGED <<section, server, spent>>

loadConsent(c) ==
  /\ c.pc = "list"
  /\ Moved(c, [c EXCEPT !.pc = "listed", !.got = server, !.crossed = calls # {c}])
  /\ UNCHANGED <<section, server, view, spent>>

(* A read that left while a save was still out brings what was stored before   *)
(* that save.                                                                  *)
SettingsArrive(c) ==
  /\ c.pc = "listed"
  /\ view' = [view EXCEPT !.opt = c.got.opt, !.days = c.got.days,
                          !.completed = c.got.completed, !.loading = FALSE]
  /\ calls' = calls \ {c}
  /\ spent' = [spent EXCEPT !.late = @ \/ c.crossed]
  /\ UNCHANGED <<section, server>>

SettingsFail(c) ==
  /\ c.pc = "unlisted"
  /\ view' = [view EXCEPT !.err = TRUE, !.loading = FALSE]
  /\ calls' = calls \ {c}
  /\ UNCHANGED <<section, server, spent>>

-------------------------------------------------------------------------------
Init ==
  /\ section = "consent"
  /\ server \in [opt : Behaviours, days : Retentions, completed : {FALSE}]
  /\ view \in [opt : Behaviours, days : Retentions, completed : {FALSE},
               loading : {TRUE}, err : {FALSE}]
  /\ calls = {Call(0, server, "list")}
  /\ spent = [presses |-> 0, faults |-> 0, served |-> 0, late |-> FALSE]

Steps(c) ==
  \/ Serve(c)
  \/ Saved(c)
  \/ Failed(c)
  \/ loadConsent(c)
  \/ SettingsArrive(c)
  \/ SettingsFail(c)

Next ==
  \/ \E b \in Behaviours : saveMailBehaviour(b)
  \/ \E r \in Retentions : saveRetention(r)
  \/ \E c \in calls : Steps(c) \/ ServeFails(c) \/ AnswerLost(c)

Spec == Init /\ [][Next]_vars /\ WF_vars(\E c \in calls : Steps(c))

-------------------------------------------------------------------------------
(* Every variable keeps its shape. *)
TypeOK ==
  /\ server \in Settings
  /\ view \in [opt : Behaviours, days : Retentions, completed : BOOLEAN,
               loading : BOOLEAN, err : BOOLEAN]
  /\ \A c \in calls : c.pc \in {"sent", "ok", "failed", "list", "listed", "unlisted"}

(* At rest the switches and the retention map shown are the stored ones, also  *)
(* after a save that failed or whose answer was lost, unless saves reached the *)
(* server out of order or a reload crossed one.                                *)
SettledSwitchesAgree ==
  (calls = {} /\ ~view.err /\ ~spent.late) =>
    view.opt = server.opt /\ view.days = server.days

(* The loading note goes away. *)
LoadEnds == view.loading ~> ~view.loading

(* A retention setup that was completed stays completed. *)
CompletedStays == [][server.completed => server'.completed]_vars

(* A save that failed leaves its error on the page. *)
FailureIsShown ==
  [][ (\E c \in calls : c.pc = "failed" /\ c \notin calls') => view'.err ]_vars
================================================================================
