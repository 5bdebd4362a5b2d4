------------------------------- MODULE MCPages --------------------------------
(* The settings page and the page of a protected link.  Only the settings      *)
(* section on screen is mounted, so the parts are checked side by side: the    *)
(* five lists, the account's security and danger zone, the custom domains, the *)
(* mail behaviour, and a link that is open in two browsers.                    *)
EXTENDS Naturals

CONSTANTS i1, i2, t1, k1, p1, p2, d1, d2, f1, b1, b2, r1, r2, v1, v2, None

VARIABLES page, section, server, view, calls, spent

sectionVars == <<section, server, view, calls, spent>>
vars == <<page, sectionVars>>

Lists == INSTANCE SettingsLists
  WITH Sections <- {"identities", "folders", "filters", "smtp", "contacts"},
       Items <- {i1, i2}, Floating <- {i2}, MaxBody <- 1,
       MaxPresses <- 2, MaxUpsets <- 1

Account == INSTANCE SettingsAccount
  WITH Places <- {"security", "danger"}, Factors <- {t1, k1}, SecKeys <- {k1},
       Passwords <- {p1, p2}, MaxCodes <- 2, MaxPresses <- 2, MaxUpsets <- 1

Domains == INSTANCE SettingsDomains
  WITH Domains <- {d1, d2}, Targets <- {f1}, MaxPresses <- 3, MaxFaults <- 1, MaxChanges <- 1

Consent == INSTANCE SettingsConsent
  WITH Behaviours <- {b1, b2}, Retentions <- {r1, r2}, MaxPresses <- 3, MaxFaults <- 2

Leaf(i, k) == [id |-> i, kind |-> k, attach |-> FALSE, named |-> FALSE,
               blank |-> FALSE, parts |-> <<>>]

(* A plain message, and one with two alternatives and an attachment. *)
LinkLetters ==
  {Leaf(1, "plain"),
   [Leaf(9, "mixed") EXCEPT !.parts =
      <<Leaf(2, "html"), Leaf(3, "plain"), [Leaf(4, "csv") EXCEPT !.attach = TRUE]>>]}

Link == INSTANCE LinkPage
  WITH Letters <- LinkLetters, MaxMimeDepth <- 8, Visitors <- {v1, v2},
       MaxLinkViews <- {0, 1, 2}, MaxTries <- 3, MaxLost <- 1

Init ==
  \/ page = "lists" /\ Lists!Init
  \/ page = "account" /\ Account!Init
  \/ page = "domains" /\ Domains!Init
  \/ page = "consent" /\ Consent!Init
  \/ page = "link" /\ Link!Init

Next ==
  /\ \/ page = "lists" /\ Lists!Next
     \/ page = "account" /\ Account!Next
     \/ page = "domains" /\ Domains!Next
     \/ page = "consent" /\ Consent!Next
     \/ page = "link" /\ Link!Next
  /\ UNCHANGED page

(* A request is served or fails and its continuation runs. *)
Steps ==
  /\ \E c \in calls :
       \/ page = "lists" /\ Lists!Steps(c)
       \/ page = "account" /\ Account!Steps(c)
       \/ page = "domains" /\ Domains!Steps(c)
       \/ page = "consent" /\ Consent!Steps(c)
       \/ page = "link" /\ Link!Steps(c)
  /\ UNCHANGED page

Spec == Init /\ [][Next]_vars /\ WF_vars(Steps)

-------------------------------------------------------------------------------
(* Every variable keeps the shape its section gives it. *)
TypeOK ==
  CASE page = "lists" -> Lists!TypeOK
    [] page = "account" -> Account!TypeOK
    [] page = "domains" -> Domains!TypeOK
    [] page = "consent" -> Consent!TypeOK
    [] page = "link" -> Link!TypeOK

(* Once nothing is in flight and no answer was lost or late, every section     *)
(* shows what the server stores: its list, the factors and the deletion date,  *)
(* the domains, the switches.                                                  *)
SettledPagesAgree ==
  /\ page = "lists" => Lists!SettledListAgrees
  /\ page = "account" => Account!SettledViewAgrees
  /\ page = "domains" => Domains!SettledListAgrees
  /\ page = "consent" => Consent!SettledSwitchesAgree

(* What a page shows the user to rely on is true: an SMTP password and         *)
(* recovery codes are those the server accepts, the detail of a domain is of   *)
(* one domain, "last view" means that nobody can open the link again, and an   *)
(* opened link shows the whole message.                                        *)
ShownIsTrue ==
  /\ page = "lists" => Lists!ShownPasswordWorks
  /\ page = "account" => Account!ShownCodesWork
  /\ page = "domains" => Domains!DetailIsOneDomain
  /\ page = "link" => Link!LastIsLast /\ Link!OpenedIsWhole

(* A press acts once, also when the server first asks for a fresh second       *)
(* factor and the request is sent again.                                       *)
ActsOncePerPress == page = "account" => Account!ActsOncePerPress

(* A limited link is read at most as often as its limit allows, whatever the   *)
(* browsers do at the same time and whatever is lost: the messages on screen   *)
(* and those about to be are paid for by views taken.                          *)
ReadsArePaid == page = "link" => Link!ReadsArePaid

Busy ==
  CASE page = "lists" -> view.loading \/ view.deleting \/ view.saveBusy \/ view.saving # None
    [] page = "account" -> section # None /\ view.busy # {}
    [] page = "domains" -> view.busy # {}
    [] page = "consent" -> view.loading
    [] page = "link" -> \E v \in {v1, v2} : view[v].busy

(* Every handler ends, and with it every spinner and busy flag.                *)
BusyEnds == Busy ~> ~Busy
===============================================================================
