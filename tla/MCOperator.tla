------------------------------ MODULE MCOperator ------------------------------
(* The operator's pages, in three parts checked side by side: a directory      *)
(* section with two rows and pages of one, the same section open in the admin  *)
(* page and in the staff console with one row, and the mail and key cards.     *)
EXTENDS Naturals

CONSTANTS u1, u2, f1, f2, s1, s2, owner_only, allowlist, None

VARIABLES page, section, server, view, calls, spent, consoleView, consoleCalls, consoleSpent

panel == <<section, server, view, calls, spent>>
console == <<consoleView, consoleCalls, consoleSpent>>
vars == <<page, panel, console>>

Directory == {"adminUsers", "adminOutbox", "adminDomains"}

Table == INSTANCE AdminTables
  WITH Tables <- Directory, NumItems <- 2, PageSize <- 1, Modes <- {owner_only, allowlist},
       MaxPresses <- 2, MaxViews <- 1, MaxFaults <- 1

Both == INSTANCE ConsolePanels
  WITH Tables <- Directory, NumItems <- 1, PageSize <- 1, Modes <- {owner_only},
       MaxPresses <- 1, MaxViews <- 1, MaxFaults <- 0, MaxConsoleFaults <- 1

Mail == INSTANCE AdminMail
  WITH Cards <- {"system", "composer", "keys"}, Users <- {u1, u2}, Files <- {f1, f2},
       Selectors <- {s1, s2}, MaxPresses <- 2, MaxEdits <- 2, MaxFaults <- 1

NoConsole == consoleView = None /\ consoleCalls = {} /\ consoleSpent = None

Init ==
  \/ page = "table" /\ Table!Init /\ NoConsole
  \/ page = "both" /\ Both!BothInit
  \/ page = "mail" /\ Mail!Init /\ NoConsole

Next ==
  /\ \/ page = "table" /\ Table!Next /\ UNCHANGED console
     \/ page = "both" /\ Both!BothNext
     \/ page = "mail" /\ Mail!Next /\ UNCHANGED console
  /\ UNCHANGED page

Spec == Init /\ [][Next]_vars

-------------------------------------------------------------------------------
(* Every variable keeps the shape its section gives it. *)
TypeOK ==
  CASE page = "table" -> Table!TypeOK
    [] page = "both" -> Both!TypeOK
    [] page = "mail" -> Mail!TypeOK

(* A page claims to be busy only while a request is running that will end it,  *)
(* also when the same section is open in the other page.                       *)
BusyHasCall ==
  /\ page = "table" => Table!BusyHasCall
  /\ page = "both" => Both!BothBusyHaveCalls

(* What a modal or a confirmation may change is on the page's list, whatever   *)
(* lists arrived in the meantime and whatever the other page did.              *)
ModalIsListed ==
  /\ page = "table" => Table!ModalIsListed
  /\ page = "both" => Both!BothModalsListed

(* Once nothing is in flight, and no read was refused or came out of turn, the *)
(* page shows the server's rows, and the key card and the readiness report are *)
(* about the keys the server uses.                                             *)
SettledPagesAgree ==
  /\ page = "table" => Table!SettledPageAgrees
  /\ page = "mail" => Mail!SettledKeysAgree

(* When both pages retry the same failed message or delete the same user, at   *)
(* most one of them is told it did.                                            *)
OneWinner == page = "both" => Both!OneWinner

(* A run to every active user was confirmed while that audience was chosen,    *)
(* whatever previews, searches and earlier sends finished in between.          *)
AllActiveIsConfirmed == page = "mail" => Mail!AllActiveIsConfirmed

(* A test message is never delivered without an attachment its payload names,  *)
(* although the list is edited and re-written while uploads are under way.     *)
DeliveredIsWhole == page = "mail" => Mail!DeliveredIsWhole

(* A busy button has a handler that will release it, and only one.             *)
SendingIsOne == page = "mail" => Mail!SendingIsOne
===============================================================================
