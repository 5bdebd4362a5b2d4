----------------------------- MODULE ConsolePanels -----------------------------
(* The directory sections opened twice: in the admin page and in the staff     *)
(* console (static/console/admin-email-sections.jsx), whose copy of the code   *)
(* differs in the paths it calls.  The two pages have their own React state    *)
(* and requests and share the rows on the server.                              *)
EXTENDS AdminTables

CONSTANT MaxConsoleFaults   \* bound on requests of the console that fail

VARIABLES consoleView, consoleCalls, consoleSpent

Console == INSTANCE AdminTables
             WITH view <- consoleView, calls <- consoleCalls, spent <- consoleSpent,
                  MaxFaults <- MaxConsoleFaults

adminPage == <<view, calls, spent>>
consolePage == <<consoleView, consoleCalls, consoleSpent>>
bothVars == <<vars, consolePage>>

InConsole(A) == A /\ UNCHANGED adminPage

(* Paging, filters and the reads they start. *)
ConsolePage == InConsole(Console!Prev \/ Console!NextPage \/ Console!Refresh)

ConsoleFilter(t) == InConsole(Console!Filter(t))

ConsoleSearch == InConsole(Console!SubmitSearch)

ConsoleRead(c) == InConsole(Console!ReadList(c))

ConsoleListed(c) == InConsole(Console!ListArrives(c) \/ Console!ListFails(c))

(* The detail modals. *)
ConsoleViewUser(i) == section = "adminUsers" /\ InConsole(Console!View(i))

ConsoleViewDomain(i) == section = "adminDomains" /\ InConsole(Console!View(i))

ConsoleClose == InConsole(Console!closeModal)

ConsoleDetail(c) == InConsole(Console!FetchDetail(c) \/ Console!DetailArrives(c))

ConsoleChooseMode(m) == InConsole(Console!ChooseMode(m))

ConsoleSaveSharing == InConsole(Console!saveSharing)

ConsoleShared(c) == InConsole(Console!Shared(c))

(* The handlers that change a row. *)
ConsoleAsk(kind, i) == InConsole(Console!AskConfirm(kind, i))

ConsoleCancel == InConsole(Console!CancelConfirm)

ConsoleConfirmUser == section = "adminUsers" /\ InConsole(Console!Confirm)

ConsoleDeleteDomain == section = "adminDomains" /\ InConsole(Console!Confirm)

ConsoleRetry(i) == InConsole(Console!retry(i))

ConsoleRegister(i) == InConsole(Console!registerDomain(i))

ConsoleVerify(i) == InConsole(Console!verifyDomain(i))

ConsoleServe(c, ok) == InConsole(Console!Serve(c, ok))

ConsoleEnds(c) == InConsole(Console!Failed(c) \/ Console!Succeeded(c))

ConsoleRequestFails(c) == InConsole(Console!RequestFails(c))

-------------------------------------------------------------------------------
BothInit == Init /\ Console!PageInit

ConsoleSteps ==
  \E c \in consoleCalls :
    \/ ConsoleRead(c)
    \/ ConsoleListed(c)
    \/ ConsoleDetail(c)
    \/ ConsoleShared(c)
    \/ \E ok \in BOOLEAN : ConsoleServe(c, ok)
    \/ ConsoleEnds(c)

ConsoleOperator ==
  \/ ConsolePage
  \/ \E t \in Texts : ConsoleFilter(t)
  \/ ConsoleSearch
  \/ \E i \in Items : ConsoleViewUser(i)
  \/ \E i \in Items : ConsoleViewDomain(i)
  \/ ConsoleClose
  \/ \E m \in Modes : ConsoleChooseMode(m)
  \/ ConsoleSaveSharing
  \/ \E i \in Items, kind \in {"disable", "delete"} : ConsoleAsk(kind, i)
  \/ ConsoleCancel
  \/ ConsoleConfirmUser
  \/ ConsoleDeleteDomain
  \/ \E i \in Items : ConsoleRetry(i)
  \/ \E i \in Items : ConsoleRegister(i)
  \/ \E i \in Items : ConsoleVerify(i)

BothNext ==
  \/ Next /\ UNCHANGED consolePage
  \/ ConsoleOperator
  \/ ConsoleSteps
  \/ \E c \in consoleCalls : ConsoleRequestFails(c)

BothSafety == BothInit /\ [][BothNext]_bothVars

-------------------------------------------------------------------------------
(* Handlers of either page that were told they succeeded and have not read the *)
(* list again.                                                                 *)
Told(h, i) == {c \in calls : c.h = h /\ c.i = i /\ c.pc = "ok"}
ConsoleTold(h, i) == {c \in consoleCalls : c.h = h /\ c.i = i /\ c.pc = "ok"}

(* When both pages retry the same failed message or delete the same user, at   *)
(* most one of them is told it did: the server decides on the row, not on what *)
(* the page shows.                                                             *)
OneWinner ==
  \A i \in Items :
    /\ Told("retry", i) = {} \/ ConsoleTold("retry", i) = {}
    /\ section = "adminUsers" => (Told("delete", i) = {} \/ ConsoleTold("delete", i) = {})

(* What each page may destroy is on its screen, whatever the other page did.   *)
BothModalsListed == ModalIsListed /\ Console!ModalIsListed

(* Neither page claims to be busy without a request that will end it.          *)
BothBusyHaveCalls == BusyHasCall /\ Console!BusyHasCall
================================================================================
