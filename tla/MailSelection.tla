--------------------------- MODULE MailSelection ---------------------------
(***************************************************************************)
(* The selection of the message list (static/mail/mail-app.jsx): the ids   *)
(* selected, the anchor of a range and the focused message, whose detail   *)
(* is open.  A message is numbered by its place in the mailbox, so a list  *)
(* is a set of messages shown in increasing order and a selection, always  *)
(* kept in list order, is a set as well.  visibleMessages is the whole     *)
(* list here: a search replaces it only once the index worker is ready.    *)
(***************************************************************************)
EXTENDS Integers, FiniteSets

CONSTANT Messages

ASSUME MessagesAssumption == Messages \subseteq Nat \ {0} /\ IsFiniteSet(Messages)

Null == 0

Selections ==
  [ids : SUBSET Messages, anchor : Messages \cup {Null}, focus : Messages \cup {Null}]

emptyMailListSelection == [ids |-> {}, anchor |-> Null, focus |-> Null]

\* ids[0] and ids[ids.length - 1].
FirstRow(S) == CHOOSE m \in S : \A n \in S : m <= n

LastRow(S) == CHOOSE m \in S : \A n \in S : n <= m

OneSelected(m) == [ids |-> {m}, anchor |-> m, focus |-> m]

\* list.slice(lo, hi + 1) of the rows between two messages.
RowsBetween(list, a, b) == {m \in list : (a <= m /\ m <= b) \/ (b <= m /\ m <= a)}

AnchorIn(anchor, ids) == IF anchor \in ids THEN anchor ELSE FirstRow(ids)

\* The rows of removed have left the list.
mailListSelectionAfterRemoving(prev, removed) ==
  LET ids == prev.ids \ removed
  IN  IF ids = {}
        THEN emptyMailListSelection
        ELSE [ids    |-> ids,
              anchor |-> AnchorIn(prev.anchor, ids),
              focus  |-> IF prev.focus \in removed THEN LastRow(ids) ELSE prev.focus]

\* Fault: the anchor and the focus are forgotten.
PruneIdsOnly(prev, list) == [prev EXCEPT !.ids = @ \cap list]

\* The effect on visibleMessages: what is no longer shown is not selected.
PruneToVisible(prev, list) ==
  LET ids     == prev.ids \cap list
      focusOk == prev.focus \in list \cup {Null}
  IN  IF ids = prev.ids /\ focusOk /\ prev.anchor \in ids \cup {Null}
        THEN prev
        ELSE [ids    |-> ids,
              anchor |-> IF ids = {} THEN Null ELSE AnchorIn(prev.anchor, ids),
              focus  |-> IF focusOk THEN prev.focus
                         ELSE IF ids = {} THEN Null ELSE LastRow(ids)]

\* A click on a row with shift held down and an anchor set.
ShiftClick(prev, list, m) ==
  IF prev.anchor \notin list
    THEN OneSelected(m)
    ELSE [prev EXCEPT !.ids = RowsBetween(list, prev.anchor, m), !.focus = m]

\* A click with Ctrl or Cmd, and a click on the check box of a row.
Toggle(prev, list, m) ==
  LET on  == m \in prev.ids
      ids == (IF on THEN prev.ids \ {m} ELSE prev.ids \cup {m}) \cap list
  IN  IF ids = {}
        THEN emptyMailListSelection
        ELSE [ids    |-> ids,
              anchor |-> AnchorIn(prev.anchor, ids),
              focus  |-> IF on THEN LastRow(ids) ELSE m]

handleMailListRowClick(prev, list, m, key) ==
  CASE key = "shift" /\ prev.anchor # Null -> ShiftClick(prev, list, m)
    [] key = "mod" -> Toggle(prev, list, m)
    [] OTHER -> OneSelected(m)

selectAllVisibleMail(list) == [ids |-> list, anchor |-> FirstRow(list), focus |-> LastRow(list)]

\* The row an arrow key leads to from the row cur; Null stands for no row.
Below(list, cur) ==
  IF cur \notin list THEN FirstRow(list)
  ELSE LET rest == {m \in list : m > cur} IN IF rest = {} THEN cur ELSE FirstRow(rest)

Above(list, cur) ==
  IF cur \notin list THEN LastRow(list)
  ELSE LET rest == {m \in list : m < cur} IN IF rest = {} THEN cur ELSE LastRow(rest)

Neighbour(list, cur, down) == IF down THEN Below(list, cur) ELSE Above(list, cur)

ArrowKey(sel, list, down, shift) ==
  IF shift /\ sel.anchor # Null
    THEN LET cur  == IF sel.focus \in list THEN sel.focus ELSE sel.anchor
             next == Neighbour(list, cur, down)
         IN  IF sel.anchor \notin list
               THEN OneSelected(next)
               ELSE [ids |-> RowsBetween(list, sel.anchor, next), anchor |-> sel.anchor, focus |-> next]
    ELSE OneSelected(Neighbour(list, sel.focus, down))

EscapeKey(sel) == IF \E m, n \in sel.ids : m # n THEN OneSelected(sel.focus) ELSE sel

\* Nothing is selected, or the anchor and the focused message are among the
\* selected messages of the list.
WellFormed(sel, list) ==
  \/ sel = emptyMailListSelection
  \/ sel.ids \subseteq list /\ sel.anchor \in sel.ids /\ sel.focus \in sel.ids
=============================================================================
