--------------------------- MODULE MailListProofs ---------------------------
(***************************************************************************)
(* Theorems about MailSelection and MailList, for every finite mailbox,    *)
(* any folders the sidebar uses, any number of operations in flight and    *)
(* every bound on the loads and failures; and about the filter passes of   *)
(* MailFilters, for any rules.                                             *)
(***************************************************************************)
EXTENDS MailFilters, FiniteSetTheorems, WellFoundedInduction, NaturalsInduction, TLAPS

\* Most leaves are first-order steps, for Zenon. The leaves with arithmetic or
\* with equal sets and functions name SMT.
USE Zenon

-----------------------------------------------------------------------------
(***************************************************************************)
(* The inductive invariant, in five parts.                                 *)
(***************************************************************************)
RowLists == UNION {[S -> BOOLEAN] : S \in SUBSET Messages}

LoadRecords ==
  [gen : Nat, folder : Folders, served : BOOLEAN, rows : RowLists]

OpRecords ==
  [kind : Kinds \cup {"idle"}, todo : SUBSET Messages, done : SUBSET Messages,
   dest : Folders \cup {""}, gen : Nat, state : {"running", "failed", "reloading"}]

AskedKinds == {"purge", "bulkPurge", "empty"}

Modals == [kind : AskedKinds \cup {"none"}, ids : SUBSET Messages]

\* The shape of every variable, with the counts within their bound.
Shape ==
  /\ box \in [Messages -> Folders \cup {"gone"}] /\ seen \subseteq Messages
  /\ view \in {"mail", "settings"} /\ folder \in Folders /\ shown \in Folders
  /\ gen \in Nat \ {0} /\ faults \in Nat /\ gen - 1 + faults <= MaxEvents
  /\ loading \in BOOLEAN /\ hasMail \in BOOLEAN
  /\ loads \subseteq LoadRecords
  /\ list \in RowLists /\ sel \in Selections
  /\ modal \in Modals /\ confirming \in BOOLEAN /\ bulkBusy \in BOOLEAN
  /\ ops \in [Slots -> OpRecords]
  /\ reads \subseteq Messages

\* A generation is given to one load.  The spinner turns while the load of the
\* latest generation runs, and on the mail page that load is of the folder
\* highlighted; an emptied trash reloads the trash, which is on screen.
LoadsOK ==
  /\ \A l \in loads : l.gen \in 1 .. gen
  /\ \A l, k \in loads : l.gen = k.gen => l = k
  /\ SpinnerHasLoad
  /\ view = "mail" => \A l \in loads : l.gen = gen => l.folder = folder
  /\ ListIsOfFolder
  /\ modal.kind = "empty" => view = "mail" /\ folder = "trash"

\* The operation a dialog asked about runs under that dialog, alone.
DialogOK ==
  /\ modal.kind = "none" => modal = NoModal
  /\ \A s \in Slots : ops[s].kind \in AskedKinds => confirming /\ ops[s].kind = modal.kind
  /\ \A s, t \in Slots : ops[s].kind \in AskedKinds /\ ops[t].kind \in AskedKinds => s = t
  /\ AskedFirst
  /\ \A s \in Slots : ops[s].kind \in {"move", "bulkMove"} => ops[s].dest \in Folders

\* Read flags in the list, in an answer on its way and in a finished request are
\* those of the server, which never takes one back.
ReadsOK ==
  /\ ReadIsRecorded
  /\ \A l \in loads : \A m \in DOMAIN l.rows : l.rows[m] => m \in seen
  /\ \A s \in Slots : ops[s].kind = "bulkRead" => ops[s].done \subseteq seen

ListInv == Shape /\ LoadsOK /\ DialogOK /\ ReadsOK /\ SelectionIsListed

-----------------------------------------------------------------------------
(* Operators of the selection *)

\* Nothing is selected, or the anchor and the focused message are selected:
\* what every handler of the list hands to the render.
Coherent(s) == s = emptyMailListSelection \/ (s.anchor \in s.ids /\ s.focus \in s.ids)

\* A set of rows without a last one is not empty and is not finite.
HasLast(S) == \E m \in S : \A n \in S : n <= m

\* ids[0] of a list that is not empty is one of its rows, and none comes before.
LEMMA FirstRowIn ==
  ASSUME NEW S \in SUBSET Messages, S # {}
  PROVE  FirstRow(S) \in S /\ \A n \in S : FirstRow(S) <= n
<1>1. S \subseteq Nat
  BY MessagesAssumption
<1>2. IsWellFoundedOn(OpToRel(<, Nat), Nat)
  BY NatLessThanWellFounded
<1>3. PICK m \in S : \A n \in S : ~(<<n, m>> \in OpToRel(<, Nat))
  BY <1>1, <1>2, WFMin
<1>4. ASSUME NEW n \in S, n < m PROVE FALSE
  <2>1. <<n, m>> \in OpToRel(<, Nat)
    BY <1>1, <1>4 DEF OpToRel
  <2> QED
    BY <1>3, <2>1
<1>5. \A n \in S : m <= n
  BY <1>1, <1>4, SMT
<1> QED
  BY <1>5 DEF FirstRow

\* The rows of a mailbox are finite in number, so a list that is not empty has
\* a last row: the smallest counterexample would shrink by taking a row away.
LEMMA LastExists ==
  ASSUME NEW S \in SUBSET Messages, S # {}
  PROVE  HasLast(S)
<1> DEFINE Bad == {T \in SUBSET Messages : T # {} /\ ~HasLast(T)}
           Sizes == {k \in Nat : \E T \in Bad : Cardinality(T) = k}
<1>1. \A T \in SUBSET Messages : IsFiniteSet(T) /\ Cardinality(T) \in Nat /\ T \subseteq Nat
  BY MessagesAssumption, FS_Subset, FS_CardinalityType
<1>2. SUFFICES ASSUME S \in Bad PROVE FALSE
  OBVIOUS
<1>3. Sizes # {} /\ Sizes \subseteq Nat
  BY <1>1, <1>2
<1>4. PICK k \in Sizes : \A j \in Sizes : ~(<<j, k>> \in OpToRel(<, Nat))
  <2>1. IsWellFoundedOn(OpToRel(<, Nat), Nat)
    BY NatLessThanWellFounded
  <2> HIDE DEF Sizes
  <2> QED
    BY <1>3, <2>1, WFMin
<1>5. PICK T \in Bad : Cardinality(T) = k
  OBVIOUS
<1>6. PICK m \in T : TRUE
  OBVIOUS
<1>7. IsFiniteSet(T) /\ T \subseteq Nat
  BY <1>1
<1> DEFINE U == T \ {m}
<1>8. IsFiniteSet(U) /\ Cardinality(U) = Cardinality(T) - 1
  BY <1>6, <1>7, FS_RemoveElement
<1>9. Cardinality(U) \in Nat /\ U \in SUBSET Messages
  BY <1>1, <1>5
<1>10. U \notin Bad
  <2> SUFFICES ASSUME U \in Bad PROVE FALSE
    OBVIOUS
  <2>1. Cardinality(U) \in Sizes
    BY <1>9
  <2>2. Cardinality(U) < k /\ k \in Nat
    BY <1>3, <1>5, <1>8, <1>9, SMT
  <2>3. <<Cardinality(U), k>> \in OpToRel(<, Nat)
    BY <1>9, <2>2 DEF OpToRel
  <2> QED
    BY <1>4, <2>1, <2>3
<1>11. HasLast(T)
  <2>1. CASE U = {}
    <3>1. \A n \in T : n = m
      BY <2>1
    <3> QED
      BY <1>6, <1>7, <3>1, SMT DEF HasLast
  <2>2. CASE U # {}
    <3>1. PICK u \in U : \A n \in U : n <= u
      BY <1>9, <1>10, <2>2 DEF HasLast
    <3>2. u \in Nat /\ m \in Nat
      BY <1>6, <1>7
    <3>3. CASE u <= m
      <4>1. \A n \in T : n <= m
        BY <1>6, <1>7, <3>1, <3>2, <3>3, SMT
      <4> QED
        BY <1>6, <4>1 DEF HasLast
    <3>4. CASE m <= u
      <4>1. \A n \in T : n <= u
        BY <1>7, <3>1, <3>4
      <4> QED
        BY <3>1, <4>1 DEF HasLast
    <3> QED
      BY <3>2, <3>3, <3>4, SMT
  <2> QED
    BY <2>1, <2>2
<1> QED
  BY <1>5, <1>11

\* ids[ids.length - 1] of a list that is not empty is one of its rows.
LEMMA LastRowIn ==
  ASSUME NEW S \in SUBSET Messages, S # {}
  PROVE  LastRow(S) \in S
BY LastExists DEF HasLast, LastRow

\* AnchorIn returns a selected row whenever something is selected.
LEMMA AnchorIsSelected ==
  ASSUME NEW ids \in SUBSET Messages, ids # {}, NEW a
  PROVE  AnchorIn(a, ids) \in ids
BY FirstRowIn DEF AnchorIn

\* Every branch that selects one row alone.
LEMMA OneSelectedCoherent ==
  ASSUME NEW m \in Messages
  PROVE  OneSelected(m) \in Selections /\ Coherent(OneSelected(m))
BY DEF OneSelected, Selections, Coherent

\* The empty selection is one.
LEMMA EmptyCoherent ==
  /\ emptyMailListSelection \in Selections
  /\ Coherent(emptyMailListSelection)
BY DEF emptyMailListSelection, Selections, Coherent

\* The effect on visibleMessages leaves a selection of visible rows only, with
\* its anchor and focus among them, or none: also when the focused row and the
\* anchor left the list at once.
LEMMA PruneWellFormed ==
  ASSUME NEW s \in Selections, Coherent(s), NEW L \in SUBSET Messages
  PROVE  /\ PruneToVisible(s, L) \in Selections
         /\ WellFormed(PruneToVisible(s, L), L)
<1> DEFINE ids == s.ids \cap L
           keeps == ids = s.ids /\ s.focus \in L \cup {Null} /\ s.anchor \in ids \cup {Null}
<1>1. Null \notin Messages
  BY MessagesAssumption DEF Null
<1>2. CASE s = emptyMailListSelection
  <2>1. keeps
    BY <1>2 DEF emptyMailListSelection
  <2> QED
    BY <1>2, <2>1 DEF PruneToVisible, WellFormed
<1>3. CASE s.anchor \in s.ids /\ s.focus \in s.ids
  <2>1. CASE keeps
    <3>1. PruneToVisible(s, L) = s
      BY <2>1 DEF PruneToVisible
    <3>2. s.ids \subseteq L
      BY <2>1
    <3> QED
      BY <1>3, <3>1, <3>2 DEF WellFormed
  <2>2. CASE ~keeps /\ ids = {}
    <3>1. s.focus \notin L \cup {Null}
      BY <1>1, <1>3, <2>2 DEF Selections
    <3>2. PruneToVisible(s, L) = emptyMailListSelection
      BY <2>2, <3>1 DEF PruneToVisible, emptyMailListSelection
    <3> QED
      BY <3>2, EmptyCoherent DEF WellFormed
  <2>3. CASE ~keeps /\ ids # {}
    <3> DEFINE a == AnchorIn(s.anchor, ids)
               f == IF s.focus \in L \cup {Null} THEN s.focus ELSE LastRow(ids)
    <3>1. ids \in SUBSET Messages
      BY DEF Selections
    <3>2. a \in ids
      BY <2>3, <3>1, AnchorIsSelected
    <3>3. f \in ids
      BY <1>1, <1>3, <2>3, <3>1, LastRowIn DEF Selections
    <3>4. PruneToVisible(s, L) = [ids |-> ids, anchor |-> a, focus |-> f]
      BY <2>3 DEF PruneToVisible
    <3> HIDE DEF a, f
    <3> QED
      BY <3>1, <3>2, <3>3, <3>4, SMT DEF Selections, WellFormed
  <2> QED
    BY <2>1, <2>2, <2>3
<1> QED
  BY <1>2, <1>3 DEF Coherent

\* Taking removed rows out of the selection leaves its anchor and its focus
\* among the rows that stay.
LEMMA RemovingCoherent ==
  ASSUME NEW s \in Selections, Coherent(s), NEW R
  PROVE  /\ mailListSelectionAfterRemoving(s, R) \in Selections
         /\ Coherent(mailListSelectionAfterRemoving(s, R))
<1> DEFINE ids == s.ids \ R
<1>1. CASE ids = {}
  <2>1. mailListSelectionAfterRemoving(s, R) = emptyMailListSelection
    BY <1>1 DEF mailListSelectionAfterRemoving
  <2> QED
    BY <2>1, EmptyCoherent
<1>2. CASE ids # {}
  <2> DEFINE a == AnchorIn(s.anchor, ids)
             f == IF s.focus \in R THEN LastRow(ids) ELSE s.focus
  <2>1. ids \in SUBSET Messages
    BY DEF Selections
  <2>2. s.focus \in s.ids
    BY <1>2, SMT DEF Coherent, emptyMailListSelection
  <2>3. a \in ids
    BY <1>2, <2>1, AnchorIsSelected
  <2>4. f \in ids
    BY <1>2, <2>1, <2>2, LastRowIn
  <2>5. mailListSelectionAfterRemoving(s, R) = [ids |-> ids, anchor |-> a, focus |-> f]
    BY <1>2 DEF mailListSelectionAfterRemoving
  <2> HIDE DEF a, f
  <2> QED
    BY <2>1, <2>3, <2>4, <2>5, SMT DEF Selections, Coherent
<1> QED
  BY <1>1, <1>2

\* The slice between two listed rows holds both.
LEMMA BetweenHolds ==
  ASSUME NEW L \in SUBSET Messages, NEW a \in L, NEW b \in L
  PROVE  /\ RowsBetween(L, a, b) \in SUBSET Messages
         /\ a \in RowsBetween(L, a, b) /\ b \in RowsBetween(L, a, b)
<1>1. a \in Nat /\ b \in Nat
  BY MessagesAssumption
<1>2. a <= a /\ b <= b /\ (a <= b \/ b <= a)
  BY <1>1, SMT
<1> QED
  BY <1>2 DEF RowsBetween

\* A click with shift selects the rows between the anchor and the row clicked,
\* both of them included.
LEMMA ShiftClickCoherent ==
  ASSUME NEW s \in Selections, NEW L \in SUBSET Messages, NEW m \in L, Coherent(s)
  PROVE  /\ ShiftClick(s, L, m) \in Selections
         /\ Coherent(ShiftClick(s, L, m))
<1>1. CASE s.anchor \notin L
  BY <1>1, OneSelectedCoherent DEF ShiftClick
<1>2. CASE s.anchor \in L
  <2> DEFINE ids == RowsBetween(L, s.anchor, m)
  <2>2. ids \in SUBSET Messages /\ s.anchor \in ids /\ m \in ids
    BY <1>2, BetweenHolds, SMT
  <2>3. ShiftClick(s, L, m) = [ids |-> ids, anchor |-> s.anchor, focus |-> m]
    BY <1>2 DEF ShiftClick, Selections
  <2> HIDE DEF ids
  <2> QED
    BY <2>2, <2>3, SMT DEF Selections, Coherent
<1> QED
  BY <1>1, <1>2

\* A click with Ctrl, or on a check box, moves the focus to the row clicked or,
\* when that row is deselected, to the last row that stays.
LEMMA ToggleCoherent ==
  ASSUME NEW s \in Selections, NEW L \in SUBSET Messages, NEW m \in L
  PROVE  /\ Toggle(s, L, m) \in Selections
         /\ Coherent(Toggle(s, L, m))
<1> DEFINE ids == (IF m \in s.ids THEN s.ids \ {m} ELSE s.ids \cup {m}) \cap L
<1>1. CASE ids = {}
  <2>1. Toggle(s, L, m) = emptyMailListSelection
    BY <1>1 DEF Toggle
  <2> QED
    BY <2>1, EmptyCoherent
<1>2. CASE ids # {}
  <2> DEFINE a == AnchorIn(s.anchor, ids)
             f == IF m \in s.ids THEN LastRow(ids) ELSE m
  <2>1. ids \in SUBSET Messages
    OBVIOUS
  <2>2. a \in ids
    BY <1>2, <2>1, AnchorIsSelected
  <2>3. f \in ids
    BY <1>2, <2>1, LastRowIn
  <2>4. Toggle(s, L, m) = [ids |-> ids, anchor |-> a, focus |-> f]
    BY <1>2 DEF Toggle
  <2> HIDE DEF ids, a, f
  <2> QED
    BY <2>1, <2>2, <2>3, <2>4, SMT DEF Selections, Coherent
<1> QED
  BY <1>1, <1>2

\* Whatever key is held, a click on a listed row leaves a coherent selection.
LEMMA ClickCoherent ==
  ASSUME NEW s \in Selections, Coherent(s), NEW L \in SUBSET Messages, NEW m \in L, NEW key
  PROVE  /\ handleMailListRowClick(s, L, m, key) \in Selections
         /\ Coherent(handleMailListRowClick(s, L, m, key))
<1>1. \/ handleMailListRowClick(s, L, m, key) = ShiftClick(s, L, m)
      \/ handleMailListRowClick(s, L, m, key) = Toggle(s, L, m)
      \/ handleMailListRowClick(s, L, m, key) = OneSelected(m)
  <2>1. CASE key = "shift" /\ s.anchor # Null
    BY <2>1 DEF handleMailListRowClick
  <2>2. CASE ~(key = "shift" /\ s.anchor # Null) /\ key = "mod"
    BY <2>2 DEF handleMailListRowClick
  <2>3. CASE ~(key = "shift" /\ s.anchor # Null) /\ key # "mod"
    BY <2>3 DEF handleMailListRowClick
  <2> QED
    BY <2>1, <2>2, <2>3
<1> QED
  BY <1>1, ShiftClickCoherent, ToggleCoherent, OneSelectedCoherent

\* Selecting every visible row.
LEMMA SelectAllCoherent ==
  ASSUME NEW L \in SUBSET Messages, L # {}
  PROVE  selectAllVisibleMail(L) \in Selections /\ Coherent(selectAllVisibleMail(L))
<1>1. FirstRow(L) \in L /\ LastRow(L) \in L
  BY FirstRowIn, LastRowIn
<1> QED
  BY <1>1 DEF selectAllVisibleMail, Selections, Coherent

\* An arrow key leads to a listed row from wherever the focus is.
LEMMA NeighbourListed ==
  ASSUME NEW L \in SUBSET Messages, L # {}, NEW cur, NEW down
  PROVE  Neighbour(L, cur, down) \in L
<1>1. Below(L, cur) \in L
  <2> DEFINE rest == {m \in L : m > cur}
  <2>1. rest \in SUBSET Messages /\ rest \subseteq L
    OBVIOUS
  <2>2. rest # {} => FirstRow(rest) \in L
    BY <2>1, FirstRowIn
  <2> QED
    BY <2>2, FirstRowIn DEF Below
<1>2. Above(L, cur) \in L
  <2> DEFINE rest == {m \in L : m < cur}
  <2>1. rest \in SUBSET Messages /\ rest \subseteq L
    OBVIOUS
  <2>2. rest # {} => LastRow(rest) \in L
    BY <2>1, LastRowIn
  <2> QED
    BY <2>2, LastRowIn DEF Above
<1> QED
  BY <1>1, <1>2 DEF Neighbour

\* The arrow keys, with shift and without, leave a coherent selection.
LEMMA ArrowCoherent ==
  ASSUME NEW s \in Selections, NEW L \in SUBSET Messages, L # {}, NEW down, NEW shift
  PROVE  /\ ArrowKey(s, L, down, shift) \in Selections
         /\ Coherent(ArrowKey(s, L, down, shift))
<1> DEFINE cur == IF s.focus \in L THEN s.focus ELSE s.anchor
           next == Neighbour(L, cur, down)
           alone == Neighbour(L, s.focus, down)
<1>1. next \in L /\ alone \in L
  BY NeighbourListed
<1>2. CASE shift /\ s.anchor # Null /\ s.anchor \in L
  <2> DEFINE ids == RowsBetween(L, s.anchor, next)
  <2>2. ids \in SUBSET Messages /\ s.anchor \in ids /\ next \in ids
    BY <1>1, <1>2, BetweenHolds, SMT
  <2>3. ArrowKey(s, L, down, shift) = [ids |-> ids, anchor |-> s.anchor, focus |-> next]
    BY <1>2 DEF ArrowKey
  <2> HIDE DEF ids, next
  <2> QED
    BY <2>2, <2>3, SMT DEF Selections, Coherent
<1>3. CASE shift /\ s.anchor # Null /\ s.anchor \notin L
  <2>1. ArrowKey(s, L, down, shift) = OneSelected(next)
    BY <1>3 DEF ArrowKey
  <2> QED
    BY <1>1, <2>1, OneSelectedCoherent
<1>4. CASE ~(shift /\ s.anchor # Null)
  <2>1. ArrowKey(s, L, down, shift) = OneSelected(alone)
    BY <1>4 DEF ArrowKey
  <2> QED
    BY <1>1, <2>1, OneSelectedCoherent
<1> QED
  BY <1>2, <1>3, <1>4

\* Escape folds a selection of several rows to the focused one.
LEMMA EscapeCoherent ==
  ASSUME NEW s \in Selections, Coherent(s)
  PROVE  EscapeKey(s) \in Selections /\ Coherent(EscapeKey(s))
<1>1. CASE \E m, n \in s.ids : m # n
  <2>1. s.focus \in Messages
    BY <1>1, SMT DEF Coherent, emptyMailListSelection, Selections
  <2> QED
    BY <1>1, <2>1, OneSelectedCoherent DEF EscapeKey
<1>2. CASE ~\E m, n \in s.ids : m # n
  BY <1>2 DEF EscapeKey
<1> QED
  BY <1>1, <1>2

-----------------------------------------------------------------------------
(* What a render commits *)

\* A list of rows is a function from some messages to their read flags.
LEMMA RowListShape ==
  /\ \A f \in RowLists : DOMAIN f \in SUBSET Messages /\ f \in [DOMAIN f -> BOOLEAN]
  /\ \A S \in SUBSET Messages : \A f \in [S -> BOOLEAN] : f \in RowLists
BY DEF RowLists

\* The rows the server answers with are a list.
LEMMA RowsShape ==
  ASSUME NEW S \in SUBSET Messages
  PROVE  /\ Rows(S) \in RowLists
         /\ \A m \in DOMAIN Rows(S) : Rows(S)[m] => m \in seen
<1>1. Rows(S) \in [S -> BOOLEAN]
  BY SMT DEF Rows
<1>2. \A m \in S : Rows(S)[m] = (m \in seen)
  BY DEF Rows
<1>3. DOMAIN Rows(S) = S
  BY DEF Rows
<1> QED
  BY <1>1, <1>2, <1>3, RowListShape

\* No rows at all are a list.
LEMMA NoRowsShape == NoRows \in RowLists /\ DOMAIN NoRows = {}
<1>1. NoRows \in [{} -> BOOLEAN] /\ DOMAIN NoRows = {}
  BY DEF NoRows
<1> QED
  BY <1>1, RowListShape

\* A render keeps the selection among the rows it shows, and a row it turns to
\* read is one it has started to mark.
LEMMA CommitStep ==
  ASSUME NEW list1 \in RowLists, NEW sel1 \in Selections, Coherent(sel1), NEW fresh,
         reads \subseteq Messages, Commit(list1, sel1, fresh)
  PROVE  /\ list' \in RowLists /\ DOMAIN list' = DOMAIN list1
         /\ sel' \in Selections /\ SelectionIsListed'
         /\ reads' \subseteq Messages
         /\ \A m \in DOMAIN list1 : list'[m] => list1[m] \/ m \in reads'
         /\ reads \subseteq reads'
<1> DEFINE m == sel'.focus
           mark == /\ m \in DOMAIN list1 /\ ~list1[m]
                   /\ m # sel.focus \/ m \in fresh
                   /\ m \notin reads
<1>1. /\ sel' = PruneToVisible(sel1, DOMAIN list1)
      /\ list' = IF mark THEN [list1 EXCEPT ![m] = TRUE] ELSE list1
      /\ reads' = IF mark THEN reads \cup {m} ELSE reads
  BY DEF Commit
<1>2. DOMAIN list1 \in SUBSET Messages /\ list1 \in [DOMAIN list1 -> BOOLEAN]
  BY RowListShape
<1>3. sel' \in Selections /\ WellFormed(sel', DOMAIN list1)
  BY <1>1, <1>2, PruneWellFormed
<1>4. CASE mark
  <2>1. list' = [list1 EXCEPT ![m] = TRUE] /\ reads' = reads \cup {m} /\ m \in DOMAIN list1
    BY <1>1, <1>4
  <2>2. list' \in [DOMAIN list1 -> BOOLEAN] /\ DOMAIN list' = DOMAIN list1
    BY <1>2, <2>1
  <2>3. \A n \in DOMAIN list1 : n # m => list'[n] = list1[n]
    BY <1>2, <2>1
  <2> HIDE DEF m, mark
  <2>4. list' \in RowLists
    BY <1>2, <2>2, RowListShape
  <2>5. reads' \subseteq Messages /\ m \in reads' /\ reads \subseteq reads'
    BY <1>2, <2>1
  <2> QED
    BY <1>3, <2>2, <2>3, <2>4, <2>5 DEF SelectionIsListed
<1>5. CASE ~mark
  BY <1>1, <1>3, <1>5 DEF SelectionIsListed
<1> QED
  BY <1>4, <1>5

\* The selection between two renders is coherent.
LEMMA ListedIsCoherent ==
  ASSUME SelectionIsListed
  PROVE  Coherent(sel)
BY DEF SelectionIsListed, WellFormed, Coherent

-----------------------------------------------------------------------------
(* Init, and the steps that leave parts of the state alone *)

\* The state a session is in when it opens a folder satisfies the invariant.
LEMMA InitInv == Init => ListInv
<1> SUFFICES ASSUME Init PROVE ListInv
  OBVIOUS
<1> DEFINE first == Load(1, folder)
<1>1. first \in LoadRecords /\ first.gen = 1 /\ first.folder = folder /\ DOMAIN first.rows = {}
  BY NoRowsShape DEF Init, Load, LoadRecords
<1>2. list \in RowLists /\ \A m \in DOMAIN list : list[m] => m \in seen
  <2>1. InFolder(shown) \in SUBSET Messages
    BY DEF InFolder
  <2> QED
    BY <2>1, RowsShape DEF Init
<1>3. IdleOp \in OpRecords /\ IdleOp.kind = "idle"
  BY DEF IdleOp, Op, OpRecords, Kinds
<1>4. ops \in [Slots -> OpRecords] /\ \A s \in Slots : ops[s].kind = "idle"
  BY <1>3 DEF Init
<1>5. loads = {first}
  BY DEF Init
<1> HIDE DEF first
<1>6. Shape
  <2>1. loads \subseteq LoadRecords
    BY <1>1, <1>5
  <2>2. modal \in Modals
    BY DEF Init, NoModal, Modals
  <2>3. gen \in Nat \ {0} /\ faults \in Nat /\ gen - 1 + faults <= MaxEvents
    BY BoundsAssumption, SMT DEF Init
  <2>4. box \in [Messages -> Folders \cup {"gone"}] /\ seen \subseteq Messages
    BY BoundsAssumption DEF Init
  <2> QED
    BY <1>2, <1>4, <2>1, <2>2, <2>3, <2>4, EmptyCoherent DEF Init, Shape
<1>7. LoadsOK
  BY <1>1, <1>5, SMT DEF Init, LoadsOK, SpinnerHasLoad, ListIsOfFolder, NoModal
<1>8. DialogOK
  BY <1>4 DEF Init, DialogOK, AskedFirst, AskedKinds
<1>9. ReadsOK
  BY <1>1, <1>2, <1>4, <1>5 DEF ReadsOK, ReadIsRecorded
<1> QED
  BY <1>6, <1>7, <1>8, <1>9 DEF Init, ListInv, SelectionIsListed, WellFormed

\* Steps that start no load, end none and open no dialog keep LoadsOK.
LEMMA LoadsFrame ==
  ASSUME LoadsOK, UNCHANGED <<nav, gen, loads, loading, shown>>,
         modal'.kind = "empty" => modal.kind = "empty" \/ (view = "mail" /\ folder = "trash")
  PROVE  LoadsOK'
BY DEF LoadsOK, SpinnerHasLoad, ListIsOfFolder, nav

\* Steps that touch neither a dialog nor an operation keep DialogOK.
LEMMA DialogFrame ==
  ASSUME DialogOK, UNCHANGED <<dialog, ops>>
  PROVE  DialogOK'
BY DEF DialogOK, AskedFirst, dialog

-----------------------------------------------------------------------------
(* Selecting *)

\* Whatever the list's handlers select, the render that follows keeps the
\* invariant.
LEMMA SelectPreserves ==
  ASSUME ListInv, NEW sel1 \in Selections, Coherent(sel1), Select(sel1), UnchangedBySelecting
  PROVE  ListInv'
<1>1. list \in RowLists /\ reads \subseteq Messages
  BY DEF ListInv, Shape
<1>2. /\ list' \in RowLists /\ DOMAIN list' = DOMAIN list
      /\ sel' \in Selections /\ SelectionIsListed'
      /\ reads' \subseteq Messages
      /\ \A m \in DOMAIN list : list'[m] => list[m] \/ m \in reads'
      /\ reads \subseteq reads'
  BY <1>1, CommitStep DEF Select
<1>3. Shape'
  BY <1>2 DEF ListInv, Shape, UnchangedBySelecting, server, nav, loadVars, dialog
<1>4. LoadsOK'
  BY LoadsFrame DEF ListInv, UnchangedBySelecting, loadVars, dialog
<1>5. DialogOK'
  BY DialogFrame DEF ListInv, UnchangedBySelecting
<1>6. ReadsOK'
  BY <1>2 DEF ListInv, ReadsOK, ReadIsRecorded, UnchangedBySelecting, server, loadVars
<1> QED
  BY <1>2, <1>3, <1>4, <1>5, <1>6 DEF ListInv

\* Clicks and keys keep the invariant.
LEMMA SelectingStep ==
  ASSUME ListInv, Selecting
  PROVE  ListInv'
<1>1. sel \in Selections /\ Coherent(sel) /\ DOMAIN list \in SUBSET Messages
  BY ListedIsCoherent, RowListShape DEF ListInv, Shape
<1>2. ASSUME NEW m \in Messages, NEW key \in {"none", "shift", "mod"}, ClickRow(m, key)
      PROVE  ListInv'
  <2>1. m \in DOMAIN list /\ UnchangedBySelecting
        /\ Select(handleMailListRowClick(sel, DOMAIN list, m, key))
    BY <1>2 DEF ClickRow
  <2>2. /\ handleMailListRowClick(sel, DOMAIN list, m, key) \in Selections
        /\ Coherent(handleMailListRowClick(sel, DOMAIN list, m, key))
    BY <1>1, <2>1, ClickCoherent
  <2> QED
    BY <2>1, <2>2, SelectPreserves
<1>3. ASSUME ClickSelectAll PROVE ListInv'
  <2> DEFINE s1 == IF DOMAIN list \subseteq sel.ids THEN emptyMailListSelection
                   ELSE selectAllVisibleMail(DOMAIN list)
  <2>1. Select(s1) /\ UnchangedBySelecting /\ DOMAIN list # {}
    BY <1>3 DEF ClickSelectAll
  <2>2. s1 \in Selections /\ Coherent(s1)
    BY <1>1, <2>1, EmptyCoherent, SelectAllCoherent
  <2> QED
    BY <2>1, <2>2, SelectPreserves
<1>4. ASSUME NEW down \in BOOLEAN, NEW shift \in BOOLEAN, PressArrow(down, shift)
      PROVE  ListInv'
  <2>1. /\ Select(ArrowKey(sel, DOMAIN list, down, shift))
        /\ UnchangedBySelecting /\ DOMAIN list # {}
    BY <1>4 DEF PressArrow
  <2>2. /\ ArrowKey(sel, DOMAIN list, down, shift) \in Selections
        /\ Coherent(ArrowKey(sel, DOMAIN list, down, shift))
    BY <1>1, <2>1, ArrowCoherent
  <2> QED
    BY <2>1, <2>2, SelectPreserves
<1>5. ASSUME PressEscape PROVE ListInv'
  <2>1. Select(EscapeKey(sel)) /\ UnchangedBySelecting
    BY <1>5 DEF PressEscape
  <2> QED
    BY <1>1, <2>1, EscapeCoherent, SelectPreserves
<1> QED
  BY <1>2, <1>3, <1>4, <1>5 DEF Selecting

-----------------------------------------------------------------------------
(* Starting an operation *)

\* An operation without a dialog may start whatever else is in flight.
LEMMA StartPreserves ==
  ASSUME ListInv, NEW s \in Slots, NEW op \in OpRecords, op.kind \notin AskedKinds,
         op.kind \in {"move", "bulkMove"} => op.dest \in Folders, op.done = {},
         Start(s, op), UNCHANGED <<modal, confirming>>, bulkBusy' \in BOOLEAN,
         UnchangedByStarting
  PROVE  ListInv'
<1>1. ops \in [Slots -> OpRecords] /\ ops' = [ops EXCEPT ![s] = op]
  BY DEF ListInv, Shape, Start
<1>2. ops' \in [Slots -> OpRecords] /\ ops'[s] = op /\ \A t \in Slots : t # s => ops'[t] = ops[t]
  BY <1>1
<1>3. Shape'
  BY <1>2 DEF ListInv, Shape, UnchangedByStarting, server, nav, loadVars
<1>4. LoadsOK'
  BY LoadsFrame DEF ListInv, UnchangedByStarting, loadVars
<1>5. DialogOK'
  BY <1>2, SMTT(30) DEF ListInv, DialogOK, AskedFirst, AskedKinds
<1>6. ReadsOK'
  BY <1>2 DEF ListInv, ReadsOK, ReadIsRecorded, UnchangedByStarting, server, loadVars
<1> QED
  BY <1>3, <1>4, <1>5, <1>6 DEF ListInv, SelectionIsListed, UnchangedByStarting

\* A dialog opens when none is open, so no operation that was asked for runs.
LEMMA AskPreserves ==
  ASSUME ListInv, modal = NoModal, NEW k \in AskedKinds, NEW S \in SUBSET Messages,
         modal' = [kind |-> k, ids |-> S], k = "empty" => view = "mail" /\ folder = "trash",
         UNCHANGED <<confirming, bulkBusy, ops>>, UnchangedByStarting
  PROVE  ListInv'
<1>1. modal' \in Modals /\ modal'.kind = k /\ k # "none"
  BY DEF Modals, AskedKinds
<1>2. \A t \in Slots : ops[t].kind \notin AskedKinds
  BY DEF ListInv, DialogOK, NoModal, AskedKinds
<1>3. Shape'
  BY <1>1 DEF ListInv, Shape, UnchangedByStarting, server, nav, loadVars
<1>4. LoadsOK'
  BY <1>1, LoadsFrame DEF ListInv, UnchangedByStarting, loadVars
<1>5. DialogOK'
  BY <1>1, <1>2 DEF ListInv, DialogOK, AskedFirst, AskedKinds
<1>6. ReadsOK'
  BY DEF ListInv, ReadsOK, ReadIsRecorded, UnchangedByStarting, server, loadVars
<1> QED
  BY <1>3, <1>4, <1>5, <1>6 DEF ListInv, SelectionIsListed, UnchangedByStarting

\* onConfirm: the dialog was not confirmed before, so its operation is alone.
LEMMA ConfirmPreserves ==
  ASSUME ListInv, NEW s \in Slots, Confirm(s)
  PROVE  ListInv'
<1> DEFINE op == Op(modal.kind, modal.ids, "")
<1>1. modal \in Modals /\ modal.kind \in AskedKinds
  BY DEF Confirm, ListInv, Shape, DialogOK, Modals
<1>2. /\ op \in OpRecords /\ op.kind = modal.kind
      /\ op.todo \cup op.done = modal.ids /\ op.done = {}
  BY <1>1 DEF Op, OpRecords, Modals, Kinds, AskedKinds
<1> HIDE DEF op
<1>3. ops \in [Slots -> OpRecords] /\ ops' = [ops EXCEPT ![s] = op]
  BY DEF ListInv, Shape, Start, Confirm, op
<1>4. ops' \in [Slots -> OpRecords] /\ ops'[s] = op /\ \A t \in Slots : t # s => ops'[t] = ops[t]
  BY <1>2, <1>3, SMTT(30)
<1>5. \A t \in Slots : ops[t].kind \notin AskedKinds
  BY DEF ListInv, DialogOK, Confirm
<1>6. Shape'
  BY <1>4 DEF ListInv, Shape, Confirm, server, nav, loadVars
<1>7. LoadsOK'
  BY LoadsFrame, ZenonT(30) DEF ListInv, Confirm, loadVars
<1>8. DialogOK'
  <2>1. confirming' /\ modal' = modal
    BY DEF Confirm
  <2> QED
    BY <1>1, <1>2, <1>4, <1>5, <2>1 DEF ListInv, DialogOK, AskedFirst, AskedKinds
<1>9. ReadsOK'
  BY <1>1, <1>2, <1>4 DEF ListInv, ReadsOK, ReadIsRecorded, Confirm, server, loadVars,
     AskedKinds
<1> QED
  BY <1>6, <1>7, <1>8, <1>9 DEF ListInv, SelectionIsListed, Confirm

\* A dialog is closed only while nothing it asked for runs.
LEMMA ClosePreserves ==
  ASSUME ListInv, CloseModal
  PROVE  ListInv'
<1>1. modal' \in Modals /\ modal'.kind = "none" /\ modal' = NoModal
  BY DEF CloseModal, NoModal, Modals
<1>2. \A t \in Slots : ops[t].kind \notin AskedKinds
  BY DEF ListInv, DialogOK, CloseModal
<1>3. Shape'
  BY <1>1 DEF ListInv, Shape, CloseModal, UnchangedByStarting, server, nav, loadVars
<1>4. LoadsOK'
  BY <1>1, LoadsFrame DEF ListInv, CloseModal, UnchangedByStarting, loadVars
<1>5. DialogOK'
  BY <1>1, <1>2 DEF ListInv, DialogOK, AskedFirst, AskedKinds, CloseModal
<1>6. ReadsOK'
  BY DEF ListInv, ReadsOK, ReadIsRecorded, CloseModal, UnchangedByStarting, server, loadVars
<1> QED
  BY <1>3, <1>4, <1>5, <1>6 DEF ListInv, SelectionIsListed, CloseModal, UnchangedByStarting

\* The operations a user starts keep the invariant.
LEMMA StartingStep ==
  ASSUME ListInv, Starting
  PROVE  ListInv'
<1>1. /\ sel.ids \in SUBSET Messages /\ DOMAIN list \in SUBSET Messages
      /\ "trash" \in Folders /\ bulkBusy \in BOOLEAN
  BY RowListShape, FoldersAssumption, SMTT(30) DEF ListInv, Shape, Selections
<1>2. ASSUME NEW kind \in Kinds \ AskedKinds, NEW T \in SUBSET Messages,
             NEW dest \in Folders \cup {""}, kind \in {"move", "bulkMove"} => dest \in Folders
      PROVE  LET op == Op(kind, T, dest)
             IN  /\ op \in OpRecords /\ op.kind \notin AskedKinds /\ op.done = {}
                 /\ op.kind \in {"move", "bulkMove"} => op.dest \in Folders
  BY <1>2 DEF Op, OpRecords
<1>3. {"move", "delete", "bulkMove", "bulkDelete", "bulkRead"} \subseteq Kinds \ AskedKinds
  BY SMTT(30) DEF Kinds, AskedKinds
<1>4. ASSUME NEW s \in Slots, NEW m \in Messages, handleMoveMessage(s, m) PROVE ListInv'
  <2> DEFINE op == Op("move", {m}, MoveTarget)
  <2>1. /\ Start(s, op) /\ UNCHANGED <<modal, confirming, bulkBusy>>
        /\ UnchangedByStarting /\ MoveTarget \in Folders
    BY <1>4 DEF handleMoveMessage
  <2>2. /\ op \in OpRecords /\ op.kind \notin AskedKinds /\ op.done = {}
        /\ op.kind \in {"move", "bulkMove"} => op.dest \in Folders
    BY <1>2, <1>3, <2>1, ZenonT(30)
  <2> HIDE DEF op
  <2> QED
    BY <1>1, <2>1, <2>2, StartPreserves
<1>5. ASSUME NEW s \in Slots, NEW m \in Messages, handleDeleteMessage(s, m) PROVE ListInv'
  <2> DEFINE op == Op("delete", {m}, "trash")
  <2>1. Start(s, op) /\ UNCHANGED <<modal, confirming, bulkBusy>> /\ UnchangedByStarting
    BY <1>5 DEF handleDeleteMessage
  <2>2. /\ op \in OpRecords /\ op.kind \notin AskedKinds /\ op.done = {}
        /\ op.kind \in {"move", "bulkMove"} => op.dest \in Folders
    BY <1>1, <1>2, <1>3, ZenonT(30)
  <2> HIDE DEF op
  <2> QED
    BY <1>1, <2>1, <2>2, StartPreserves
<1>6. ASSUME NEW s \in Slots, NEW kind \in {"bulkMove", "bulkDelete", "bulkRead"},
             NEW T \in SUBSET Messages, NEW dest \in Folders \cup {""},
             kind = "bulkMove" => dest \in Folders, StartBulk(s, Op(kind, T, dest))
      PROVE  ListInv'
  <2> DEFINE op == Op(kind, T, dest)
  <2>1. Start(s, op) /\ UNCHANGED <<modal, confirming>> /\ bulkBusy' \in BOOLEAN /\ UnchangedByStarting
    BY <1>6 DEF StartBulk
  <2>2. /\ op \in OpRecords /\ op.kind \notin AskedKinds /\ op.done = {}
        /\ op.kind \in {"move", "bulkMove"} => op.dest \in Folders
    BY <1>2, <1>3, <1>6
  <2> HIDE DEF op
  <2> QED
    BY <2>1, <2>2, StartPreserves
<1>7. ASSUME NEW s \in Slots, bulkMoveSelected(s) PROVE ListInv'
  BY <1>1, <1>6, <1>7 DEF bulkMoveSelected
<1>8. ASSUME NEW s \in Slots, bulkTrashSelected(s) PROVE ListInv'
  BY <1>1, <1>6, <1>8, ZenonT(30) DEF bulkTrashSelected
<1>9. ASSUME NEW s \in Slots, bulkMarkReadSelected(s) PROVE ListInv'
  <2> DEFINE targets == {m \in sel.ids \cap DOMAIN list : ~list[m]}
  <2>1. targets \in SUBSET Messages /\ StartBulk(s, Op("bulkRead", targets, ""))
    BY <1>1, <1>9 DEF bulkMarkReadSelected
  <2> QED
    BY <1>6, <2>1
<1>10. ASSUME NEW m \in Messages, handleDeleteImmediately(m) PROVE ListInv'
  BY <1>10, AskPreserves DEF handleDeleteImmediately, MenuOf, RowsClickable, AskedKinds
<1>11. ASSUME bulkPermDeleteSelected PROVE ListInv'
  BY <1>1, <1>11, AskPreserves DEF bulkPermDeleteSelected, BulkBar, AskedKinds
<1>12. ASSUME openEmptyTrashConfirm PROVE ListInv'
  BY <1>12, AskPreserves DEF openEmptyTrashConfirm, Page, AskedKinds
<1> QED
  BY <1>4, <1>5, <1>7, <1>8, <1>9, <1>10, <1>11, <1>12, ConfirmPreserves, ClosePreserves, SMTT(30)
  DEF Starting

-----------------------------------------------------------------------------
(* Loading a folder *)

\* A load that starts takes a generation no load in flight has.
LEMMA LoadStarted ==
  ASSUME Shape, LoadsOK, NEW f \in Folders, loadFolder(f)
  PROVE  /\ gen' \in Nat \ {0} /\ gen' - 1 + faults <= MaxEvents
         /\ loads' \subseteq LoadRecords
         /\ \A l \in loads' : l.gen \in 1 .. gen'
         /\ \A l, k \in loads' : l.gen = k.gen => l = k
         /\ \E l \in loads' : l.gen = gen'
         /\ \A l \in loads' : l.gen = gen' => l.folder = f
         /\ \A l \in loads' : l \in loads \/ DOMAIN l.rows = {}
         /\ loading' /\ UNCHANGED hasMail
<1> DEFINE new == Load(gen + 1, f)
<1>1. gen \in Nat \ {0} /\ faults \in Nat /\ MaxEvents \in Nat /\ loads \subseteq LoadRecords
  BY BoundsAssumption DEF Shape
<1>2. new \in LoadRecords /\ new.gen = gen + 1 /\ new.folder = f /\ DOMAIN new.rows = {}
  BY <1>1, NoRowsShape, SMT DEF Load, LoadRecords
<1> HIDE DEF new
<1>3. gen' = gen + 1 /\ loads' = loads \cup {new} /\ loading' /\ UNCHANGED hasMail
  BY DEF loadFolder, new
<1>4. gen - 1 + faults < MaxEvents
  BY DEF loadFolder, WithinBound
<1>5. \A l \in loads : l.gen \in 1 .. gen /\ l.gen # new.gen /\ l.gen # gen'
  BY <1>1, <1>2, <1>3, SMT DEF LoadsOK
<1>6. \A l, k \in loads : l.gen = k.gen => l = k
  BY DEF LoadsOK
<1>7. \A l \in loads' : l.gen \in 1 .. gen'
  BY <1>1, <1>2, <1>3, <1>5, SMT
<1>8. gen' \in Nat \ {0} /\ gen' - 1 + faults <= MaxEvents
  BY <1>1, <1>3, <1>4, SMT
<1> QED
  BY <1>1, <1>2, <1>3, <1>5, <1>6, <1>7, <1>8

\* A click on a folder highlights it and loads it, unless it is on screen.
LEMMA OpenFolderPreserves ==
  ASSUME ListInv, NEW f \in Folders, OpenFolder(f)
  PROVE  ListInv'
<1>1. Shape /\ LoadsOK /\ list \in RowLists /\ reads \subseteq Messages
  BY DEF ListInv, Shape
<1>2. /\ list' \in RowLists /\ DOMAIN list' = DOMAIN list
      /\ sel' \in Selections /\ SelectionIsListed'
      /\ reads' \subseteq Messages
      /\ \A m \in DOMAIN list : list'[m] => list[m] \/ m \in reads'
      /\ reads \subseteq reads'
  <2>1. Commit(list, emptyMailListSelection, {})
    BY DEF OpenFolder, Select
  <2> QED
    BY <1>1, <2>1, EmptyCoherent, CommitStep
<1>3. /\ UNCHANGED <<server, shown, dialog, bulkBusy, ops, faults>>
      /\ view' = "mail" /\ folder' = f /\ modal = NoModal /\ modal' = modal
  BY DEF OpenFolder, dialog
<1>4. DialogOK'
  BY <1>3, DialogFrame DEF ListInv
<1>5. modal'.kind # "empty"
  BY <1>3 DEF NoModal
<1>6. CASE view = "mail" /\ folder = f
  <2>1. UNCHANGED loadVars
    BY <1>6 DEF OpenFolder
  <2>2. Shape'
    BY <1>1, <1>2, <1>3, <1>6, <2>1 DEF Shape, server, loadVars, dialog
  <2>3. LoadsOK'
    BY <1>1, <1>3, <1>5, <1>6, <2>1, LoadsFrame, SMTT(30) DEF nav, loadVars
  <2>4. ReadsOK'
    BY <1>2, <1>3, <2>1 DEF ListInv, ReadsOK, ReadIsRecorded, server, loadVars
  <2> QED
    BY <1>2, <1>4, <2>2, <2>3, <2>4 DEF ListInv
<1>7. CASE ~(view = "mail" /\ folder = f)
  <2>1. loadFolder(f)
    BY <1>7 DEF OpenFolder
  <2>2. /\ gen' \in Nat \ {0} /\ gen' - 1 + faults <= MaxEvents
        /\ loads' \subseteq LoadRecords
        /\ \A l \in loads' : l.gen \in 1 .. gen'
        /\ \A l, k \in loads' : l.gen = k.gen => l = k
        /\ \E l \in loads' : l.gen = gen'
        /\ \A l \in loads' : l.gen = gen' => l.folder = f
        /\ \A l \in loads' : l \in loads \/ DOMAIN l.rows = {}
        /\ loading' /\ UNCHANGED hasMail
    BY <1>1, <2>1, LoadStarted
  <2>3. loading' \in BOOLEAN
    BY <2>1 DEF loadFolder
  <2>4. Shape'
    BY <1>1, <1>2, <1>3, <2>2, <2>3 DEF Shape, server, dialog
  <2>5. LoadsOK'
    BY <1>3, <1>5, <2>2, <2>3, SMTT(30) DEF LoadsOK, SpinnerHasLoad, ListIsOfFolder
  <2>6. ReadsOK'
    BY <1>2, <1>3, <2>2 DEF ListInv, ReadsOK, ReadIsRecorded, server
  <2> QED
    BY <1>2, <1>4, <2>4, <2>5, <2>6 DEF ListInv
<1> QED
  BY <1>6, <1>7

\* Refresh loads the folder highlighted again.
LEMMA RefreshPreserves ==
  ASSUME ListInv, Refresh
  PROVE  ListInv'
<1>1. Shape /\ LoadsOK /\ folder \in Folders /\ loadFolder(folder)
  BY DEF ListInv, Shape, Refresh
<1>2. UNCHANGED <<server, nav, list, shown, sel, dialog, bulkBusy, ops, reads, faults>>
  BY DEF Refresh
<1>3. /\ gen' \in Nat \ {0} /\ gen' - 1 + faults <= MaxEvents
      /\ loads' \subseteq LoadRecords
      /\ \A l \in loads' : l.gen \in 1 .. gen'
      /\ \A l, k \in loads' : l.gen = k.gen => l = k
      /\ \E l \in loads' : l.gen = gen'
      /\ \A l \in loads' : l.gen = gen' => l.folder = folder
      /\ \A l \in loads' : l \in loads \/ DOMAIN l.rows = {}
      /\ loading' /\ UNCHANGED hasMail
  BY <1>1, LoadStarted
<1>4. loading' \in BOOLEAN
  BY <1>1 DEF loadFolder
<1>5. Shape'
  BY <1>1, <1>2, <1>3, <1>4 DEF Shape, server, nav, dialog
<1>6. LoadsOK'
  BY <1>1, <1>2, <1>3, <1>4 DEF LoadsOK, SpinnerHasLoad, ListIsOfFolder, nav, dialog
<1>7. DialogOK'
  BY <1>2, DialogFrame, SMTT(30) DEF ListInv
<1>8. ReadsOK'
  BY <1>2, <1>3 DEF ListInv, ReadsOK, ReadIsRecorded, server
<1> QED
  BY <1>2, <1>5, <1>6, <1>7, <1>8 DEF ListInv, SelectionIsListed

\* Leaving for the settings keeps the invariant.
LEMMA OpenSettingsPreserves ==
  ASSUME ListInv, OpenSettings
  PROVE  ListInv'
<1>1. /\ UNCHANGED <<server, folder, loadVars, list, shown, sel, dialog, bulkBusy, ops, reads, faults>>
      /\ modal = NoModal /\ view' = "settings"
  BY DEF OpenSettings
<1>2. Shape'
  BY <1>1 DEF ListInv, Shape, server, loadVars, dialog
<1>3. LoadsOK'
  BY <1>1 DEF ListInv, LoadsOK, SpinnerHasLoad, ListIsOfFolder, loadVars, dialog, NoModal
<1>4. DialogOK'
  BY <1>1, DialogFrame DEF ListInv
<1>5. ReadsOK'
  BY <1>1 DEF ListInv, ReadsOK, ReadIsRecorded, server, loadVars
<1> QED
  BY <1>1, <1>2, <1>3, <1>4, <1>5 DEF ListInv, SelectionIsListed

\* The answer of a load keeps its generation and its folder.
LEMMA ServeLoadPreserves ==
  ASSUME ListInv, NEW l \in loads, ServeLoad(l)
  PROVE  ListInv'
<1> DEFINE k == [l EXCEPT !.served = TRUE, !.rows = Rows(InFolder(l.folder))]
<1>1. Shape /\ LoadsOK /\ l \in LoadRecords /\ loads \subseteq LoadRecords
  BY DEF ListInv, Shape
<1>2. /\ Rows(InFolder(l.folder)) \in RowLists
      /\ \A m \in DOMAIN Rows(InFolder(l.folder)) : Rows(InFolder(l.folder))[m] => m \in seen
  BY RowsShape DEF InFolder
<1>3. /\ k \in LoadRecords /\ k.gen = l.gen /\ k.folder = l.folder
      /\ k.rows = Rows(InFolder(l.folder))
  BY <1>1, <1>2 DEF LoadRecords
<1>4. /\ loads' = (loads \ {l}) \cup {k}
      /\ UNCHANGED <<server, nav, gen, loading, hasMail, list, shown, sel, dialog, bulkBusy,
                     ops, reads, faults>>
  BY DEF ServeLoad
<1> HIDE DEF k
<1>5. Shape'
  <2>1. loads' \subseteq LoadRecords
    BY <1>1, <1>3, <1>4
  <2> QED
    BY <1>1, <1>4, <2>1 DEF Shape, server, nav, dialog
<1>6. LoadsOK'
  <2>1. \A j \in loads' : j.gen \in 1 .. gen
    BY <1>1, <1>3, <1>4 DEF LoadsOK
  <2>2. \A i, j \in loads' : i.gen = j.gen => i = j
    BY <1>1, <1>3, <1>4, SMT DEF LoadsOK
  <2>3. (\E j \in loads : j.gen = gen) <=> (\E j \in loads' : j.gen = gen)
    BY <1>3, <1>4
  <2>4. view = "mail" => \A j \in loads' : j.gen = gen => j.folder = folder
    BY <1>1, <1>3, <1>4 DEF LoadsOK
  <2> QED
    BY <1>1, <1>4, <2>1, <2>2, <2>3, <2>4
    DEF LoadsOK, SpinnerHasLoad, ListIsOfFolder, nav, dialog
<1>7. DialogOK'
  BY <1>4, DialogFrame, SMTT(30) DEF ListInv
<1>8. ReadsOK'
  BY <1>2, <1>3, <1>4 DEF ListInv, ReadsOK, ReadIsRecorded, server
<1> QED
  BY <1>4, <1>5, <1>6, <1>7, <1>8 DEF ListInv, SelectionIsListed

\* A load ends: the one of the latest generation sets the list, which is then of
\* the folder highlighted, and stops the spinner; any other is dropped.
LEMMA LoadEnds ==
  ASSUME ListInv, NEW l \in loads, loads' = loads \ {l}, NEW rows \in RowLists, NEW fresh,
         \A m \in DOMAIN rows : rows[m] => m \in seen,
         IF l.gen = gen
           THEN /\ Commit(rows, sel, fresh)
                /\ shown' = l.folder /\ loading' = FALSE /\ hasMail' \in BOOLEAN
           ELSE UNCHANGED <<list, shown, sel, reads, hasMail, loading>>,
         faults' \in Nat, gen - 1 + faults' <= MaxEvents,
         UNCHANGED <<server, nav, gen, dialog, bulkBusy, ops>>
  PROVE  ListInv'
<1>1. /\ Shape /\ LoadsOK /\ l.folder \in Folders /\ sel \in Selections /\ Coherent(sel)
      /\ reads \subseteq Messages
  BY ListedIsCoherent DEF ListInv, Shape, LoadRecords
<1>2. DialogOK'
  BY DialogFrame DEF ListInv
<1>3. loads' \subseteq LoadRecords /\ loads' \subseteq loads
  BY <1>1 DEF Shape
<1>4. CASE l.gen = gen
  <2>1. /\ list' \in RowLists /\ DOMAIN list' = DOMAIN rows
        /\ sel' \in Selections /\ SelectionIsListed'
        /\ reads' \subseteq Messages
        /\ \A m \in DOMAIN rows : list'[m] => rows[m] \/ m \in reads'
        /\ reads \subseteq reads'
    BY <1>1, <1>4, CommitStep
  <2>2. shown' = l.folder /\ loading' = FALSE /\ hasMail' \in BOOLEAN
    BY <1>4, SMTT(30)
  <2>3. Shape'
    BY <1>1, <1>3, <2>1, <2>2, ZenonT(30) DEF Shape, server, nav, dialog
  <2>4. \A k \in loads' : k.gen # gen
    BY <1>1, <1>4 DEF LoadsOK
  <2>5. view = "mail" => l.folder = folder
    BY <1>1, <1>4 DEF LoadsOK
  <2>6. LoadsOK'
    BY <1>1, <1>3, <2>2, <2>4, <2>5 DEF LoadsOK, SpinnerHasLoad, ListIsOfFolder, nav, dialog
  <2>7. ReadsOK'
    BY <1>3, <2>1 DEF ListInv, ReadsOK, ReadIsRecorded, server
  <2> QED
    BY <1>2, <2>1, <2>3, <2>6, <2>7, SMTT(30) DEF ListInv
<1>5. CASE l.gen # gen
  <2>1. UNCHANGED <<list, shown, sel, reads, hasMail, loading>>
    BY <1>5
  <2>2. Shape'
    BY <1>1, <1>3, <2>1 DEF Shape, server, nav, dialog
  <2>3. (\E k \in loads : k.gen = gen) <=> (\E k \in loads' : k.gen = gen)
    BY <1>5
  <2>4. LoadsOK'
    BY <1>1, <1>3, <2>1, <2>3, SMTT(30) DEF LoadsOK, SpinnerHasLoad, ListIsOfFolder, nav, dialog
  <2>5. ReadsOK'
    BY <1>3, <2>1 DEF ListInv, ReadsOK, ReadIsRecorded, server
  <2> QED
    BY <1>2, <2>1, <2>2, <2>4, <2>5 DEF ListInv, SelectionIsListed
<1> QED
  BY <1>4, <1>5

\* Loads, their answers and their failures keep the invariant.
LEMMA LoadingStep ==
  ASSUME ListInv, Loading
  PROVE  ListInv'
<1>1. /\ faults \in Nat /\ gen \in Nat \ {0} /\ MaxEvents \in Nat /\ hasMail \in BOOLEAN
      /\ gen - 1 + faults <= MaxEvents /\ loads \subseteq LoadRecords
  BY BoundsAssumption DEF ListInv, Shape
<1>2. ASSUME NEW l \in loads, ApplyLoad(l) PROVE ListInv'
  <2>1. l.rows \in RowLists /\ \A m \in DOMAIN l.rows : l.rows[m] => m \in seen
    BY <1>1 DEF ListInv, ReadsOK, LoadRecords
  <2>2. /\ loads' = loads \ {l}
        /\ IF l.gen = gen
             THEN /\ Commit(l.rows, sel, DOMAIN l.rows)
                  /\ shown' = l.folder /\ loading' = FALSE /\ hasMail' \in BOOLEAN
             ELSE UNCHANGED <<list, shown, sel, reads, hasMail, loading>>
        /\ UNCHANGED <<server, nav, gen, dialog, bulkBusy, ops>> /\ faults' = faults
    BY <1>2 DEF ApplyLoad
  <2>3. faults' \in Nat /\ gen - 1 + faults' <= MaxEvents
    BY <1>1, <2>2
  <2> QED
    BY <2>1, <2>2, <2>3, LoadEnds
<1>3. ASSUME NEW l \in loads, FailLoad(l) PROVE ListInv'
  <2>1. NoRows \in RowLists /\ \A m \in DOMAIN NoRows : NoRows[m] => m \in seen
    BY NoRowsShape
  <2>2. /\ loads' = loads \ {l}
        /\ IF l.gen = gen
             THEN /\ Commit(NoRows, sel, {})
                  /\ shown' = l.folder /\ loading' = FALSE /\ hasMail' \in BOOLEAN
             ELSE UNCHANGED <<list, shown, sel, reads, hasMail, loading>>
        /\ UNCHANGED <<server, nav, gen, dialog, bulkBusy, ops>>
    BY <1>1, <1>3 DEF FailLoad
  <2>3. faults' \in Nat /\ gen - 1 + faults' <= MaxEvents
    BY <1>1, <1>3, SMT DEF FailLoad, WithinBound
  <2> QED
    BY <2>1, <2>2, <2>3, LoadEnds
<1> QED
  BY <1>2, <1>3, OpenFolderPreserves, OpenSettingsPreserves, RefreshPreserves, ServeLoadPreserves
  DEF Loading

-----------------------------------------------------------------------------
(* Requests and replies *)

\* A request puts its message into a folder or removes it, and takes no read
\* flag back; a bulk read request records the flag of its message.
LEMMA ApplyStep ==
  ASSUME ListInv, NEW s \in Slots, NEW m \in Messages, Apply(ops[s], m)
  PROVE  /\ box' \in [Messages -> Folders \cup {"gone"}]
         /\ seen' \subseteq Messages /\ seen \subseteq seen'
         /\ ops[s].kind = "bulkRead" => m \in seen'
<1>1. box \in [Messages -> Folders \cup {"gone"}] /\ seen \subseteq Messages
  BY DEF ListInv, Shape
<1>2. NewPlace(ops[s], m) \in Folders \cup {"gone"}
  <2>1. "trash" \in Folders /\ box[m] \in Folders \cup {"gone"}
    BY <1>1, FoldersAssumption
  <2>2. ops[s].kind \in {"move", "bulkMove"} => ops[s].dest \in Folders
    BY DEF ListInv, DialogOK
  <2>3. CASE ops[s].kind \in {"move", "bulkMove"}
    BY <2>2, <2>3 DEF NewPlace
  <2>4. CASE ops[s].kind \in {"delete", "bulkDelete"}
    <3>1. NewPlace(ops[s], m) = IF box[m] = "trash" THEN "gone" ELSE "trash"
      BY <2>4 DEF NewPlace
    <3> QED
      BY <2>1, <3>1
  <2>5. CASE ops[s].kind \in {"purge", "bulkPurge", "empty"}
    <3>1. NewPlace(ops[s], m) = "gone"
      BY <2>5 DEF NewPlace
    <3> QED
      BY <3>1
  <2>6. CASE ops[s].kind \notin {"move", "bulkMove", "delete", "bulkDelete", "purge", "bulkPurge", "empty"}
    <3>1. NewPlace(ops[s], m) = box[m]
      BY <2>6 DEF NewPlace
    <3> QED
      BY <2>1, <3>1
  <2> QED
    BY <2>3, <2>4, <2>5, <2>6
<1>3. box' = [box EXCEPT ![m] = NewPlace(ops[s], m)]
  BY DEF Apply
<1>4. box' \in [Messages -> Folders \cup {"gone"}]
  BY <1>1, <1>2, <1>3
<1>5. seen' = IF ops[s].kind = "bulkRead" THEN seen \cup {m} ELSE seen
  BY SMTT(30) DEF Apply
<1> QED
  BY <1>1, <1>4, <1>5

\* An operation under way keeps its kind and its target, and works on no message
\* but those it was started for (emptying the trash names none).
LEMMA OpProgress ==
  ASSUME ListInv, NEW s \in Slots, NEW op \in OpRecords, ops' = [ops EXCEPT ![s] = op],
         op.kind = ops[s].kind, op.dest = ops[s].dest,
         op.kind = "empty" \/ op.todo \cup op.done \subseteq ops[s].todo \cup ops[s].done,
         UNCHANGED dialog
  PROVE  ops' \in [Slots -> OpRecords] /\ DialogOK'
<1>1. ops \in [Slots -> OpRecords]
  BY DEF ListInv, Shape
<1>2. ops' \in [Slots -> OpRecords] /\ ops'[s] = op /\ \A t \in Slots : t # s => ops'[t] = ops[t]
  BY <1>1
<1>3. \A t \in Slots : ops'[t].kind = ops[t].kind /\ ops'[t].dest = ops[t].dest
  BY <1>2
<1>4. AskedFirst'
  <2> SUFFICES ASSUME NEW t \in Slots, ops'[t].kind \in {"purge", "bulkPurge"}
               PROVE  confirming' /\ ops'[t].todo \cup ops'[t].done \subseteq modal'.ids
    BY DEF AskedFirst
  <2>1. confirming /\ ops[t].todo \cup ops[t].done \subseteq modal.ids
    BY <1>3, SMTT(30) DEF ListInv, DialogOK, AskedFirst
  <2>2. ops'[t].todo \cup ops'[t].done \subseteq ops[t].todo \cup ops[t].done
    BY <1>2
  <2> QED
    BY <2>1, <2>2 DEF dialog
<1> QED
  BY <1>2, <1>3, <1>4, SMTT(30) DEF ListInv, DialogOK, dialog

\* A request that succeeded.
LEMMA ServePreserves ==
  ASSUME ListInv, NEW s \in Slots, Serve(s)
  PROVE  ListInv'
<1> DEFINE m == FirstRow(ops[s].todo)
           done == IF ops[s].kind = "empty" THEN {} ELSE ops[s].done \cup {m}
           op == [ops[s] EXCEPT !.todo = ops[s].todo \ {m}, !.done = done]
<1>1. Shape /\ LoadsOK /\ ops \in [Slots -> OpRecords] /\ ops[s] \in OpRecords
  BY DEF ListInv, Shape
<1>2. m \in ops[s].todo /\ m \in Messages
  <2>1. ops[s].todo # {} /\ ops[s].todo \in SUBSET Messages
    BY <1>1 DEF Serve, OpRecords
  <2> QED
    BY <2>1, FirstRowIn
<1>3. done \in SUBSET Messages /\ done \subseteq ops[s].todo \cup ops[s].done
  BY <1>1, <1>2 DEF OpRecords
<1>4. ops' = [ops EXCEPT ![s] = op]
  BY <1>1 DEF Serve
<1>5. Apply(ops[s], m) /\ UNCHANGED faults /\ UnchangedByServing
  BY DEF Serve
<1>6. ops[s].kind = "bulkRead" => done \subseteq ops[s].done \cup {m}
  OBVIOUS
<1> HIDE DEF m, done
<1>7. /\ op \in OpRecords /\ op.kind = ops[s].kind /\ op.dest = ops[s].dest
      /\ op.done = done /\ op.todo = ops[s].todo \ {m}
  BY <1>1, <1>3 DEF OpRecords
<1> HIDE DEF op
<1>8. ops' \in [Slots -> OpRecords] /\ DialogOK'
  BY <1>3, <1>4, <1>5, <1>7, OpProgress, ZenonT(30) DEF UnchangedByServing, dialog
<1>9. /\ box' \in [Messages -> Folders \cup {"gone"}]
      /\ seen' \subseteq Messages /\ seen \subseteq seen'
      /\ ops[s].kind = "bulkRead" => m \in seen'
  BY <1>2, <1>5, ApplyStep
<1>10. Shape'
  BY <1>1, <1>5, <1>8, <1>9 DEF Shape, UnchangedByServing, nav, loadVars
<1>11. LoadsOK'
  BY <1>1, <1>5, LoadsFrame, SMTT(30) DEF UnchangedByServing, loadVars
<1>12. ReadsOK'
  <2>1. \A t \in Slots : t # s => ops'[t] = ops[t]
    BY <1>1, <1>4
  <2>2. ops'[s] = op
    BY <1>1, <1>4, SMTT(30)
  <2>3. \A t \in Slots : ops'[t].kind = "bulkRead" => ops'[t].done \subseteq seen'
    BY <1>6, <1>7, <1>9, <2>1, <2>2 DEF ListInv, ReadsOK
  <2> QED
    BY <1>5, <1>9, <2>3 DEF ListInv, ReadsOK, ReadIsRecorded, UnchangedByServing, loadVars
<1> QED
  BY <1>5, <1>8, <1>10, <1>11, <1>12 DEF ListInv, SelectionIsListed, UnchangedByServing

\* A request that failed, with or without its effect on the server.
LEMMA ServeFailsPreserves ==
  ASSUME ListInv, NEW s \in Slots, ServeFails(s)
  PROVE  ListInv'
<1> DEFINE m == FirstRow(ops[s].todo)
           op == [ops[s] EXCEPT !.todo = {}, !.done = {}, !.state = "failed"]
<1>1. /\ Shape /\ LoadsOK /\ ops \in [Slots -> OpRecords] /\ ops[s] \in OpRecords
      /\ faults \in Nat /\ gen \in Nat /\ MaxEvents \in Nat /\ gen - 1 + faults <= MaxEvents
      /\ box \in [Messages -> Folders \cup {"gone"}] /\ seen \subseteq Messages
  BY BoundsAssumption DEF ListInv, Shape
<1>2. m \in Messages
  <2>1. ops[s].todo # {} /\ ops[s].todo \in SUBSET Messages
    BY <1>1 DEF ServeFails, OpRecords
  <2> QED
    BY <2>1, FirstRowIn
<1>3. ops' = [ops EXCEPT ![s] = op]
  BY <1>1 DEF ServeFails
<1>4. /\ UnchangedByServing
      /\ UNCHANGED server \/ Apply(ops[s], m)
      /\ faults' \in Nat /\ gen - 1 + faults' <= MaxEvents
  BY <1>1, SMT DEF ServeFails, WithinBound
<1> HIDE DEF m
<1>5. op \in OpRecords /\ op.kind = ops[s].kind /\ op.dest = ops[s].dest /\ op.done = {} /\ op.todo = {}
  BY <1>1 DEF OpRecords
<1> HIDE DEF op
<1>6. ops' \in [Slots -> OpRecords] /\ DialogOK'
  BY <1>3, <1>4, <1>5, OpProgress DEF UnchangedByServing, dialog
<1>7. /\ box' \in [Messages -> Folders \cup {"gone"}]
      /\ seen' \subseteq Messages /\ seen \subseteq seen'
  BY <1>1, <1>2, <1>4, ApplyStep DEF server
<1>8. Shape'
  BY <1>1, <1>4, <1>6, <1>7 DEF Shape, UnchangedByServing, nav, loadVars
<1>9. LoadsOK'
  BY <1>1, <1>4, LoadsFrame DEF UnchangedByServing, loadVars
<1>10. ReadsOK'
  <2>1. (\A t \in Slots : t # s => ops'[t] = ops[t]) /\ ops'[s] = op
    BY <1>1, <1>3
  <2>2. \A t \in Slots : ops'[t].kind = "bulkRead" => ops'[t].done \subseteq seen'
    BY <1>5, <1>7, <2>1 DEF ListInv, ReadsOK
  <2> QED
    BY <1>4, <1>7, <2>2 DEF ListInv, ReadsOK, ReadIsRecorded, UnchangedByServing, loadVars
<1> QED
  BY <1>4, <1>6, <1>8, <1>9, <1>10 DEF ListInv, SelectionIsListed, UnchangedByServing

\* The next page of the trash, or the reload after the last one: the dialog kept
\* the trash on screen meanwhile.
LEMMA FetchTrashPreserves ==
  ASSUME ListInv, NEW s \in Slots, FetchTrash(s)
  PROVE  ListInv'
<1>1. /\ Shape /\ LoadsOK /\ ops \in [Slots -> OpRecords] /\ ops[s] \in OpRecords
      /\ "trash" \in Folders /\ reads \subseteq Messages /\ gen \in Nat
  BY FoldersAssumption DEF ListInv, Shape
<1>2. ops[s].kind = "empty" /\ UNCHANGED <<server, nav, dialog, bulkBusy, faults>>
  BY DEF FetchTrash
<1>3. view = "mail" /\ folder = "trash"
  BY <1>2 DEF ListInv, DialogOK, LoadsOK, AskedKinds
<1>4. CASE InFolder("trash") # {}
  <2> DEFINE op == [ops[s] EXCEPT !.todo = InFolder("trash")]
  <2>1. op \in OpRecords /\ op.kind = "empty" /\ op.dest = ops[s].dest
    BY <1>1, <1>2 DEF OpRecords, InFolder
  <2>2. ops' = [ops EXCEPT ![s] = op] /\ UNCHANGED <<loadVars, list, shown, sel, reads>>
    BY <1>1, <1>4, SMTT(30) DEF FetchTrash
  <2> HIDE DEF op
  <2>3. ops' \in [Slots -> OpRecords] /\ DialogOK'
    BY <1>2, <2>1, <2>2, OpProgress
  <2>4. Shape'
    BY <1>1, <1>2, <2>2, <2>3 DEF Shape, server, nav, loadVars, dialog
  <2>5. LoadsOK'
    BY <1>1, <1>2, <2>2, LoadsFrame DEF loadVars, dialog
  <2>6. \A t \in Slots : ops'[t].kind = "bulkRead" => ops'[t] = ops[t]
    BY <1>1, <2>1, <2>2, SMTT(30)
  <2>7. ReadsOK'
    BY <1>2, <2>2, <2>6 DEF ListInv, ReadsOK, ReadIsRecorded, server, loadVars
  <2> QED
    BY <2>2, <2>3, <2>4, <2>5, <2>7 DEF ListInv, SelectionIsListed
<1>5. CASE InFolder("trash") = {}
  <2> DEFINE op == [ops[s] EXCEPT !.state = "reloading", !.gen = gen + 1]
  <2>1. op \in OpRecords /\ op.kind = "empty" /\ op.dest = ops[s].dest
        /\ op.todo = ops[s].todo /\ op.done = ops[s].done
    <3> DEFINE g == gen + 1
    <3>1. g \in Nat
      BY <1>1, SMT
    <3> HIDE DEF g
    <3>2. op = [ops[s] EXCEPT !.state = "reloading", !.gen = g]
      BY DEF g
    <3> QED
      BY <1>1, <1>2, <3>1, <3>2 DEF OpRecords
  <2>2. /\ loadFolder("trash") /\ Commit(NoRows, emptyMailListSelection, {})
        /\ ops' = [ops EXCEPT ![s] = op] /\ UNCHANGED shown
    BY <1>1, <1>5 DEF FetchTrash
  <2> HIDE DEF op
  <2>3. ops' \in [Slots -> OpRecords] /\ DialogOK'
    BY <1>2, <2>1, <2>2, OpProgress, ZenonT(30)
  <2>4. /\ list' \in RowLists /\ DOMAIN list' = {}
        /\ sel' \in Selections /\ SelectionIsListed' /\ reads' \subseteq Messages
    BY <1>1, <2>2, NoRowsShape, EmptyCoherent, CommitStep
  <2>5. /\ gen' \in Nat \ {0} /\ gen' - 1 + faults <= MaxEvents
        /\ loads' \subseteq LoadRecords
        /\ \A l \in loads' : l.gen \in 1 .. gen'
        /\ \A l, k \in loads' : l.gen = k.gen => l = k
        /\ \E l \in loads' : l.gen = gen'
        /\ \A l \in loads' : l.gen = gen' => l.folder = "trash"
        /\ \A l \in loads' : l \in loads \/ DOMAIN l.rows = {}
        /\ loading' /\ UNCHANGED hasMail
    BY <1>1, <2>2, LoadStarted
  <2>6. loading' \in BOOLEAN
    BY <2>2, SMTT(30) DEF loadFolder
  <2>7. Shape'
    BY <1>1, <1>2, <2>2, <2>3, <2>4, <2>5, <2>6, SMTT(30) DEF Shape, server, nav, dialog
  <2>8. LoadsOK'
    BY <1>2, <1>3, <2>2, <2>5, <2>6 DEF LoadsOK, SpinnerHasLoad, ListIsOfFolder, nav
  <2>9. \A t \in Slots : ops'[t].kind = "bulkRead" => ops'[t] = ops[t]
    BY <1>1, <2>1, <2>2, SMTT(30)
  <2>10. ReadsOK'
    BY <1>2, <2>4, <2>5, <2>9, SMTT(30) DEF ListInv, ReadsOK, ReadIsRecorded, server
  <2> QED
    BY <2>3, <2>4, <2>7, <2>8, <2>10 DEF ListInv
<1> QED
  BY <1>4, <1>5

\* The rows and the selection after the last reply.
LEMMA SettleStep ==
  ASSUME ListInv, NEW s \in Slots, Settle(ops[s])
  PROVE  /\ list' \in RowLists /\ sel' \in Selections /\ SelectionIsListed'
         /\ reads' \subseteq Messages
         /\ \A m \in DOMAIN list' : list'[m] => m \in seen \/ m \in reads'
<1>1. /\ list \in RowLists /\ sel \in Selections /\ Coherent(sel) /\ reads \subseteq Messages
      /\ DOMAIN list \in SUBSET Messages /\ list \in [DOMAIN list -> BOOLEAN]
  BY ListedIsCoherent, RowListShape DEF ListInv, Shape
<1>2. \A m \in DOMAIN list : list[m] => m \in seen \/ m \in reads
  BY SMTT(30) DEF ListInv, ReadsOK, ReadIsRecorded
<1>3. CASE ops[s].kind = "bulkRead"
  <2> DEFINE rows == [m \in DOMAIN list |-> list[m] \/ m \in ops[s].done]
  <2>1. rows \in [DOMAIN list -> BOOLEAN] /\ DOMAIN rows = DOMAIN list
    OBVIOUS
  <2>2. rows \in RowLists
    BY <1>1, <2>1, RowListShape
  <2>3. \A m \in DOMAIN rows : rows[m] => m \in seen \/ m \in reads
    BY <1>2, <1>3 DEF ListInv, ReadsOK
  <2>4. Commit(rows, sel, ops[s].done)
    BY <1>3 DEF Settle
  <2> HIDE DEF rows
  <2>5. /\ list' \in RowLists /\ DOMAIN list' = DOMAIN rows
        /\ sel' \in Selections /\ SelectionIsListed' /\ reads' \subseteq Messages
        /\ \A m \in DOMAIN rows : list'[m] => rows[m] \/ m \in reads'
        /\ reads \subseteq reads'
    BY <1>1, <2>2, <2>4, CommitStep
  <2> QED
    BY <2>3, <2>5, SMTT(30)
<1>4. CASE ops[s].kind # "bulkRead"
  <2> DEFINE R == Removed(ops[s])
             rows == Without(list, R)
             sel1 == mailListSelectionAfterRemoving(sel, R)
  <2>1. /\ rows \in [DOMAIN list \ R -> BOOLEAN] /\ DOMAIN rows = DOMAIN list \ R
        /\ \A m \in DOMAIN list \ R : rows[m] = list[m]
    BY <1>1 DEF Without
  <2>2. rows \in RowLists
    BY <1>1, <2>1, RowListShape
  <2>3. sel1 \in Selections /\ Coherent(sel1)
    BY <1>1, RemovingCoherent, SMTT(30)
  <2>4. Commit(rows, sel1, {})
    BY <1>4 DEF Settle
  <2> HIDE DEF R, rows, sel1
  <2>5. /\ list' \in RowLists /\ DOMAIN list' = DOMAIN rows
        /\ sel' \in Selections /\ SelectionIsListed' /\ reads' \subseteq Messages
        /\ \A m \in DOMAIN rows : list'[m] => rows[m] \/ m \in reads'
        /\ reads \subseteq reads'
    BY <1>1, <2>2, <2>3, <2>4, CommitStep
  <2> QED
    BY <1>2, <2>1, <2>5
<1> QED
  BY <1>3, <1>4

\* The last reply: the slot is free again, and a dialog whose operation is over
\* has none left.
LEMMA ReturnPreserves ==
  ASSUME ListInv, NEW s \in Slots, Return(s)
  PROVE  ListInv'
<1> DEFINE asked == ops[s].kind \in AskedKinds
<1>1. /\ Shape /\ LoadsOK /\ ops \in [Slots -> OpRecords] /\ modal \in Modals
      /\ confirming \in BOOLEAN /\ bulkBusy \in BOOLEAN
  BY SMTT(30) DEF ListInv, Shape
<1>2. IdleOp \in OpRecords /\ IdleOp.kind = "idle" /\ NoModal \in Modals /\ NoModal.kind = "none"
  BY ZenonT(30) DEF IdleOp, Op, OpRecords, Kinds, NoModal, Modals
<1>3. /\ ops' = [ops EXCEPT ![s] = IdleOp]
      /\ Settle(ops[s]) \/ UNCHANGED <<list, sel, reads>>
      /\ bulkBusy' \in BOOLEAN /\ confirming' = (confirming /\ ~asked)
      /\ modal' \in {modal, NoModal} /\ (~asked => modal' = modal)
      /\ UNCHANGED <<server, nav, loadVars, shown, faults>>
  BY DEF Return, AskedKinds
<1> HIDE DEF asked
<1>4. /\ ops' \in [Slots -> OpRecords] /\ ops'[s].kind = "idle"
      /\ \A t \in Slots : t # s => ops'[t] = ops[t]
  BY <1>1, <1>2, <1>3, SMTT(30)
<1>5. /\ list' \in RowLists /\ sel' \in Selections /\ SelectionIsListed'
      /\ reads' \subseteq Messages
      /\ \A m \in DOMAIN list' : list'[m] => m \in seen \/ m \in reads'
  <2>1. CASE Settle(ops[s])
    BY <2>1, SettleStep, SMTT(30)
  <2>2. CASE UNCHANGED <<list, sel, reads>>
    BY <2>2, SMTT(30) DEF ListInv, Shape, SelectionIsListed, ReadsOK, ReadIsRecorded
  <2> QED
    BY <1>3, <2>1, <2>2
<1>6. Shape'
  BY <1>1, <1>2, <1>3, <1>4, <1>5 DEF Shape, server, nav, loadVars
<1>7. LoadsOK'
  BY <1>1, <1>2, <1>3, LoadsFrame DEF loadVars
<1>8. DialogOK'
  <2>1. modal'.kind = "none" => modal' = NoModal
    BY <1>3, SMTT(30) DEF ListInv, DialogOK
  <2>2. CASE asked
    <3>1. \A t \in Slots : ops'[t].kind \notin AskedKinds
      BY <1>4, <2>2, SMTT(30) DEF ListInv, DialogOK, asked, AskedKinds
    <3>2. \A t \in Slots : ops'[t].kind \in {"move", "bulkMove"} => ops'[t].dest \in Folders
      BY <1>4, SMTT(30) DEF ListInv, DialogOK
    <3> QED
      BY <2>1, <3>1, <3>2, SMTT(30) DEF DialogOK, AskedFirst, AskedKinds
  <2>3. CASE ~asked
    <3>1. confirming' = confirming /\ modal' = modal
      BY <1>1, <1>3, <2>3
    <3>2. \A t \in Slots : ops'[t].kind # "idle" => ops'[t] = ops[t]
      BY <1>4, SMTT(30)
    <3> QED
      BY <2>1, <3>1, <3>2 DEF ListInv, DialogOK, AskedFirst, AskedKinds
  <2> QED
    BY <2>2, <2>3
<1>9. ReadsOK'
  <2>1. \A t \in Slots : ops'[t].kind = "bulkRead" => ops'[t].done \subseteq seen
    BY <1>4 DEF ListInv, ReadsOK
  <2> QED
    BY <1>3, <1>5, <2>1, ZenonT(30) DEF ListInv, ReadsOK, ReadIsRecorded, server, loadVars
<1> QED
  BY <1>5, <1>6, <1>7, <1>8, <1>9, SMTT(30) DEF ListInv

\* The reply of the mark-as-read effect, and its failure.
LEMMA ReadPreserves ==
  ASSUME ListInv, NEW m \in Messages, ReadRecorded(m) \/ ReadFails(m)
  PROVE  ListInv'
<1> DEFINE again == m = sel.focus /\ m \in DOMAIN list
<1>1. /\ Shape /\ LoadsOK /\ list \in RowLists /\ reads \subseteq Messages /\ seen \subseteq Messages
      /\ faults \in Nat /\ gen \in Nat /\ MaxEvents \in Nat /\ gen - 1 + faults <= MaxEvents
      /\ DOMAIN list \in SUBSET Messages /\ list \in [DOMAIN list -> BOOLEAN]
  BY BoundsAssumption, RowListShape DEF ListInv, Shape
<1>2. UNCHANGED <<box, nav, loadVars, shown, sel, dialog, bulkBusy, ops>>
  BY DEF ReadRecorded, ReadFails
<1>3. DialogOK'
  BY <1>2, DialogFrame DEF ListInv
<1>4. LoadsOK'
  BY <1>1, <1>2, LoadsFrame, SMTT(30) DEF loadVars, dialog
<1>5. SUFFICES /\ faults' \in Nat /\ gen - 1 + faults' <= MaxEvents
               /\ seen \subseteq seen' /\ seen' \subseteq Messages /\ reads' \subseteq Messages
               /\ list' \in RowLists /\ DOMAIN list' = DOMAIN list
               /\ \A n \in DOMAIN list : list'[n] => n \in seen' \/ n \in reads'
  <2>1. Shape'
    BY <1>1, <1>2, <1>5, SMTT(30) DEF Shape, nav, loadVars, dialog
  <2>2. ReadsOK'
    BY <1>2, <1>5, SMTT(30) DEF ListInv, ReadsOK, ReadIsRecorded, loadVars
  <2> QED
    BY <1>2, <1>3, <1>4, <1>5, <2>1, <2>2, SMTT(30) DEF ListInv, SelectionIsListed
<1>6. \A n \in DOMAIN list : list[n] => n \in seen \/ n \in reads
  BY DEF ListInv, ReadsOK, ReadIsRecorded
<1>7. CASE ReadRecorded(m)
  BY <1>1, <1>6, <1>7 DEF ReadRecorded
<1>8. CASE ReadFails(m)
  <2>1. /\ faults' \in Nat /\ gen - 1 + faults' <= MaxEvents
        /\ seen \subseteq seen' /\ seen' \subseteq Messages
    BY <1>1, <1>8, SMTT(30), SMT DEF ReadFails, WithinBound
  <2>2. /\ m \in reads /\ reads' = IF again THEN reads ELSE reads \ {m}
        /\ list' = IF m \in DOMAIN list THEN [list EXCEPT ![m] = again] ELSE list
    BY <1>8 DEF ReadFails
  <2>3. again \in BOOLEAN /\ reads' \subseteq Messages
    BY <1>1, <2>2
  <2>4. again => m \in reads'
    BY <2>2
  <2> HIDE DEF again
  <2>5. list' \in [DOMAIN list -> BOOLEAN] /\ DOMAIN list' = DOMAIN list
    BY <1>1, <2>2, <2>3
  <2>6. list' \in RowLists
    BY <1>1, <2>5, RowListShape
  <2>7. \A n \in DOMAIN list : n # m => list'[n] = list[n]
    BY <1>1, <2>2
  <2>8. m \in DOMAIN list => (list'[m] => again)
    BY <1>1, <2>2
  <2>9. \A n \in reads : n # m => n \in reads'
    BY <2>2
  <2> QED
    BY <1>6, <2>1, <2>3, <2>4, <2>5, <2>6, <2>7, <2>8, <2>9, SMTT(30)
<1> QED
  BY <1>7, <1>8, SMTT(30)

\* Requests and replies keep the invariant.
LEMMA AnsweringStep ==
  ASSUME ListInv, Answering
  PROVE  ListInv'
BY ServePreserves, ServeFailsPreserves, FetchTrashPreserves, ReturnPreserves, ReadPreserves
DEF Answering

-----------------------------------------------------------------------------
(* The theorems *)

\* Doing nothing keeps the invariant.
LEMMA StutterInv ==
  ASSUME ListInv, UNCHANGED vars
  PROVE  ListInv'
<1>1. Shape'
  BY DEF ListInv, Shape, vars
<1>2. LoadsOK'
  BY LoadsFrame DEF ListInv, vars, nav
<1>3. DialogOK'
  BY DialogFrame, SMTT(30) DEF ListInv, vars, dialog
<1>4. ReadsOK'
  BY DEF ListInv, ReadsOK, ReadIsRecorded, vars
<1> QED
  BY <1>1, <1>2, <1>3, <1>4 DEF ListInv, SelectionIsListed, vars

\* The message list keeps its invariant whatever the user, the replies and the
\* failures do, in any order.
THEOREM ListInvariant == Spec => []ListInv
<1>1. ListInv /\ [Next]_vars => ListInv'
  <2> SUFFICES ASSUME ListInv, [Next]_vars PROVE ListInv'
    OBVIOUS
  <2>1. CASE Loading
    BY <2>1, LoadingStep
  <2>2. CASE Selecting
    BY <2>2, SelectingStep
  <2>3. CASE Starting
    BY <2>3, StartingStep
  <2>4. CASE Answering
    BY <2>4, AnsweringStep
  <2>5. CASE UNCHANGED vars
    BY <2>5, StutterInv
  <2> QED
    BY <2>1, <2>2, <2>3, <2>4, <2>5 DEF Next
<1> QED
  BY <1>1, InitInv, PTL DEF Spec

\* When the spinner is gone from the mail page, the rows are those of the folder
\* highlighted, however many loads overlapped and in whatever order they ended.
THEOREM ListOfFolder == Spec => []ListIsOfFolder
<1>1. ListInv => ListIsOfFolder
  BY DEF ListInv, LoadsOK
<1> QED
  BY <1>1, ListInvariant, PTL

\* The spinner turns exactly while the load started last is in flight.
THEOREM SpinnerTurnsForLoad == Spec => []SpinnerHasLoad
<1>1. ListInv => SpinnerHasLoad
  BY DEF ListInv, LoadsOK
<1> QED
  BY <1>1, ListInvariant, PTL

\* The selection, its anchor and its focus never leave the list, whatever rows
\* loads, moves and deletions take away between two clicks.
THEOREM SelectionListed == Spec => []SelectionIsListed
<1>1. ListInv => SelectionIsListed
  BY SMTT(30) DEF ListInv
<1> QED
  BY <1>1, ListInvariant, PTL

\* A permanent deletion works only on the messages its dialog was opened for,
\* however the selection changes behind the dialog.
THEOREM PurgeIsAsked == Spec => []AskedFirst
<1>1. ListInv => AskedFirst
  BY SMTT(30) DEF ListInv, DialogOK
<1> QED
  BY <1>1, ListInvariant, PTL

\* A row shown as read is read on the server or is being marked, whatever
\* answers arrive late and whichever requests fail.
THEOREM ReadRecordedOrMarking == Spec => []ReadIsRecorded
<1>1. ListInv => ReadIsRecorded
  BY SMTT(30) DEF ListInv, ReadsOK
<1> QED
  BY <1>1, ListInvariant, PTL

\* Every variable of the list keeps its shape, and the counts their bound.
THEOREM ListTypeCorrect == Spec => []TypeOK
<1>1. ListInv => TypeOK
  <2> SUFFICES ASSUME ListInv PROVE TypeOK
    OBVIOUS
  <2>1. gen \in Nat \ {0} /\ faults \in Nat /\ MaxEvents \in Nat /\ gen - 1 + faults <= MaxEvents
    BY BoundsAssumption DEF ListInv, Shape
  <2>2. gen \in 1 .. MaxEvents + 1 /\ faults \in 0 .. MaxEvents
    BY <2>1, SMTT(30), SMT
  <2>3. \A l \in loads : l.gen \in 1 .. gen /\ l.folder \in Folders
    BY DEF ListInv, Shape, LoadsOK, LoadRecords
  <2>4. DOMAIN list \subseteq Messages /\ \A m \in DOMAIN list : list[m] \in BOOLEAN
    BY RowListShape DEF ListInv, Shape
  <2>5. \A s \in Slots : /\ ops[s].kind \in Kinds \cup {"idle"}
                         /\ ops[s].todo \cup ops[s].done \subseteq Messages
    BY DEF ListInv, Shape, OpRecords
  <2>6. modal.ids \subseteq Messages
    BY DEF ListInv, Shape, Modals
  <2> QED
    BY <2>2, <2>3, <2>4, <2>5, <2>6 DEF ListInv, Shape, TypeOK
<1> QED
  BY <1>1, ListInvariant, PTL

-----------------------------------------------------------------------------
(***************************************************************************)
(* The filter passes.  A generation is given to one pass; on the inbox the *)
(* pass that waits under the latest one, behind the timer or for its       *)
(* rules, is over the rows listed.                                         *)
(***************************************************************************)
\* A record with the two fields the argument is about.
IsPass(p) == {"gen", "running"} \subseteq DOMAIN p

OnInbox == view = "mail" /\ folder = "inbox"

PassInv ==
  /\ passGen \in Nat
  /\ \A p \in passes : /\ IsPass(p) /\ p.gen \in 0 .. passGen
                       /\ ~p.running => p.sent = {}
  /\ \A p, q \in passes : p.gen = q.gen => p = q
  /\ timer # NoTimer => timer.gen = passGen /\ \A p \in passes : p.gen # timer.gen
  /\ OnInbox => /\ timer # NoTimer => timer.msgs = DOMAIN list
                /\ \A p \in passes : ~p.running /\ p.gen = passGen => p.queue = DOMAIN list

\* pump takes messages off the queue and sends actions, and leaves the
\* generation of the pass and its state alone.
LEMMA PumpKeeps ==
  ASSUME NEW p, NEW led, IsPass(p)
  PROVE  /\ IsPass(Pump(p, led))
         /\ Pump(p, led).gen = p.gen /\ Pump(p, led).running = p.running
<1>1. \/ Pump(p, led) = p
      \/ \E S, T : Pump(p, led) = [p EXCEPT !.queue = S, !.sent = T]
  BY DEF Pump
<1>2. ASSUME NEW q, NEW S, NEW T, q = [p EXCEPT !.queue = S, !.sent = T]
      PROVE  IsPass(q) /\ q.gen = p.gen /\ q.running = p.running
  BY <1>2, SMT DEF IsPass
<1> QED
  BY <1>1, <1>2

\* An effect that runs on the inbox starts a new generation over the rows it
\* finds; elsewhere it drops the timer.
LEMMA EffectPreserves ==
  ASSUME PassInv, FilterEffect
  PROVE  PassInv'
<1>0. /\ passGen \in Nat /\ passes' = passes
      /\ \A p \in passes : IsPass(p) /\ p.gen \in 0 .. passGen /\ (~p.running => p.sent = {})
      /\ \A p, q \in passes : p.gen = q.gen => p = q
  BY DEF PassInv, FilterEffect
<1>1. CASE OnInbox'
  <2>1. passGen' = passGen + 1 /\ timer' = [gen |-> passGen + 1, msgs |-> DOMAIN list']
    BY <1>1 DEF FilterEffect, OnInbox
  <2>2. timer'.gen = passGen' /\ timer'.msgs = DOMAIN list'
    BY <2>1
  <2>3. passGen' \in Nat
    BY <1>0, <2>1, SMT
  <2>4. ASSUME NEW g \in 0 .. passGen PROVE g \in 0 .. passGen' /\ g # passGen'
    BY <1>0, <2>1, <2>4, SMT
  <2> QED
    BY <1>0, <2>2, <2>3, <2>4 DEF PassInv
<1>2. CASE ~OnInbox'
  <2>1. passGen' = passGen /\ timer' = NoTimer
    BY <1>2 DEF FilterEffect, OnInbox
  <2> QED
    BY <1>0, <1>2, <2>1 DEF PassInv
<1> QED
  BY <1>1, <1>2

\* A step that leaves the passes, the page and the listed messages alone.
LEMMA PassesFrame ==
  ASSUME PassInv, UNCHANGED <<passGen, timer, passes, nav>>, DOMAIN list' = DOMAIN list
  PROVE  PassInv'
BY DEF PassInv, OnInbox, nav

\* Selecting and rendering rows changes flags, not which messages are listed.
LEMMA CommitKeepsRows ==
  ASSUME NEW rows, NEW s, NEW fresh, Commit(rows, s, fresh)
  PROVE  DOMAIN list' = DOMAIN rows
BY DEF Commit

\* What the user and the loads do: the effect runs, or nothing it depends on
\* has changed.
LEMMA BrowsingStep ==
  ASSUME PassInv, Navigate \/ Loads
  PROVE  PassInv' /\ passes' = passes
<1> DEFINE Ran  == FilterEffect
           Idle == UNCHANGED <<passGen, timer, passes, nav>> /\ DOMAIN list' = DOMAIN list
<1>1. Ran \/ Idle
  <2>1. CASE Navigate
    <3>1. CASE UNCHANGED nav
      <4>1. UNCHANGED filterVars
        BY <2>1, <3>1 DEF Navigate
      <4>2. DOMAIN list' = DOMAIN list
        BY <2>1, CommitKeepsRows DEF Navigate, OpenFolder, OpenSettings, Select
      <4> QED
        BY <3>1, <4>1, <4>2 DEF filterVars
    <3>2. CASE ~UNCHANGED nav
      BY <2>1, <3>2 DEF Navigate
    <3> QED
      BY <3>1, <3>2
  <2>2. CASE Refresh /\ UNCHANGED filterVars
    BY <2>2 DEF Refresh, filterVars, nav
  <2>3. ASSUME NEW l \in loads, Applied(l)
        PROVE  Ran \/ Idle
    BY <2>3 DEF Applied, ApplyLoad, filterVars, nav
  <2>4. ASSUME NEW l \in loads, ServeLoad(l) /\ UNCHANGED filterVars
        PROVE  Ran \/ Idle
    BY <2>4 DEF ServeLoad, filterVars, nav
  <2> QED
    BY <2>1, <2>2, <2>3, <2>4 DEF Loads
<1>2. CASE Ran
  BY <1>2, EffectPreserves DEF FilterEffect
<1>3. CASE Idle
  BY <1>3, PassesFrame
<1> QED
  BY <1>1, <1>2, <1>3

\* The timer that fires becomes the only pass of its generation.
LEMMA TimerPreserves ==
  ASSUME PassInv, FireTimer
  PROVE  PassInv' /\ \A q \in passes' : q.running => q \in passes
<1>1. PICK n : n = [gen |-> timer.gen, running |-> FALSE, rules |-> << >>, queue |-> timer.msgs,
                    sent |-> {}, reload |-> FALSE]
  OBVIOUS
<1>2. /\ IsPass(n) /\ n.gen = timer.gen /\ ~n.running /\ n.sent = {} /\ n.queue = timer.msgs
  <2>1. IsPass(n)
    BY <1>1 DEF IsPass
  <2> QED
    BY <1>1, <2>1
<1>3. /\ timer # NoTimer /\ timer' = NoTimer /\ passes' = passes \cup {n}
      /\ passGen' = passGen /\ view' = view /\ folder' = folder /\ list' = list
  BY <1>1 DEF FireTimer, vars
<1>4. timer.gen = passGen /\ passGen \in Nat /\ \A p \in passes : p.gen # timer.gen
  BY <1>3 DEF PassInv
<1>5. n.gen \in 0 .. passGen
  BY <1>2, <1>4, SMT
<1>6. \A p \in passes' : IsPass(p) /\ p.gen \in 0 .. passGen' /\ (~p.running => p.sent = {})
  BY <1>2, <1>3, <1>5 DEF PassInv
<1>7. \A p, q \in passes' : p.gen = q.gen => p = q
  BY <1>2, <1>3, <1>4 DEF PassInv
<1>8. OnInbox' => \A p \in passes' : ~p.running /\ p.gen = passGen' => p.queue = DOMAIN list'
  BY <1>2, <1>3 DEF PassInv, OnInbox
<1>9. \A q \in passes' : q.running => q \in passes
  BY <1>2, <1>3
<1> QED
  BY <1>3, <1>4, <1>6, <1>7, <1>8, <1>9 DEF PassInv

\* What one step of a pass does to the passes: it ends one, or replaces it by
\* one of the same generation that runs; a pass begins to run only under the
\* latest generation.
PassMove ==
  \/ passes' \subseteq passes
  \/ \E p \in passes : \E q :
       /\ passes' \subseteq (passes \ {p}) \cup {q}
       /\ IsPass(q) /\ q.gen = p.gen /\ q.running
       /\ ~p.running => p.gen = passGen

\* A pass that is given other fields, its generation aside.
LEMMA FieldsOfPass ==
  ASSUME NEW p, IsPass(p)
  PROVE  /\ \A S : LET q == [p EXCEPT !.sent = S]
                   IN  IsPass(q) /\ q.gen = p.gen /\ q.running = p.running
         /\ LET q == [p EXCEPT !.reload = TRUE]
            IN  IsPass(q) /\ q.gen = p.gen /\ q.running = p.running
         /\ \A rules : LET q == [p EXCEPT !.running = TRUE, !.rules = rules]
                       IN  IsPass(q) /\ q.gen = p.gen /\ q.running
BY DEF IsPass

\* Pumping a pass and keeping what is left of it is such a move.
LEMMA ContinueMoves ==
  ASSUME NEW p \in passes, NEW q, NEW led, IsPass(q), q.gen = p.gen, q.running,
         ~p.running => p.gen = passGen, Continue(p, Pump(q, led))
  PROVE  PassMove
<1>1. /\ IsPass(Pump(q, led)) /\ Pump(q, led).gen = p.gen /\ Pump(q, led).running
  BY PumpKeeps
<1>2. passes' \subseteq (passes \ {p}) \cup {Pump(q, led)}
  BY DEF Continue
<1> QED
  BY <1>1, <1>2 DEF PassMove

\* Each step of a pass is a move, and leaves the page and the timer alone.
LEMMA PassStep ==
  ASSUME PassInv, NEW p \in passes,
         \/ RulesArrive(p)
         \/ \E r \in p.sent : ApplyAction(p, r) \/ ActionsDone(p, r) \/ ActionFails(p, r)
  PROVE  PassMove /\ UNCHANGED <<view, folder, list, passGen, timer>>
<1>0. IsPass(p) /\ (~p.running => p.sent = {})
  BY DEF PassInv
<1>1. UNCHANGED <<view, folder, list, passGen, timer>>
  BY DEF RulesArrive, ApplyAction, ActionsDone, ActionFails, UnchangedByPass, nav
<1>2. CASE RulesArrive(p)
  <2>1. CASE p.gen # passGen \/ p.queue = {}
    <3>1. passes' = passes \ {p}
      BY <1>2, <2>1 DEF RulesArrive
    <3> QED
      BY <1>1, <3>1 DEF PassMove
  <2>2. CASE ~(p.gen # passGen \/ p.queue = {})
    <3>1. \E rules, led : Continue(p, Pump([p EXCEPT !.running = TRUE, !.rules = rules], led))
      BY <1>2, <2>2 DEF RulesArrive
    <3>2. PICK rules, led : Continue(p, Pump([p EXCEPT !.running = TRUE, !.rules = rules], led))
      BY <3>1
    <3>3. PICK q : q = [p EXCEPT !.running = TRUE, !.rules = rules]
      OBVIOUS
    <3>4. IsPass(q) /\ q.gen = p.gen /\ q.running
      BY <1>0, <3>3, FieldsOfPass
    <3>5. Continue(p, Pump(q, led)) /\ p.gen = passGen
      BY <2>2, <3>2, <3>3
    <3> QED
      BY <1>1, <3>4, <3>5, ContinueMoves
  <2> QED
    BY <2>1, <2>2
<1>3. ASSUME NEW r \in p.sent, ApplyAction(p, r)
      PROVE  PassMove
  <2>1. \E S : passes' = (passes \ {p}) \cup {[p EXCEPT !.sent = S]}
    BY <1>3 DEF ApplyAction
  <2>2. PICK S : passes' = (passes \ {p}) \cup {[p EXCEPT !.sent = S]}
    BY <2>1
  <2>3. PICK q : q = [p EXCEPT !.sent = S]
    OBVIOUS
  <2>4. IsPass(q) /\ q.gen = p.gen /\ q.running = p.running /\ p.running
    BY <1>0, <1>3, <2>3, FieldsOfPass
  <2> QED
    BY <2>2, <2>3, <2>4 DEF PassMove
<1>4. ASSUME NEW r \in p.sent, ActionsDone(p, r) \/ ActionFails(p, r)
      PROVE  PassMove
  <2>1. PICK rest : rest = [p EXCEPT !.sent = @ \ {r}]
    OBVIOUS
  <2>2. PICK more : more = [rest EXCEPT !.reload = TRUE]
    OBVIOUS
  <2>3. IsPass(rest) /\ rest.gen = p.gen /\ rest.running /\ p.running
    BY <1>0, <1>4, <2>1, FieldsOfPass
  <2>4. IsPass(more) /\ more.gen = p.gen /\ more.running
    BY <2>2, <2>3, FieldsOfPass
  <2>5. \E led : Continue(p, Pump(rest, led)) \/ Continue(p, Pump(more, led))
    BY <1>4, <2>1, <2>2 DEF ActionsDone, ActionFails
  <2> QED
    BY <2>3, <2>4, <2>5, ContinueMoves
<1> QED
  BY <1>1, <1>2, <1>3, <1>4

\* What PassIsCurrent says of one step.
CurrentStep ==
  \A p \in passes, q \in passes' :
    /\ p.gen = q.gen /\ ~p.running /\ q.running
    /\ view = "mail" /\ folder = "inbox"
    => p.queue = DOMAIN list

\* A step after which only passes run that were there before it starts none.
LEMMA NoneBegins ==
  ASSUME PassInv, \A q \in passes' : q.running => q \in passes
  PROVE  CurrentStep
BY DEF PassInv, CurrentStep

\* A move keeps the invariant, and the pass it starts is over the rows listed.
LEMMA MovePreserves ==
  ASSUME PassInv, PassMove, UNCHANGED <<view, folder, list, passGen, timer>>
  PROVE  PassInv' /\ CurrentStep
<1>0. /\ view' = view /\ folder' = folder /\ list' = list /\ passGen' = passGen /\ timer' = timer
  OBVIOUS
<1>1. CASE passes' \subseteq passes
  <2>1. PassInv'
    BY <1>0, <1>1 DEF PassInv, OnInbox
  <2> QED
    BY <1>1, <2>1, NoneBegins
<1>2. ASSUME NEW p \in passes, NEW q, passes' \subseteq (passes \ {p}) \cup {q},
             IsPass(q), q.gen = p.gen, q.running, ~p.running => p.gen = passGen
      PROVE  PassInv' /\ CurrentStep
  <2>1. \A a \in passes' : a = q \/ (a \in passes /\ a # p)
    BY <1>2
  <2>2. \A a \in passes' : IsPass(a) /\ a.gen \in 0 .. passGen' /\ (~a.running => a.sent = {})
    BY <1>0, <1>2, <2>1 DEF PassInv
  <2>3. \A a, b \in passes' : a.gen = b.gen => a = b
    BY <1>2, <2>1 DEF PassInv
  <2>4. timer' # NoTimer => timer'.gen = passGen' /\ \A a \in passes' : a.gen # timer'.gen
    BY <1>0, <1>2, <2>1 DEF PassInv
  <2>5. OnInbox' => /\ timer' # NoTimer => timer'.msgs = DOMAIN list'
                    /\ \A a \in passes' : ~a.running /\ a.gen = passGen' => a.queue = DOMAIN list'
    BY <1>0, <1>2, <2>1 DEF PassInv, OnInbox
  <2>6. PassInv'
    BY <1>0, <2>2, <2>3, <2>4, <2>5 DEF PassInv
  <2>7. ASSUME NEW a \in passes, NEW b \in passes', a.gen = b.gen, ~a.running, b.running,
               view = "mail", folder = "inbox"
        PROVE  a.queue = DOMAIN list
    <3>1. a = p
      BY <1>2, <2>1, <2>7 DEF PassInv
    <3> QED
      BY <1>2, <2>7, <3>1 DEF PassInv, OnInbox
  <2> QED
    BY <2>6, <2>7 DEF CurrentStep
<1> QED
  BY <1>1, <1>2 DEF PassMove

\* Every step of the page and of its passes keeps the invariant.
LEMMA FilterStep ==
  ASSUME PassInv, [FilterNext]_allVars
  PROVE  PassInv' /\ CurrentStep
<1>1. CASE Navigate \/ Loads
  BY <1>1, BrowsingStep, NoneBegins
<1>2. CASE ChangeRules \/ UNCHANGED allVars
  <2>1. UNCHANGED <<passGen, timer, passes, nav>> /\ list' = list
    BY <1>2 DEF ChangeRules, allVars, vars, filterVars, nav
  <2> QED
    BY <2>1, PassesFrame, NoneBegins
<1>3. CASE FireTimer
  BY <1>3, TimerPreserves, NoneBegins
<1>4. ASSUME NEW p \in passes,
             \/ RulesArrive(p)
             \/ \E r \in p.sent : ApplyAction(p, r) \/ ActionsDone(p, r) \/ ActionFails(p, r)
      PROVE  PassInv' /\ CurrentStep
  BY <1>4, PassStep, MovePreserves
<1> QED
  BY <1>1, <1>2, <1>3, <1>4 DEF FilterNext

\* A filter pass that begins while the inbox is open evaluates the rows on
\* screen, however the loads, the timer and the replies with the rules
\* interleave: of the passes that wait, the generation lets only the latest in.
THEOREM FilterPassIsCurrent == FilterSpec => PassIsCurrent
<1>1. FilterInit => PassInv
  <2>1. 0 \in Nat
    BY SMT
  <2> QED
    BY <2>1 DEF FilterInit, PassInv
<1>2. PassInv /\ [FilterNext]_allVars => PassInv'
  BY FilterStep
<1>3. PassInv /\ [FilterNext]_allVars => [CurrentStep]_allVars
  BY FilterStep
<1>4. FilterSpec => [][CurrentStep]_allVars
  BY <1>1, <1>2, <1>3, PTL DEF FilterSpec
<1> QED
  BY <1>4 DEF PassIsCurrent, CurrentStep
=============================================================================
