---------------------------- MODULE ComposeProofs ----------------------------
(***************************************************************************)
(* Theorems about Compose, for any finite set of addresses, any directory  *)
(* and address book, and every bound.                                      *)
(***************************************************************************)
EXTENDS Compose, FiniteSetTheorems, TLAPS

\* Most leaves are first-order steps, for Zenon. The leaves with arithmetic or
\* with equal sets and functions name SMT.
USE Zenon

-----------------------------------------------------------------------------
(***************************************************************************)
(* The inductive invariant.  A send carries a snapshot of the panel, and a *)
(* lookup is matched with it by its number, so the invariant says of every *)
(* snapshot what the panel guarantees and of every number that it is not   *)
(* given twice.                                                            *)
(***************************************************************************)
Statuses == {"idle", "checking", "found", "missing", "error", "manual", "needs-single"}

Panels ==
  [key : KeyOrNone, meta : Found \cup {None}, status : Statuses, manual : BOOLEAN,
   manualFor : AddressOrNone, busy : BOOLEAN, seq : Nat, timer : BOOLEAN]

\* The key of the panel is the one it describes.
GoodPanels ==
  {p \in Panels : p.meta # None /\ p.key # None => p.meta.key = p.key}

Lookups ==
  [seq : Nat \ {0}, target : Addresses, by : {"timer", "send"},
   stage : {"contact", "directory"}, preserve : BOOLEAN]

Sends ==
  [draft : Nat, mode : {"pgp", "link"}, to : AddressOrNone, save : BOOLEAN, key : KeyOrNone,
   meta : Found \cup {None}, seq : Nat, manual : BOOLEAN, pw : Passwords \cup {None},
   done : BOOLEAN, stage : {"lookup", "post", "book", "link"}, local : BOOLEAN,
   asked : BOOLEAN]

\* A send that has its route has a key, described by what was found for its
\* recipient if the panel was settled or the recipient is on this server.
Routed(s) ==
  /\ s.key \in Keys
  /\ s.meta # None => s.meta.email = s.to
  /\ ~s.asked \/ s.local => s.meta # None /\ s.meta.key = s.key

GoodSends ==
  {s \in Sends :
     /\ s.stage = "link" <=> s.mode = "link"
     /\ s.mode = "pgp" => s.to \in Addresses
     /\ s.manual => s.key # None
     /\ s.stage = "lookup" => s.asked
     /\ s.stage \in {"post", "book"} => Routed(s)
     /\ s.stage = "book" => s.meta # None}

WindowOK ==
  /\ open \in BOOLEAN /\ mode \in {"pgp", "link"} /\ typed \in BOOLEAN /\ draft \in Nat
  /\ to \subseteq Addresses /\ given \subseteq Addresses
  /\ upload = None \/ upload \in [email : AddressOrNone]
  /\ pwd \in Passwords \cup {None} /\ pwdConfirm \in Passwords \cup {None}
  /\ busy \in BOOLEAN /\ err \in BOOLEAN

PanelOK == panel \in GoodPanels

\* A lookup belongs to the send with its number, and numbers only go up.
LookupsOK ==
  /\ lookups \subseteq Lookups
  /\ \A l \in lookups : l.seq <= panel.seq
  /\ \A s \in sends : s.stage = "lookup" => s.seq <= panel.seq
  /\ \A s \in sends, l \in lookups :
       s.stage = "lookup" /\ l.by = "send" /\ l.seq = s.seq => l.target = s.to

\* One send at most is under way.
SendsOK ==
  /\ sends \subseteq GoodSends
  /\ \A s, r \in sends : s = r
  /\ busy <=> sends # {}

SentOK ==
  /\ \A m \in sent : m.to \in Addresses /\ m.key \in Keys
  /\ SettledKeyIsUsed
  /\ \A s \in sends : s.stage = "book" => Posted(s) \in sent

BookOK == book \in [Addresses -> Entries \cup {None}] /\ BookIsSent

ComposeInv ==
  WindowOK /\ PanelOK /\ LookupsOK /\ SpinnerHasLookup /\ SendsOK /\ SentOK /\ BookOK

-----------------------------------------------------------------------------
(* Operators *)

\* The one recipient of a field is an address, and there is one exactly when
\* the field holds one address.
LEMMA SingleGood ==
  ASSUME NEW field \in SUBSET Addresses
  PROVE  /\ singleComposeRecipient(field) \in AddressOrNone
         /\ singleComposeRecipient(field) # None <=> Cardinality(field) = 1
         /\ Cardinality(toRecipientsForPGP(field)) = Cardinality(field)
         /\ Cardinality(field) \in Nat
<1>1. IsFiniteSet(field)
  BY ComposeAssumption, FS_Subset
<1>2. Cardinality(field) \in Nat /\ (Cardinality(field) = 1 => field # {})
  BY <1>1, FS_CardinalityType, FS_EmptySet, SMT
<1>3. Cardinality(field) = 1 => (CHOOSE a \in field : TRUE) \in field
  BY <1>2
<1> QED
  BY <1>2, <1>3, NoneAssumption DEF singleComposeRecipient, toRecipientsForPGP, AddressOrNone

\* A panel's timer runs only for one recipient of a PGP message.
TimerFits(p, field, md) == p.timer => md = "pgp" /\ singleComposeRecipient(field) # None

\* What the effect that watches the fields may do to the panel: the numbers do
\* not go down, and a spinner goes on only for the lookup it was for.
PanelMoves(p, q, field, md) ==
  /\ q \in GoodPanels /\ q.seq >= p.seq
  /\ q.busy => p.busy /\ q.seq = p.seq
  /\ TimerFits(q, field, md)

\* The effect keeps the key and its description together, takes both away when
\* there is not one recipient, and starts the timer when there is.
LEMMA WatchGood ==
  ASSUME NEW p \in GoodPanels, NEW field \in SUBSET Addresses, NEW md \in {"pgp", "link"}
  PROVE  PanelMoves(p, Watch(p, field, md), field, md)
<1> DEFINE n == Cardinality(field)
           off == [p EXCEPT !.seq = p.seq + 1, !.busy = FALSE, !.timer = FALSE]
           blank(s) == IF p.manual THEN [off EXCEPT !.status = s]
                       ELSE [off EXCEPT !.status = s, !.key = None, !.meta = None]
<1>1. n \in Nat /\ n = Cardinality(toRecipientsForPGP(field))
  BY SingleGood
<1>2. p \in Panels /\ p.seq \in Nat /\ p.seq + 1 \in Nat /\ p.seq + 1 >= p.seq
  BY SMT DEF GoodPanels, Panels
<1>3. off \in GoodPanels /\ off.seq = p.seq + 1 /\ ~off.busy /\ ~off.timer
  BY <1>2 DEF GoodPanels, Panels
<1>4. ASSUME NEW s \in {"idle", "needs-single"}
      PROVE  blank(s) \in GoodPanels /\ blank(s).seq = p.seq + 1 /\ ~blank(s).busy /\ ~blank(s).timer
  <2>1. s \in Statuses
    BY DEF Statuses
  <2> HIDE DEF off
  <2> QED
    BY <1>3, <2>1 DEF GoodPanels, Panels, KeyOrNone
<1>5. CASE md # "pgp"
  <2>1. Watch(p, field, md) = off
    BY <1>5 DEF Watch
  <2> HIDE DEF off
  <2> QED
    BY <1>2, <1>3, <2>1 DEF PanelMoves, TimerFits
<1>6. CASE md = "pgp" /\ n = 0
  <2>1. Watch(p, field, md) = blank("idle")
    BY <1>1, <1>6, SMT DEF Watch
  <2> HIDE DEF blank
  <2> QED
    BY <1>2, <1>4, <2>1 DEF PanelMoves, TimerFits
<1>7. CASE md = "pgp" /\ n > 1
  <2>1. Watch(p, field, md) = blank("needs-single")
    BY <1>1, <1>7, SMT DEF Watch
  <2> HIDE DEF blank
  <2> QED
    BY <1>2, <1>4, <2>1 DEF PanelMoves, TimerFits
<1>8. CASE md = "pgp" /\ n = 1
  <2>1. Watch(p, field, md) = [p EXCEPT !.timer = TRUE]
    BY <1>1, <1>8, SMT DEF Watch
  <2>2. singleComposeRecipient(field) # None
    BY <1>8, SingleGood
  <2> DEFINE q == [p EXCEPT !.timer = TRUE]
  <2>3. q \in GoodPanels /\ q.seq = p.seq /\ q.busy = p.busy
    BY <1>2 DEF GoodPanels, Panels
  <2>4. q.seq >= p.seq
    BY <1>2, <2>3, SMT
  <2> HIDE DEF q
  <2> QED
    BY <1>8, <2>1, <2>2, <2>3, <2>4 DEF PanelMoves, TimerFits, q
<1> QED
  BY <1>1, <1>5, <1>6, <1>7, <1>8, SMT

\* ... and so does the same effect when it runs again.
LEMMA RewatchGood ==
  ASSUME NEW p, p \in GoodPanels, NEW field, field \in SUBSET Addresses,
         NEW md, md \in {"pgp", "link"}, TimerFits(p, field, md)
  PROVE  PanelMoves(p, Rewatch(p, field, md), field, md)
<1>1. p.seq \in Nat
  BY DEF GoodPanels, Panels
<1>2. PanelMoves(p, p, field, md)
  BY <1>1, SMT DEF PanelMoves
<1> QED
  BY <1>2, WatchGood DEF Rewatch

\* A lookup that starts takes the next number and turns the spinner.
LEMMA DetectingGood ==
  ASSUME NEW p \in GoodPanels, NEW b \in BOOLEAN
  PROVE  LET q == [Detecting(p) EXCEPT !.timer = b]
         IN  /\ Detecting(p) \in GoodPanels /\ Detecting(p).seq = p.seq + 1
             /\ Detecting(p).timer = FALSE
             /\ q \in GoodPanels /\ q.seq = p.seq + 1 /\ q.timer = b
<1>1. p \in Panels /\ p.seq + 1 \in Nat
  BY SMT DEF GoodPanels, Panels
<1>2. /\ Detecting(p) \in GoodPanels /\ Detecting(p).seq = p.seq + 1
      /\ Detecting(p).timer = FALSE
  BY <1>1 DEF Detecting, GoodPanels, Panels, Statuses
<1> QED
  BY <1>2 DEF GoodPanels, Panels

\* A new lookup has the shape of one.
LEMMA LookupGood ==
  ASSUME NEW p \in GoodPanels, NEW a \in Addresses, NEW by \in {"timer", "send"}
  PROVE  /\ Lookup(p, a, by) \in Lookups /\ Lookup(p, a, by).seq = p.seq + 1
         /\ Lookup(p, a, by).target = a /\ Lookup(p, a, by).by = by
<1>1. p.seq + 1 \in Nat \ {0} /\ p.manual \in BOOLEAN
  BY SMT DEF GoodPanels, Panels
<1>2. (p.manual /\ p.manualFor = a /\ p.key # None) \in BOOLEAN
  OBVIOUS
<1> QED
  BY <1>1, <1>2 DEF Lookup, Lookups

\* Each answer to a lookup sets key and description together, or takes the
\* description away, and stops the spinner.
LEMMA AnswersGood ==
  ASSUME NEW p \in GoodPanels, NEW l \in Lookups
  PROVE  /\ \A h \in Entries :
              LET q == KeyFound(p, l, h)
              IN  q \in GoodPanels /\ q.seq = p.seq /\ ~q.busy /\ q.timer = p.timer
         /\ LET q == KeyMissing(p, l)
            IN  q \in GoodPanels /\ q.seq = p.seq /\ ~q.busy /\ q.timer = p.timer
         /\ LET q == KeyError(p, l)
            IN  q \in GoodPanels /\ q.seq = p.seq /\ ~q.busy /\ q.timer = p.timer
<1>1. p \in Panels /\ (p.meta # None /\ p.key # None => p.meta.key = p.key)
  BY DEF GoodPanels
<1>2. ASSUME NEW st \in Statuses
      PROVE  LET q == [p EXCEPT !.status = st, !.busy = FALSE]
             IN  /\ q \in Panels /\ q.key = p.key /\ q.meta = p.meta /\ q.seq = p.seq /\ ~q.busy
                 /\ q.timer = p.timer
  BY <1>1 DEF Panels
<1>3. {"found", "missing", "error"} \subseteq Statuses
  BY DEF Statuses
<1>4. ASSUME NEW h \in Entries
      PROVE  LET q == KeyFound(p, l, h)
             IN  q \in GoodPanels /\ q.seq = p.seq /\ ~q.busy /\ q.timer = p.timer
  <2> DEFINE seen == [p EXCEPT !.status = "found", !.busy = FALSE]
             meta == [email |-> l.target, key |-> h.key, source |-> h.source]
             set == [seen EXCEPT !.key = h.key, !.manual = FALSE, !.manualFor = None, !.meta = meta]
  <2>1. /\ seen \in Panels /\ seen.key = p.key /\ seen.meta = p.meta /\ seen.seq = p.seq
        /\ ~seen.busy /\ seen.timer = p.timer
    BY <1>2, <1>3
  <2>2. meta \in Found /\ h.key \in Keys /\ meta.key = h.key
    BY DEF Found, Entries, Lookups, AddressOrNone
  <2> HIDE DEF seen, meta
  <2>3. set \in Panels /\ set.key = h.key /\ set.meta = meta /\ set.seq = p.seq /\ ~set.busy
        /\ set.timer = p.timer
    BY <2>1, <2>2 DEF Panels, KeyOrNone, AddressOrNone
  <2>4. KeyFound(p, l, h) = IF l.preserve THEN seen ELSE set
    BY DEF KeyFound, seen, meta
  <2> HIDE DEF set
  <2> QED
    BY <1>1, <2>1, <2>2, <2>3, <2>4 DEF GoodPanels
<1>5. LET q == KeyMissing(p, l)
      IN  q \in GoodPanels /\ q.seq = p.seq /\ ~q.busy /\ q.timer = p.timer
  <2> DEFINE seen == [p EXCEPT !.status = "missing", !.busy = FALSE]
             set == [seen EXCEPT !.key = None, !.meta = None]
  <2>1. /\ seen \in Panels /\ seen.key = p.key /\ seen.meta = p.meta /\ seen.seq = p.seq
        /\ ~seen.busy /\ seen.timer = p.timer
    BY <1>2, <1>3
  <2> HIDE DEF seen
  <2>2. set \in Panels /\ set.meta = None /\ set.seq = p.seq /\ ~set.busy /\ set.timer = p.timer
    BY <2>1 DEF Panels, KeyOrNone
  <2>3. KeyMissing(p, l) = IF l.preserve THEN seen ELSE set
    BY DEF KeyMissing, seen
  <2> HIDE DEF set
  <2> QED
    BY <1>1, <2>1, <2>2, <2>3 DEF GoodPanels
<1>6. LET q == KeyError(p, l)
      IN  q \in GoodPanels /\ q.seq = p.seq /\ ~q.busy /\ q.timer = p.timer
  <2> DEFINE seen == [p EXCEPT !.status = "error", !.busy = FALSE]
             set == [seen EXCEPT !.meta = None]
  <2>1. /\ seen \in Panels /\ seen.key = p.key /\ seen.meta = p.meta /\ seen.seq = p.seq
        /\ ~seen.busy /\ seen.timer = p.timer
    BY <1>2, <1>3
  <2> HIDE DEF seen
  <2>2. set \in Panels /\ set.meta = None /\ set.seq = p.seq /\ ~set.busy /\ set.timer = p.timer
    BY <2>1 DEF Panels
  <2>3. KeyError(p, l) = IF l.preserve THEN seen ELSE set
    BY DEF KeyError, seen
  <2> HIDE DEF set
  <2> QED
    BY <1>1, <2>1, <2>2, <2>3 DEF GoodPanels
<1> QED
  BY <1>4, <1>5, <1>6

\* A key pasted or read from a file comes with its description.
LEMMA ManualGood ==
  ASSUME NEW p \in GoodPanels, NEW k \in Keys, NEW a \in AddressOrNone
  PROVE  LET q == [p EXCEPT !.key = k, !.manual = TRUE, !.manualFor = a,
                     !.meta = [email |-> a, key |-> k, source |-> "manual"],
                     !.status = "manual"]
         IN  q \in GoodPanels /\ q.seq = p.seq /\ q.busy = p.busy /\ q.timer = p.timer
<1>1. p \in Panels
  BY DEF GoodPanels
<1>2. [email |-> a, key |-> k, source |-> "manual"] \in Found
  BY DEF Found
<1> QED
  BY <1>1, <1>2 DEF GoodPanels, Panels, KeyOrNone, Statuses

\* The route of a send: its key is the recipient's own whenever the panel was
\* settled or the recipient is on this server.
LEMMA RouteGood ==
  ASSUME NEW s \in Sends, s.mode = "pgp", s.to \in Addresses, s.manual => s.key # None,
         NEW found \in Found \cup {None}, ~s.manual /\ found # None => found.email = s.to,
         s.key # None \/ found # None,
         ~s.asked /\ ~s.manual => found # None /\ (s.key # None => found.key = s.key)
  PROVE  Route(s, found) \in GoodSends /\ Route(s, found).stage = "post"
<1> DEFINE local == /\ ~s.manual /\ found # None
                    /\ found.source = "local" /\ found.email = s.to
           key == IF ~s.manual /\ (local \/ s.key = None) THEN found.key ELSE s.key
           meta == IF s.manual THEN [email |-> s.to, key |-> key, source |-> "manual"] ELSE found
           r == [s EXCEPT !.key = key, !.local = local, !.stage = "post", !.meta = meta]
<1>1. local \in BOOLEAN /\ (local => ~s.manual /\ found # None)
  OBVIOUS
<1>2. key \in Keys
  BY NoneAssumption DEF Sends, KeyOrNone, Found
<1>3. meta \in Found \cup {None} /\ (meta # None => meta.email = s.to)
  BY <1>2 DEF Found, AddressOrNone
<1>4. s.manual => meta # None /\ meta.key = key
  BY <1>2, <1>3, NoneAssumption, SMT DEF Found, AddressOrNone
<1>5. ~s.manual /\ (~s.asked \/ local) => meta # None /\ meta.key = key
  BY <1>1
<1> HIDE DEF local, key, meta
<1>6. /\ r \in Sends /\ r.key = key /\ r.local = local /\ r.stage = "post" /\ r.meta = meta
      /\ r.to = s.to /\ r.mode = s.mode /\ r.manual = s.manual /\ r.asked = s.asked
  BY <1>1, <1>2, <1>3, ZenonT(30) DEF Sends, KeyOrNone
<1>7. Route(s, found) = r
  BY DEF Route, local, key, meta
<1> HIDE DEF r
<1>8. r \in GoodSends
  BY <1>2, <1>3, <1>4, <1>5, <1>6, NoneAssumption DEF GoodSends, Routed
<1> QED
  BY <1>6, <1>7, <1>8

\* The press takes down what the window and the panel show.
LEMMA PressGood ==
  ASSUME ComposeInv, NEW save \in BOOLEAN
  PROVE  LET s == Press(save)
         IN  /\ s \in Sends /\ s.mode = mode /\ s.to = singleComposeRecipient(to)
             /\ s.manual => s.key # None
             /\ s.key = panel.key /\ s.meta = panel.meta /\ s.seq = panel.seq + 1
             /\ s.stage = "lookup" /\ s.asked = FALSE
             /\ s.meta # None /\ s.key # None => s.meta.key = s.key
<1> DEFINE target == singleComposeRecipient(to)
           manual == panel.manual /\ panel.manualFor = target /\ panel.key # None
<1>1. target \in AddressOrNone
  BY SingleGood DEF ComposeInv, WindowOK
<1>2. /\ panel \in Panels /\ panel.seq + 1 \in Nat /\ panel.key \in KeyOrNone
      /\ panel.meta \in Found \cup {None}
      /\ panel.meta # None /\ panel.key # None => panel.meta.key = panel.key
  BY SMT DEF ComposeInv, PanelOK, GoodPanels, Panels
<1>3. manual \in BOOLEAN /\ (manual => panel.key # None) /\ (link # None) \in BOOLEAN
  BY <1>2 DEF Panels
<1>4. draft \in Nat /\ mode \in {"pgp", "link"} /\ pwd \in Passwords \cup {None}
  BY DEF ComposeInv, WindowOK
<1> HIDE DEF target, manual
<1>5. Press(save) =
        [draft |-> draft, mode |-> mode, to |-> target, save |-> save,
         key |-> panel.key, meta |-> panel.meta, seq |-> panel.seq + 1,
         manual |-> manual, pw |-> pwd, done |-> link # None, stage |-> "lookup",
         local |-> FALSE, asked |-> FALSE]
  BY DEF Press, target, manual
<1>6. Press(save) \in Sends
  BY <1>1, <1>2, <1>3, <1>4, <1>5, SMT DEF Sends
<1> QED
  BY <1>2, <1>3, <1>5, <1>6, SMT DEF target

-----------------------------------------------------------------------------
(* What a step leaves alone *)

\* Lookups that are left keep their invariant when no send starts one.
LEMMA FewerLookups ==
  ASSUME ComposeInv, lookups' \subseteq lookups, panel' \in GoodPanels, panel'.seq >= panel.seq,
         \A s \in sends' : s.stage = "lookup" => s \in sends
  PROVE  LookupsOK'
<1>1. panel.seq \in Nat /\ panel'.seq \in Nat
  BY DEF ComposeInv, PanelOK, GoodPanels, Panels
<1>2. \A l \in lookups' : l.seq <= panel'.seq
  BY <1>1, SMT DEF ComposeInv, LookupsOK, Lookups
<1>3. \A s \in sends' : s.stage = "lookup" => s.seq <= panel'.seq
  BY <1>1, SMT DEF ComposeInv, LookupsOK, SendsOK, GoodSends, Sends
<1> QED
  BY <1>2, <1>3 DEF ComposeInv, LookupsOK

\* The panel moves on while lookups stay and no send starts one: no number is
\* reused, and the spinner has its lookup still.
LEMMA PanelFrame ==
  ASSUME ComposeInv, PanelMoves(panel, panel', to', mode'), UNCHANGED lookups,
         \A s \in sends' : s.stage = "lookup" => s \in sends
  PROVE  PanelOK' /\ LookupsOK' /\ SpinnerHasLookup'
<1>1. panel' \in GoodPanels /\ panel'.seq >= panel.seq
  BY DEF PanelMoves
<1>2. LookupsOK'
  BY <1>1, FewerLookups
<1>3. SpinnerHasLookup'
  BY DEF ComposeInv, SpinnerHasLookup, current, PanelMoves, TimerFits
<1> QED
  BY <1>1, <1>2, <1>3 DEF PanelOK

\* A panel that stays as it is moves in this sense.
LEMMA SamePanelMoves ==
  ASSUME ComposeInv, UNCHANGED <<panel, to, mode>>
  PROVE  PanelMoves(panel, panel', to', mode')
<1>1. panel.seq \in Nat
  BY DEF ComposeInv, PanelOK, GoodPanels, Panels
<1> QED
  BY <1>1, SMT DEF ComposeInv, PanelOK, SpinnerHasLookup, PanelMoves, TimerFits

\* Steps that neither send nor save anything.
LEMMA SendsFrame ==
  ASSUME ComposeInv, UNCHANGED <<sends, busy, server>>
  PROVE  SendsOK' /\ SentOK' /\ BookOK'
BY DEF ComposeInv, SendsOK, SentOK, BookOK, SettledKeyIsUsed, BookIsSent, server

\* Closing clears the window and makes a lookup that still runs out of date.
LEMMA ClosedStep ==
  ASSUME ComposeInv, Closed, UNCHANGED upload, busy' \in BOOLEAN
  PROVE  WindowOK' /\ PanelMoves(panel, panel', to', mode')
<1> DEFINE p == [NoKey EXCEPT !.seq = panel.seq]
<1>1. panel.seq \in Nat
  BY DEF ComposeInv, PanelOK, GoodPanels, Panels
<1>2. p \in GoodPanels /\ p.seq = panel.seq /\ p.busy = FALSE
  BY <1>1 DEF NoKey, GoodPanels, Panels, KeyOrNone, AddressOrNone, Statuses
<1>3. panel' = Watch(p, {}, "pgp") /\ to' = {} /\ mode' = "pgp"
  BY DEF Closed
<1> HIDE DEF p
<1>4. PanelMoves(p, panel', to', mode')
  BY <1>2, <1>3, WatchGood
<1>5. PanelMoves(panel, panel', to', mode')
  BY <1>2, <1>4 DEF PanelMoves
<1>6. WindowOK'
  BY DEF ComposeInv, WindowOK, Closed
<1> QED
  BY <1>5, <1>6

\* The send under way is over, one way or another.
LEMMA SendOver ==
  ASSUME ComposeInv, NEW s \in sends, sends' = sends \ {s}, busy' = FALSE
  PROVE  SendsOK' /\ sends' = {} /\ (UNCHANGED sent => SentOK')
<1>1. sends' = {}
  BY DEF ComposeInv, SendsOK
<1> QED
  BY <1>1 DEF ComposeInv, SendsOK, SentOK, SettledKeyIsUsed

\* A lookup that starts has a number no other lookup has, and the spinner
\* turns for it.
LEMMA NewLookup ==
  ASSUME ComposeInv, NEW a \in Addresses, NEW by \in {"timer", "send"},
         lookups' = lookups \cup {Lookup(panel, a, by)},
         panel' \in GoodPanels, panel'.seq = panel.seq + 1, panel'.timer => panel.timer,
         UNCHANGED <<to, mode>>
  PROVE  /\ PanelOK' /\ SpinnerHasLookup' /\ lookups' \subseteq Lookups
         /\ \A l \in lookups' : l.seq <= panel'.seq
<1>1. panel \in GoodPanels /\ panel.seq \in Nat /\ panel'.seq \in Nat
  BY DEF ComposeInv, PanelOK, GoodPanels, Panels
<1>2. /\ Lookup(panel, a, by) \in Lookups /\ Lookup(panel, a, by).seq = panel'.seq
  BY <1>1, LookupGood, ZenonT(30)
<1>3. \A l \in lookups : l \in Lookups /\ l.seq <= panel'.seq
  BY <1>1, SMT DEF ComposeInv, LookupsOK, Lookups
<1>4. SpinnerHasLookup'
  BY <1>2 DEF ComposeInv, SpinnerHasLookup, current
<1> QED
  BY <1>1, <1>2, <1>3, <1>4, SMT DEF PanelOK

\* An answer that is out of date changes nothing, and the current one stops the
\* spinner it was for.
LEMMA AnsweredStep ==
  ASSUME ComposeInv, NEW l \in lookups, NEW p,
         current(l) => p \in GoodPanels /\ p.seq = panel.seq /\ ~p.busy /\ p.timer = panel.timer,
         panel' = Answered(l, p), lookups' = lookups \ {l}, UNCHANGED <<to, mode>>
  PROVE  PanelOK' /\ SpinnerHasLookup' /\ panel'.seq >= panel.seq
<1>1. to \in SUBSET Addresses /\ mode \in {"pgp", "link"} /\ panel \in GoodPanels
  BY DEF ComposeInv, WindowOK, PanelOK
<1>2. panel.seq \in Nat
  BY <1>1 DEF GoodPanels, Panels
<1>3. CASE current(l)
  <2>1. TimerFits(p, to, mode)
    BY <1>3 DEF ComposeInv, SpinnerHasLookup, TimerFits
  <2>2. PanelMoves(p, Rewatch(p, to, mode), to, mode)
    BY <1>1, <1>3, <2>1, RewatchGood
  <2>3. panel' = Rewatch(p, to, mode)
    BY <1>3 DEF Answered
  <2> QED
    BY <1>3, <2>2, <2>3 DEF PanelMoves, TimerFits, PanelOK, SpinnerHasLookup
<1>4. CASE ~current(l)
  <2>1. panel' = panel
    BY <1>4 DEF Answered
  <2> QED
    BY <1>1, <1>2, <1>4, <2>1, SMT DEF ComposeInv, SpinnerHasLookup, current, PanelOK
<1> QED
  BY <1>3, <1>4

\* What a lookup finds is an entry, or nothing.
LEMMA HitGood ==
  ASSUME ComposeInv, NEW l \in lookups
  PROVE  Hit(l) \in Entries \cup {None} /\ l \in Lookups /\ l.target \in Addresses
<1>1. l \in Lookups /\ l.target \in Addresses
  BY DEF ComposeInv, LookupsOK, Lookups
<1> QED
  BY <1>1, DirectoryAssumption DEF ComposeInv, BookOK, Hit

-----------------------------------------------------------------------------
(* The steps *)

\* The composer starts closed, with nothing under way.
LEMMA InitInv == Init => ComposeInv
<1> SUFFICES ASSUME Init PROVE ComposeInv
  OBVIOUS
<1>1. WindowOK
  BY DEF Init, WindowOK
<1>2. PanelOK
  BY DEF Init, PanelOK, NoKey, GoodPanels, Panels, KeyOrNone, AddressOrNone, Statuses
<1>3. LookupsOK /\ SpinnerHasLookup
  BY DEF Init, LookupsOK, SpinnerHasLookup, NoKey
<1>4. SendsOK /\ SentOK
  BY DEF Init, SendsOK, SentOK, SettledKeyIsUsed
<1>5. BookOK
  BY DirectoryAssumption DEF Init, BookOK, BookIsSent
<1> QED
  BY <1>1, <1>2, <1>3, <1>4, <1>5 DEF ComposeInv

\* Opening the window, typing in it and switching its mode.
LEMMA TypingKeeps ==
  ASSUME ComposeInv,
         \/ \E f \in Fields : OpenCompose(f) \/ TypeTo(f)
         \/ DefaultFromChanges \/ TypeBody
         \/ \E md \in {"pgp", "link"} : SetMode(md)
         \/ \E p, q \in Passwords : TypePassword(p, q)
  PROVE  ComposeInv'
<1>1. panel \in GoodPanels /\ to \in SUBSET Addresses /\ given \in SUBSET Addresses
      /\ mode \in {"pgp", "link"}
  BY DEF ComposeInv, PanelOK, WindowOK
<1>2. \A f \in Fields : f \in SUBSET Addresses
  BY DEF Fields
<1>3. WindowOK'
  <2>1. draft + 1 \in Nat
    BY SMT DEF ComposeInv, WindowOK
  <2>2. ASSUME NEW f \in SUBSET Addresses, OpenCompose(f) \/ TypeTo(f) PROVE WindowOK'
    BY <2>1, <2>2 DEF ComposeInv, WindowOK, OpenCompose, TypeTo, options, sending
  <2>3. CASE DefaultFromChanges \/ TypeBody
    BY <2>3 DEF ComposeInv, WindowOK, DefaultFromChanges, TypeBody, options, sending
  <2>4. ASSUME NEW md \in {"pgp", "link"}, SetMode(md) PROVE WindowOK'
    BY <2>4 DEF ComposeInv, WindowOK, SetMode, options, sending
  <2>5. ASSUME NEW p \in Passwords, NEW q \in Passwords, TypePassword(p, q) PROVE WindowOK'
    BY <2>5 DEF ComposeInv, WindowOK, TypePassword, window, sending
  <2> QED
    BY <1>2, <2>2, <2>3, <2>4, <2>5
<1>4. PanelMoves(panel, panel', to', mode')
  <2>1. ASSUME UNCHANGED <<panel, to, mode>> PROVE PanelMoves(panel, panel', to', mode')
    BY <2>1, SamePanelMoves
  <2>2. ASSUME NEW f \in SUBSET Addresses, panel' = Watch(panel, f, mode), to' = f, mode' = mode
        PROVE  PanelMoves(panel, panel', to', mode')
    BY <1>1, <2>2, WatchGood
  <2>3. CASE \E f \in Fields : OpenCompose(f) \/ TypeTo(f)
    BY <1>2, <2>2, <2>3 DEF OpenCompose, TypeTo
  <2>4. CASE DefaultFromChanges
    BY <1>1, <2>1, <2>2, <2>4 DEF DefaultFromChanges
  <2>5. CASE TypeBody \/ \E p, q \in Passwords : TypePassword(p, q)
    BY <2>1, <2>5 DEF TypeBody, TypePassword, window
  <2>6. CASE \E md \in {"pgp", "link"} : SetMode(md)
    BY <1>1, <2>6, WatchGood, SMTT(30) DEF SetMode
  <2> QED
    BY <2>3, <2>4, <2>5, <2>6
<1>5. UNCHANGED <<lookups, sends, busy, server>>
  BY DEF OpenCompose, TypeTo, DefaultFromChanges, TypeBody, SetMode, TypePassword, sending
<1> QED
  BY <1>3, <1>4, <1>5, PanelFrame, SendsFrame DEF ComposeInv

\* Closing the window, whatever is under way.
LEMMA CloseKeeps ==
  ASSUME ComposeInv, CloseCompose
  PROVE  ComposeInv'
<1>1. UNCHANGED <<lookups, sends, busy, upload, server>> /\ Closed
  BY DEF CloseCompose
<1>2. busy' \in BOOLEAN
  BY <1>1 DEF ComposeInv, WindowOK
<1> QED
  BY <1>1, <1>2, ClosedStep, PanelFrame, SendsFrame DEF ComposeInv

\* Keys pasted, taken back, or read from a file.
LEMMA ManualKeeps ==
  ASSUME ComposeInv,
         \/ \E k \in {PastedKey, None} : handleManualKeyChange(k)
         \/ handleManualKeyUpload \/ UploadRead \/ UploadRefused
  PROVE  ComposeInv'
<1> DEFINE target == singleComposeRecipient(to)
<1>1. /\ panel \in GoodPanels /\ to \in SUBSET Addresses /\ mode \in {"pgp", "link"}
      /\ target \in AddressOrNone /\ TimerFits(panel, to, mode)
      /\ upload # None => upload.email \in AddressOrNone
  BY SingleGood DEF ComposeInv, PanelOK, WindowOK, SpinnerHasLookup, TimerFits
<1> HIDE DEF target
<1>2. ASSUME NEW p, p \in GoodPanels, p.seq = panel.seq, p.busy = panel.busy,
             p.timer = panel.timer, panel' = Rewatch(p, to, mode), UNCHANGED <<to, mode>>
      PROVE  PanelMoves(panel, panel', to', mode')
  <2>1. TimerFits(p, to, mode)
    BY <1>1, <1>2 DEF TimerFits
  <2>2. PanelMoves(p, panel', to, mode)
    BY <1>1, <1>2, <2>1, RewatchGood
  <2> QED
    BY <1>2, <2>2 DEF PanelMoves
<1>3. WindowOK'
  BY <1>1, SMT DEF ComposeInv, WindowOK, handleManualKeyChange, handleManualKeyUpload, UploadRead,
              UploadRefused, window, options, sending, target
<1>4. PanelMoves(panel, panel', to', mode')
  <2>1. CASE handleManualKeyUpload \/ UploadRefused
    BY <2>1, SamePanelMoves DEF handleManualKeyUpload, UploadRefused, window
  <2>2. ASSUME NEW k \in Keys, handleManualKeyChange(k)
        PROVE  PanelMoves(panel, panel', to', mode')
    <3> DEFINE q == [panel EXCEPT !.key = k, !.manual = TRUE, !.manualFor = target,
                       !.meta = [email |-> target, key |-> k, source |-> "manual"],
                       !.status = "manual"]
    <3>1. q \in GoodPanels /\ q.seq = panel.seq /\ q.busy = panel.busy /\ q.timer = panel.timer
      BY <1>1, ManualGood, ZenonT(30)
    <3>2. panel' = Rewatch(q, to, mode) /\ UNCHANGED <<to, mode>>
      BY <2>2, NoneAssumption DEF handleManualKeyChange, window, target
    <3> HIDE DEF q
    <3> QED
      BY <1>2, <3>1, <3>2, SMTT(30)
  <2>3. CASE handleManualKeyChange(None)
    <3> DEFINE q == [panel EXCEPT !.key = None, !.manual = FALSE, !.manualFor = None,
                       !.meta = None, !.status = "idle"]
    <3>1. q \in GoodPanels /\ q.seq = panel.seq /\ q.busy = panel.busy /\ q.timer = panel.timer
      BY <1>1 DEF GoodPanels, Panels, KeyOrNone, AddressOrNone, Statuses
    <3>2. panel' = Rewatch(q, to, mode) /\ UNCHANGED <<to, mode>>
      BY <2>3 DEF handleManualKeyChange, window
    <3> HIDE DEF q
    <3> QED
      BY <1>2, <3>1, <3>2
  <2>4. CASE UploadRead
    <3> DEFINE q == [panel EXCEPT !.key = PastedKey, !.manual = TRUE, !.manualFor = upload.email,
                       !.meta = [email |-> upload.email, key |-> PastedKey, source |-> "manual"],
                       !.status = "manual"]
    <3>1. q \in GoodPanels /\ q.seq = panel.seq /\ q.busy = panel.busy /\ q.timer = panel.timer
      BY <1>1, <2>4, ComposeAssumption, ManualGood DEF UploadRead
    <3>2. panel' = Rewatch(q, to, mode) /\ UNCHANGED <<to, mode>>
      <4>1. q = [panel EXCEPT !.key = PastedKey, !.manual = TRUE, !.manualFor = upload.email,
                   !.status = "manual",
                   !.meta = [email |-> upload.email, key |-> PastedKey, source |-> "manual"]]
        BY <1>1 DEF GoodPanels, Panels
      <4> QED
        BY <2>4, <4>1 DEF UploadRead, window
    <3> HIDE DEF q
    <3> QED
      BY <1>2, <3>1, <3>2
  <2> QED
    BY <2>1, <2>2, <2>3, <2>4, ComposeAssumption
<1>5. UNCHANGED <<lookups, sends, busy, server>>
  BY DEF handleManualKeyChange, handleManualKeyUpload, UploadRead, UploadRefused, sending
<1> QED
  BY <1>3, <1>4, <1>5, PanelFrame, SendsFrame DEF ComposeInv

\* Lookups of the timer and of the button that asks again.
LEMMA LookupStarts ==
  ASSUME ComposeInv, StartLookup \/ fetchRecipientKey
  PROVE  ComposeInv'
<1> DEFINE target == singleComposeRecipient(to)
           q == [Detecting(panel) EXCEPT !.timer = panel.timer]
<1>1. target \in Addresses
  BY SingleGood DEF ComposeInv, WindowOK, SpinnerHasLookup, StartLookup, fetchRecipientKey,
                    AddressOrNone
<1>2. panel \in GoodPanels /\ panel.timer \in BOOLEAN
  BY DEF ComposeInv, PanelOK, GoodPanels, Panels
<1>3. /\ Detecting(panel) \in GoodPanels /\ Detecting(panel).seq = panel.seq + 1
      /\ Detecting(panel).timer = FALSE
      /\ q \in GoodPanels /\ q.seq = panel.seq + 1 /\ q.timer = panel.timer
  BY <1>2, DetectingGood
<1>4. /\ panel' = Detecting(panel) \/ panel' = q
      /\ lookups' = lookups \cup {Lookup(panel, target, "timer")}
      /\ UNCHANGED <<window, upload, options, sending, server>>
  BY DEF StartLookup, fetchRecipientKey
<1> HIDE DEF q, target
<1>5. panel' \in GoodPanels /\ panel'.seq = panel.seq + 1 /\ (panel'.timer => panel.timer)
  BY <1>3, <1>4
<1>6. /\ PanelOK' /\ SpinnerHasLookup' /\ lookups' \subseteq Lookups
      /\ \A l \in lookups' : l.seq <= panel'.seq
  BY <1>1, <1>4, <1>5, NewLookup DEF window
<1>7. LookupsOK'
  <2>1. panel.seq \in Nat /\ Lookup(panel, target, "timer").by = "timer"
    BY <1>1, <1>2, LookupGood DEF GoodPanels, Panels
  <2>2. \A s \in sends : s.stage = "lookup" => s.seq <= panel'.seq
    BY <1>5, <2>1, SMT DEF ComposeInv, LookupsOK, SendsOK, GoodSends, Sends
  <2> QED
    BY <1>4, <1>6, <2>1, <2>2 DEF ComposeInv, LookupsOK, sending
<1>8. WindowOK'
  BY <1>4 DEF ComposeInv, WindowOK, window, options, sending
<1>9. SendsOK' /\ SentOK' /\ BookOK'
  BY <1>4, SendsFrame DEF sending
<1> QED
  BY <1>6, <1>7, <1>8, <1>9 DEF ComposeInv

\* The lookup goes on in the directory under its number; an old one ends.
LEMMA NextStage ==
  ASSUME ComposeInv, NEW l \in lookups,
         lookups' = (lookups \ {l}) \cup
                      (IF current(l) THEN {[l EXCEPT !.stage = "directory"]} ELSE {}),
         UNCHANGED <<window, panel, upload, options, sending, server>>
  PROVE  ComposeInv'
<1> DEFINE d == [l EXCEPT !.stage = "directory"]
<1>1. /\ d \in Lookups /\ d.seq = l.seq /\ d.by = l.by /\ d.target = l.target
  BY DEF ComposeInv, LookupsOK, Lookups
<1> HIDE DEF d
<1>2. LookupsOK'
  <2>1. UNCHANGED <<panel, sends>>
    BY DEF sending
  <2>2. \A k \in lookups' : k \in lookups \/ k = d
    BY DEF d
  <2>3. \A k \in lookups' : \E m \in lookups : /\ k.seq = m.seq /\ k.by = m.by
                                             /\ k.target = m.target /\ k \in Lookups
    BY <1>1, <2>2 DEF ComposeInv, LookupsOK
  <2> QED
    BY <2>1, <2>3, SMT DEF ComposeInv, LookupsOK
<1>3. SpinnerHasLookup'
  BY <1>1, ZenonT(30) DEF ComposeInv, SpinnerHasLookup, current, window, d
<1>4. WindowOK' /\ PanelOK'
  BY DEF ComposeInv, WindowOK, PanelOK, window, options, sending
<1>5. SendsOK' /\ SentOK' /\ BookOK'
  BY SendsFrame DEF sending
<1> QED
  BY <1>2, <1>3, <1>4, <1>5 DEF ComposeInv

\* The answers to the lookups of the timer.
LEMMA LookupEnds ==
  ASSUME ComposeInv, NEW l \in lookups, NotInBook(l) \/ LookupAnswer(l) \/ LookupFails(l)
  PROVE  ComposeInv'
<1>1. CASE NotInBook(l)
  BY <1>1, NextStage DEF NotInBook
<1>2. CASE LookupAnswer(l) \/ LookupFails(l)
  <2>1. panel \in GoodPanels /\ l \in Lookups /\ Hit(l) \in Entries \cup {None}
    BY HitGood DEF ComposeInv, PanelOK
  <2>2. PICK p : /\ panel' = Answered(l, p)
                 /\ p \in GoodPanels /\ p.seq = panel.seq /\ ~p.busy /\ p.timer = panel.timer
    <3>1. CASE LookupFails(l)
      BY <2>1, <3>1, AnswersGood, SMTT(30), SMT DEF LookupFails
    <3>2. CASE LookupAnswer(l) /\ Hit(l) # None
      BY <2>1, <3>2, AnswersGood, SMTT(30), SMT DEF LookupAnswer
    <3>3. CASE LookupAnswer(l) /\ Hit(l) = None
      BY <2>1, <3>3, AnswersGood, SMT DEF LookupAnswer
    <3> QED
      BY <1>2, <3>1, <3>2, <3>3
  <2>3. lookups' = lookups \ {l} /\ UNCHANGED <<window, upload, options, sending, server>>
    BY <1>2, SMTT(30) DEF LookupAnswer, LookupFails
  <2>4. PanelOK' /\ SpinnerHasLookup' /\ panel'.seq >= panel.seq
    BY <2>2, <2>3, AnsweredStep DEF window
  <2>5. LookupsOK'
    BY <2>3, <2>4, FewerLookups DEF PanelOK, sending
  <2>6. WindowOK'
    BY <2>3 DEF ComposeInv, WindowOK, window, options, sending
  <2>7. SendsOK' /\ SentOK' /\ BookOK'
    BY <2>3, SendsFrame DEF sending
  <2> QED
    BY <2>4, <2>5, <2>6, <2>7 DEF ComposeInv
<1> QED
  BY <1>1, <1>2

\* The press of the button: no send is under way, and the new one starts with
\* the lookup it needs or with a key that is its recipient's.
LEMMA PressKeeps ==
  ASSUME ComposeInv, NEW save \in BOOLEAN, handleSend(save)
  PROVE  ComposeInv'
<1> DEFINE s == Press(save)
<1>1. /\ s \in Sends /\ s.mode = mode /\ s.to = singleComposeRecipient(to)
      /\ s.manual => s.key # None
      /\ s.key = panel.key /\ s.meta = panel.meta /\ s.seq = panel.seq + 1
      /\ s.stage = "lookup" /\ s.asked = FALSE
      /\ s.meta # None /\ s.key # None => s.meta.key = s.key
  BY PressGood
<1>2. UNCHANGED <<window, upload, options, server>> /\ ~busy
  BY DEF handleSend
<1>3. sends = {} /\ mode \in {"pgp", "link"} /\ panel \in GoodPanels
  BY <1>2 DEF ComposeInv, SendsOK, WindowOK, PanelOK
<1>4. busy' \in BOOLEAN /\ err' \in BOOLEAN
  BY ZenonT(30) DEF handleSend, ComposeInv, WindowOK
<1>5. WindowOK'
  BY <1>2, <1>4 DEF ComposeInv, WindowOK, window, options
<1>6. BookOK'
  BY <1>2 DEF ComposeInv, BookOK, BookIsSent, server
<1>7. ASSUME UNCHANGED <<sends, busy, panel, lookups>> PROVE ComposeInv'
  BY <1>2, <1>5, <1>7, SamePanelMoves, PanelFrame, SendsFrame DEF ComposeInv, window
<1>8. ASSUME NEW r \in GoodSends, r.stage # "book", sends' = sends \cup {r}, busy' = TRUE
      PROVE  SendsOK' /\ SentOK'
  BY <1>2, <1>3, <1>8 DEF ComposeInv, SendsOK, SentOK, SettledKeyIsUsed, server
<1>9. ASSUME NEW r \in GoodSends, r.stage \in {"post", "link"}, sends' = sends \cup {r},
             busy' = TRUE, UNCHANGED <<panel, lookups>>
      PROVE  ComposeInv'
  <2>1. SendsOK' /\ SentOK'
    BY <1>8, <1>9
  <2>2. LookupsOK'
    BY <1>3, <1>9, SMTT(30) DEF ComposeInv, LookupsOK
  <2>3. PanelOK' /\ SpinnerHasLookup'
    BY <1>2, <1>9 DEF ComposeInv, PanelOK, SpinnerHasLookup, current, window
  <2> QED
    BY <1>5, <1>6, <2>1, <2>2, <2>3 DEF ComposeInv
<1> HIDE DEF s
<1>10. ASSUME mode = "link", sends' = sends \cup {[s EXCEPT !.stage = "link"]}, busy' = TRUE,
              UNCHANGED <<panel, lookups>>
       PROVE  ComposeInv'
  <2> DEFINE r == [s EXCEPT !.stage = "link"]
  <2>1. /\ r \in Sends /\ r.stage = "link" /\ r.mode = s.mode /\ r.manual = s.manual
        /\ r.key = s.key
    BY <1>1 DEF Sends
  <2> HIDE DEF r
  <2>2. r \in GoodSends
    BY <1>1, <1>10, <2>1 DEF GoodSends
  <2> QED
    BY <1>9, <1>10, <2>1, <2>2 DEF r
<1>11. ASSUME mode = "pgp", s.to # None, settled(s), sends' = sends \cup {Route(s, s.meta)},
              busy' = TRUE, UNCHANGED <<panel, lookups>>
       PROVE  ComposeInv'
  <2>1. s.to \in Addresses /\ s.meta \in Found \cup {None}
    BY <1>1, <1>11 DEF Sends, AddressOrNone
  <2>2. s.manual \/ (s.meta # None /\ s.meta.email = s.to)
    BY <1>11, SMTT(30) DEF settled
  <2>3. Route(s, s.meta) \in GoodSends /\ Route(s, s.meta).stage = "post"
    BY <1>1, <1>11, <2>1, <2>2, RouteGood
  <2> QED
    BY <1>9, <1>11, <2>3
<1>12. ASSUME mode = "pgp", s.to # None, busy' = TRUE,
              sends' = sends \cup {[s EXCEPT !.asked = TRUE]},
              lookups' = lookups \cup {Lookup(panel, s.to, "send")},
              panel' = [Detecting(panel) EXCEPT !.timer = panel.timer]
       PROVE  ComposeInv'
  <2> DEFINE r == [s EXCEPT !.asked = TRUE]
             n == Lookup(panel, s.to, "send")
  <2>1. s.to \in Addresses /\ panel.timer \in BOOLEAN /\ panel.seq \in Nat
    BY <1>1, <1>3, <1>12 DEF Sends, AddressOrNone, GoodPanels, Panels
  <2>2. /\ r \in Sends /\ r.asked = TRUE /\ r.mode = s.mode /\ r.manual = s.manual
        /\ r.key = s.key /\ r.to = s.to /\ r.stage = s.stage /\ r.seq = s.seq
    BY <1>1 DEF Sends
  <2> HIDE DEF r
  <2>3. r \in GoodSends
    BY <1>1, <1>12, <2>1, <2>2 DEF GoodSends
  <2>4. panel' \in GoodPanels /\ panel'.seq = panel.seq + 1 /\ panel'.timer = panel.timer
    BY <1>3, <1>12, <2>1, DetectingGood, ZenonT(30)
  <2>5. /\ PanelOK' /\ SpinnerHasLookup' /\ lookups' \subseteq Lookups
        /\ \A l \in lookups' : l.seq <= panel'.seq
    BY <1>2, <1>12, <2>1, <2>4, NewLookup DEF window
  <2>6. n.seq = panel.seq + 1 /\ n.target = s.to
    BY <1>3, <2>1, LookupGood
  <2>7. sends' = {r} /\ r.seq = panel.seq + 1 /\ r.to = s.to
    BY <1>1, <1>3, <1>12, <2>2 DEF r
  <2>8. \A l \in lookups : l.seq \in Nat /\ l.seq <= panel.seq
    BY DEF ComposeInv, LookupsOK, Lookups
  <2> HIDE DEF n
  <2>9. \A l \in lookups' : l.seq = panel.seq + 1 => l.target = s.to
    BY <1>12, <2>1, <2>6, <2>8, SMTT(30), SMT DEF n
  <2>10. LookupsOK'
    BY <2>1, <2>4, <2>5, <2>7, <2>9, SMT DEF LookupsOK
  <2>11. SendsOK' /\ SentOK'
    BY <1>1, <1>8, <1>12, <2>2, <2>3, ZenonT(30) DEF r
  <2> QED
    BY <1>5, <1>6, <2>5, <2>10, <2>11 DEF ComposeInv
<1> QED
  BY <1>1, <1>3, <1>7, <1>10, <1>11, <1>12 DEF handleSend, s

\* A send waiting for its lookup is of a PGP message to one recipient.
LEMMA WaitingSend ==
  ASSUME ComposeInv, NEW s \in sends
  PROVE  /\ s \in Sends /\ sends = {s} /\ busy = TRUE
         /\ s.stage # "link" => s.mode = "pgp" /\ s.to \in Addresses
         /\ s.stage \in {"post", "book"} => Routed(s)
<1>1. s \in GoodSends /\ sends = {s} /\ busy = TRUE
  BY DEF ComposeInv, SendsOK, WindowOK
<1>2. s.mode \in {"pgp", "link"}
  BY <1>1 DEF GoodSends, Sends
<1> QED
  BY <1>1, <1>2 DEF GoodSends

\* The answer to the lookup of a send: the send goes on with a key or fails.
LEMMA ResumeKeeps ==
  ASSUME ComposeInv, NEW s \in sends, NEW l \in lookups,
         l.by = "send", l.seq = s.seq, s.stage = "lookup", NEW p,
         current(l) => p \in GoodPanels /\ p.seq = panel.seq /\ ~p.busy /\ p.timer = panel.timer,
         NEW found, found \in Found \cup {None}, found # None => found.email = l.target,
         Resume(s, l, p, found), UNCHANGED <<window, upload, options, server>>
  PROVE  ComposeInv'
<1> DEFINE f == IF current(l) THEN found ELSE None
<1>1. /\ s \in Sends /\ sends = {s} /\ busy = TRUE /\ s.mode = "pgp" /\ s.to \in Addresses
      /\ s.asked /\ (s.manual => s.key # None)
  BY WaitingSend, ZenonT(30) DEF ComposeInv, SendsOK, GoodSends
<1>2. l.target = s.to
  BY DEF ComposeInv, LookupsOK
<1>3. f \in Found \cup {None} /\ (f # None => f.email = s.to)
  BY <1>2
<1>4. /\ panel' = Answered(l, p) /\ lookups' = lookups \ {l}
      /\ IF s.key = None /\ f = None THEN Failed(s)
         ELSE sends' = (sends \ {s}) \cup {Route(s, f)} /\ UNCHANGED <<busy, err>>
  BY SMTT(30) DEF Resume
<1> HIDE DEF f
<1>5. PanelOK' /\ SpinnerHasLookup' /\ panel'.seq >= panel.seq
  BY <1>4, AnsweredStep, SMTT(30) DEF window
<1>6. BookOK'
  BY SMTT(30) DEF ComposeInv, BookOK, BookIsSent, server
<1>7. CASE s.key = None /\ f = None
  <2>1. sends' = sends \ {s} /\ busy' = FALSE /\ err' = TRUE
    BY <1>4, <1>7, ZenonT(30) DEF Failed
  <2>2. SendsOK' /\ sends' = {} /\ SentOK'
    BY <2>1, SendOver, ZenonT(30) DEF server
  <2>3. LookupsOK'
    <3>1. lookups' \subseteq lookups /\ panel' \in GoodPanels /\ panel'.seq >= panel.seq
      BY <1>4, <1>5 DEF PanelOK
    <3> QED
      BY <2>2, <3>1, FewerLookups
  <2>4. WindowOK'
    BY <2>1, ZenonT(30) DEF ComposeInv, WindowOK, window, options
  <2> QED
    BY <1>5, <1>6, <2>2, <2>3, <2>4, SMTT(30) DEF ComposeInv
<1>8. CASE s.key # None \/ f # None
  <2>1. Route(s, f) \in GoodSends /\ Route(s, f).stage = "post"
    BY <1>1, <1>3, <1>8, RouteGood, SMTT(30)
  <2>2. sends' = {Route(s, f)} /\ UNCHANGED <<busy, err>>
    BY <1>1, <1>4, <1>8, ZenonT(30)
  <2>3. SendsOK'
    BY <1>1, <2>1, <2>2, ZenonT(30) DEF SendsOK
  <2>4. SentOK'
    BY <2>1, <2>2, SMTT(30) DEF ComposeInv, SentOK, SettledKeyIsUsed, server
  <2>5. LookupsOK'
    <3>1. lookups' \subseteq lookups /\ panel' \in GoodPanels /\ panel'.seq >= panel.seq
      BY <1>4, <1>5 DEF PanelOK
    <3>2. \A q \in sends' : q.stage = "lookup" => q \in sends
      BY <2>1, <2>2
    <3> QED
      BY <3>1, <3>2, FewerLookups
  <2>6. WindowOK'
    BY <2>2 DEF ComposeInv, WindowOK, window, options
  <2> QED
    BY <1>5, <1>6, <2>3, <2>4, <2>5, <2>6 DEF ComposeInv
<1> QED
  BY <1>7, <1>8, SMTT(30)

\* The stages of the lookup a send waits for.
LEMMA SendLookupKeeps ==
  ASSUME ComposeInv, NEW s \in sends, NEW l \in lookups,
         SendNotInBook(s, l) \/ SendLookupAnswer(s, l) \/ SendLookupFails(s, l)
  PROVE  ComposeInv'
<1>1. /\ l.by = "send" /\ l.seq = s.seq /\ s.stage = "lookup"
      /\ UNCHANGED <<window, upload, options, server>>
  BY DEF SendNotInBook, SendLookupAnswer, SendLookupFails
<1>2. panel \in GoodPanels /\ l \in Lookups /\ Hit(l) \in Entries \cup {None}
  BY HitGood DEF ComposeInv, PanelOK
<1>3. CASE SendNotInBook(s, l) /\ current(l)
  <2>1. /\ lookups' = (lookups \ {l}) \cup {[l EXCEPT !.stage = "directory"]}
        /\ UNCHANGED <<panel, sending>>
    BY <1>3, SMTT(30) DEF SendNotInBook
  <2> QED
    BY <1>1, <1>3, <2>1, NextStage
<1>4. CASE SendNotInBook(s, l) /\ ~current(l)
  <2>1. Resume(s, l, panel, None)
    BY <1>4 DEF SendNotInBook
  <2> QED
    BY <1>1, <1>4, <2>1, ResumeKeeps, ZenonT(30)
<1>5. CASE SendLookupAnswer(s, l) /\ Hit(l) # None
  <2> DEFINE p == KeyFound(panel, l, Hit(l))
             found == [email |-> l.target, key |-> Hit(l).key, source |-> Hit(l).source]
  <2>1. p \in GoodPanels /\ p.seq = panel.seq /\ ~p.busy /\ p.timer = panel.timer
    BY <1>2, <1>5, AnswersGood, SMTT(30)
  <2>2. found \in Found /\ found.email = l.target
    BY <1>2, <1>5, SMTT(30) DEF Found, Entries, Lookups, AddressOrNone
  <2>3. Resume(s, l, p, found)
    BY <1>5, ZenonT(30) DEF SendLookupAnswer
  <2> HIDE DEF p, found
  <2> QED
    BY <1>1, <2>1, <2>2, <2>3, ResumeKeeps
<1>6. CASE SendLookupAnswer(s, l) /\ Hit(l) = None
  <2>1. Resume(s, l, KeyMissing(panel, l), None)
    BY <1>6, ZenonT(30) DEF SendLookupAnswer
  <2> QED
    BY <1>1, <1>2, <2>1, AnswersGood, ResumeKeeps, ZenonT(30)
<1>7. CASE SendLookupFails(s, l)
  <2>1. Resume(s, l, KeyError(panel, l), None)
    BY <1>7 DEF SendLookupFails
  <2> QED
    BY <1>1, <1>2, <2>1, AnswersGood, ResumeKeeps, ZenonT(30)
<1> QED
  BY <1>3, <1>4, <1>5, <1>6, <1>7

\* What the server got is under the key found for its recipient, where it must.
LEMMA PostedGood ==
  ASSUME ComposeInv, NEW s \in sends, s.stage = "post", sent' = sent \cup {Posted(s)}
  PROVE  /\ \A m \in sent' : m.to \in Addresses /\ m.key \in Keys
         /\ SettledKeyIsUsed'
         /\ UNCHANGED book => BookOK'
<1>1. s.to \in Addresses /\ Routed(s)
  BY WaitingSend, ZenonT(30)
<1>2. /\ Posted(s).to = s.to /\ Posted(s).key = s.key /\ Posted(s).local = s.local
      /\ Posted(s).asked = s.asked
      /\ Posted(s).found = IF s.meta = None THEN None ELSE s.meta.key
  BY DEF Posted
<1>3. \A m \in sent' : m.to \in Addresses /\ m.key \in Keys
  BY <1>1, <1>2, SMTT(30) DEF ComposeInv, SentOK, Routed
<1>4. SettledKeyIsUsed'
  BY <1>1, <1>2 DEF ComposeInv, SentOK, SettledKeyIsUsed, Routed
<1>5. UNCHANGED book => BookOK'
  BY SMT DEF ComposeInv, BookOK, BookIsSent
<1> QED
  BY <1>3, <1>4, <1>5

\* A send that ends closes the window that is open then, whichever it is.
LEMMA FinishStep ==
  ASSUME ComposeInv, NEW s \in sends, Finish(s), UNCHANGED <<lookups, upload>>
  PROVE  /\ WindowOK' /\ PanelOK' /\ LookupsOK' /\ SpinnerHasLookup' /\ SendsOK'
         /\ sends' = {}
<1>1. sends' = sends \ {s} /\ busy' = FALSE
  BY DEF Finish
<1>2. SendsOK' /\ sends' = {}
  BY <1>1, SendOver
<1>3. WindowOK' /\ PanelMoves(panel, panel', to', mode')
  <2>1. CASE open
    BY <1>1, <2>1, ClosedStep DEF Finish
  <2>2. CASE ~open
    <3>1. UNCHANGED <<window, panel, options, err>>
      BY <2>2 DEF Finish
    <3>2. WindowOK'
      BY <1>1, <3>1, ZenonT(30) DEF ComposeInv, WindowOK, window, options
    <3> QED
      BY <3>1, <3>2, SamePanelMoves DEF window
  <2> QED
    BY <2>1, <2>2
<1> QED
  BY <1>2, <1>3, PanelFrame

\* The message is accepted; the book comes next or the send is over.
LEMMA PostKeeps ==
  ASSUME ComposeInv, NEW s \in sends, sendPGPDirect(s)
  PROVE  ComposeInv'
<1>1. /\ s.stage = "post" /\ sent' = sent \cup {Posted(s)}
      /\ UNCHANGED <<lookups, upload, links, book, events>>
  BY DEF sendPGPDirect
<1>2. /\ \A m \in sent' : m.to \in Addresses /\ m.key \in Keys
      /\ SettledKeyIsUsed' /\ BookOK'
  BY <1>1, PostedGood
<1>3. CASE s.save /\ s.meta # None
  <2> DEFINE r == [s EXCEPT !.stage = "book"]
  <2>1. s \in GoodSends /\ s \in Sends /\ sends = {s} /\ busy = TRUE /\ s.mode = "pgp"
        /\ s.to \in Addresses /\ Routed(s)
    BY <1>1, WaitingSend, ZenonT(30) DEF ComposeInv, SendsOK
  <2>2. /\ r \in Sends /\ r.stage = "book" /\ r.mode = s.mode /\ r.to = s.to /\ r.manual = s.manual
        /\ r.key = s.key /\ r.meta = s.meta /\ r.asked = s.asked /\ r.local = s.local
        /\ r.draft = s.draft
    BY <2>1 DEF Sends
  <2>3. sends' = {r} /\ UNCHANGED <<window, panel, options, busy, err>>
    BY <1>3, <2>1 DEF sendPGPDirect
  <2> HIDE DEF r
  <2>4. r \in GoodSends
    BY <1>3, <2>1, <2>2 DEF GoodSends, Routed
  <2>5. Posted(r) = Posted(s)
    BY <2>2, SMTT(30) DEF Posted
  <2>6. SendsOK' /\ SentOK'
    BY <1>1, <1>2, <2>1, <2>3, <2>4, <2>5 DEF SendsOK, SentOK
  <2>7. PanelMoves(panel, panel', to', mode')
    BY <2>3, SamePanelMoves, SMTT(30) DEF window
  <2>8. PanelOK' /\ LookupsOK' /\ SpinnerHasLookup'
    BY <1>1, <2>2, <2>3, <2>7, PanelFrame, SMTT(30)
  <2>9. WindowOK'
    BY <1>1, <2>3 DEF ComposeInv, WindowOK, window, options
  <2> QED
    BY <1>2, <2>6, <2>8, <2>9 DEF ComposeInv
<1>4. CASE ~(s.save /\ s.meta # None)
  <2>1. Finish(s)
    BY <1>4 DEF sendPGPDirect
  <2>2. /\ WindowOK' /\ PanelOK' /\ LookupsOK' /\ SpinnerHasLookup' /\ SendsOK'
        /\ sends' = {}
    BY <1>1, <2>1, FinishStep
  <2> QED
    BY <1>2, <2>2 DEF ComposeInv, SentOK
<1> QED
  BY <1>3, <1>4

\* The address book gets the key of the message that went out.
LEMMA SaveKeeps ==
  ASSUME ComposeInv, NEW s \in sends, SaveContact(s)
  PROVE  ComposeInv'
<1>1. s.stage = "book" /\ Finish(s) /\ UNCHANGED <<lookups, upload, sent, links>>
  BY DEF SaveContact
<1>2. /\ WindowOK' /\ PanelOK' /\ LookupsOK' /\ SpinnerHasLookup' /\ SendsOK' /\ sends' = {}
  BY <1>1, FinishStep, SMTT(30)
<1>3. SentOK'
  BY <1>1, <1>2, SMTT(30) DEF ComposeInv, SentOK, SettledKeyIsUsed
<1>4. /\ s \in Sends /\ s.to \in Addresses /\ s.key \in Keys /\ s.meta \in Found
      /\ s.meta.email = s.to
  BY <1>1, WaitingSend, ZenonT(30) DEF Routed, ComposeInv, SendsOK, GoodSends, Sends
<1>5. Posted(s) \in sent /\ Posted(s).to = s.to /\ Posted(s).key = s.key
  BY <1>1 DEF ComposeInv, SentOK, Posted
<1>6. BookOK'
  <2> DEFINE entry == [key |-> s.key, source |-> s.meta.source]
  <2>1. entry \in Entries /\ entry.key = s.key
    BY <1>4, SMTT(30) DEF Entries, Found
  <2>2. \/ book' = [book EXCEPT ![s.to] = entry]
        \/ UNCHANGED book
    BY <1>4 DEF SaveContact
  <2> HIDE DEF entry
  <2>3. book \in [Addresses -> Entries \cup {None}] /\ BookIsSent /\ sent' = sent
    BY <1>1 DEF ComposeInv, BookOK
  <2>4. book' \in [Addresses -> Entries \cup {None}]
    BY <1>4, <2>1, <2>2, <2>3, SMTT(30)
  <2>5. \A a \in Addresses : book'[a] = book[a] \/ (a = s.to /\ book'[a] = entry)
    BY <1>4, <2>2, <2>3, SMTT(30)
  <2>6. BookIsSent'
    BY <1>5, <2>1, <2>3, <2>5, SMTT(30), SMT DEF BookIsSent
  <2> QED
    BY <2>4, <2>6, SMTT(30) DEF BookOK
<1> QED
  BY <1>2, <1>3, <1>6, SMTT(30) DEF ComposeInv

\* A link is made, or the send fails with or without having arrived.
LEMMA SendEndsKeeps ==
  ASSUME ComposeInv, NEW s \in sends, AnswerLost(s) \/ SendFails(s) \/ sendProtectedLink(s)
  PROVE  ComposeInv'
<1>1. /\ sends' = sends \ {s} /\ busy' = FALSE
      /\ UNCHANGED <<window, panel, lookups, upload, pwd, pwdConfirm, book>>
  BY DEF AnswerLost, SendFails, sendProtectedLink, Failed, options, server
<1>2. SendsOK' /\ sends' = {} /\ (UNCHANGED sent => SentOK')
  BY <1>1, SendOver
<1>3. WindowOK'
  <2>1. err' \in BOOLEAN
    BY ZenonT(30) DEF ComposeInv, WindowOK, AnswerLost, SendFails, sendProtectedLink, Failed
  <2> QED
    BY <1>1, <2>1 DEF ComposeInv, WindowOK, window
<1>4. PanelOK' /\ LookupsOK' /\ SpinnerHasLookup'
  BY <1>1, <1>2, SamePanelMoves, PanelFrame DEF window
<1>5. SentOK' /\ BookOK'
  <2>1. CASE AnswerLost(s) /\ s.stage = "post"
    BY <1>1, <1>2, <2>1, PostedGood, SMTT(30) DEF AnswerLost, SentOK
  <2>2. CASE ~(AnswerLost(s) /\ s.stage = "post")
    <3>1. UNCHANGED sent
      BY <2>2, SMTT(30) DEF AnswerLost, SendFails, sendProtectedLink, server
    <3> QED
      BY <1>1, <1>2, <3>1, ZenonT(30) DEF ComposeInv, BookOK, BookIsSent
  <2> QED
    BY <2>1, <2>2
<1> QED
  BY <1>2, <1>3, <1>4, <1>5 DEF ComposeInv

\* A step that changes nothing.
LEMMA StutterKeeps ==
  ASSUME ComposeInv, UNCHANGED vars
  PROVE  ComposeInv'
<1>1. UNCHANGED <<window, panel, lookups, upload, options, sending, server>>
  BY DEF vars
<1>2. WindowOK'
  BY <1>1 DEF ComposeInv, WindowOK, window, options, sending
<1> QED
  BY <1>1, <1>2, SamePanelMoves, PanelFrame, SendsFrame DEF ComposeInv, window, sending

\* Every step keeps the invariant.
LEMMA NextInv == ComposeInv /\ [Next]_vars => ComposeInv'
<1> SUFFICES ASSUME ComposeInv, [Next]_vars PROVE ComposeInv'
  OBVIOUS
<1>1. CASE Writer
  <2>1. CASE CloseCompose
    BY <2>1, CloseKeeps
  <2>2. CASE fetchRecipientKey
    BY <2>2, LookupStarts
  <2>3. CASE \E save \in BOOLEAN : handleSend(save)
    BY <2>3, PressKeeps
  <2>4. CASE handleManualKeyUpload \/ \E k \in {PastedKey, None} : handleManualKeyChange(k)
    BY <2>4, ManualKeeps
  <2>5. CASE \/ \E f \in Fields : OpenCompose(f) \/ TypeTo(f)
             \/ DefaultFromChanges \/ TypeBody
             \/ \E md \in {"pgp", "link"} : SetMode(md)
             \/ \E p, q \in Passwords : TypePassword(p, q)
    BY <2>5, TypingKeeps
  <2> QED
    BY <1>1, <2>1, <2>2, <2>3, <2>4, <2>5 DEF Writer
<1>2. CASE Answer
  <2>1. CASE StartLookup
    BY <2>1, LookupStarts
  <2>2. CASE UploadRead \/ UploadRefused
    BY <2>2, ManualKeeps
  <2>3. CASE \E l \in lookups : NotInBook(l) \/ LookupAnswer(l) \/ LookupFails(l)
    BY <2>3, LookupEnds
  <2>4. CASE \E s \in sends : sendPGPDirect(s)
    BY <2>4, PostKeeps
  <2>5. CASE \E s \in sends : SaveContact(s)
    BY <2>5, SaveKeeps
  <2>6. CASE \E s \in sends : AnswerLost(s) \/ SendFails(s) \/ sendProtectedLink(s)
    BY <2>6, SendEndsKeeps
  <2>7. CASE \E s \in sends, l \in lookups :
               SendNotInBook(s, l) \/ SendLookupAnswer(s, l) \/ SendLookupFails(s, l)
    BY <2>7, SendLookupKeeps
  <2> QED
    BY <1>2, <2>1, <2>2, <2>3, <2>4, <2>5, <2>6, <2>7, SMTT(30) DEF Answer
<1>3. CASE UNCHANGED vars
  BY <1>3, StutterKeeps
<1> QED
  BY <1>1, <1>2, <1>3 DEF Next

-----------------------------------------------------------------------------
(* The theorems *)

\* ComposeInv holds in every state of every behaviour.
THEOREM ComposeInvariant == Spec => []ComposeInv
BY InitInv, NextInv, PTL DEF Spec

\* The key the panel holds is the one it describes, however lookups, pasted
\* keys, uploads and the effects that react to them overlap (compose.jsx).
THEOREM PanelDescribesKey == Spec => []KeyMatchesMeta
<1>1. ComposeInv => KeyMatchesMeta
  BY DEF ComposeInv, PanelOK, GoodPanels, KeyMatchesMeta
<1> QED
  BY <1>1, ComposeInvariant, PTL

\* A message whose recipient's key was settled at the press of the button, or
\* whose recipient is on this server, went out under the key found for them,
\* although the panel moved on while it was being sent (handleSend).
THEOREM SettledKeyUsed == Spec => []SettledKeyIsUsed
<1>1. ComposeInv => SettledKeyIsUsed
  BY DEF ComposeInv, SentOK
<1> QED
  BY <1>1, ComposeInvariant, PTL

\* One send at a time, and the button is disabled exactly while it runs, also
\* when the window was closed and opened again in between (sendBusy).
THEOREM SendsOneByOne == Spec => []OneSend
<1>1. ASSUME ComposeInv PROVE OneSend
  <2>1. sends = {} \/ \E s : sends = {s}
    BY <1>1, ZenonT(30) DEF ComposeInv, SendsOK
  <2>2. Cardinality(sends) = 0 \/ Cardinality(sends) = 1
    <3>1. ASSUME NEW s, sends = {s} PROVE Cardinality(sends) = 1
      BY <3>1, FS_Singleton
    <3>2. ASSUME sends = {} PROVE Cardinality(sends) = 0
      BY <3>2, FS_EmptySet
    <3> QED
      BY <2>1, <3>1, <3>2
  <2> QED
    BY <1>1, <2>2, SMT DEF ComposeInv, SendsOK, OneSend
<1> QED
  BY <1>1, ComposeInvariant, PTL

\* The address book learns a key only from a message that went out under it to
\* that address (the save-contact option of handleSend).
THEOREM BookLearnsFromSent == Spec => []BookIsSent
<1>1. ComposeInv => BookIsSent
  BY DEF ComposeInv, BookOK
<1> QED
  BY <1>1, ComposeInvariant, PTL

\* The panel spins only for the latest lookup, and the lookup timer runs only
\* for the one recipient of a PGP message.
THEOREM SpinnerTurnsForLookup == Spec => []SpinnerHasLookup
<1>1. ComposeInv => SpinnerHasLookup
  BY SMTT(30) DEF ComposeInv
<1> QED
  BY <1>1, ComposeInvariant, PTL

\* The window, its panel and what it has under way keep their shapes.
THEOREM ComposeTypeCorrect == Spec => []TypeOK
<1>1. ASSUME ComposeInv PROVE TypeOK
  <2>1. /\ panel.key \in KeyOrNone /\ panel.manualFor \in AddressOrNone
        /\ panel.meta = None \/ panel.meta \in Found
        /\ panel.status \in Statuses
        /\ {panel.manual, panel.busy, panel.timer} \subseteq BOOLEAN /\ panel.seq \in Nat
    BY <1>1 DEF ComposeInv, PanelOK, GoodPanels, Panels
  <2>2. \A l \in lookups : l.seq \in 1..panel.seq /\ l.target \in Addresses
    BY <1>1, <2>1, SMTT(30), SMT DEF ComposeInv, LookupsOK, Lookups
  <2>3. \A s \in sends : /\ s.stage \in {"lookup", "post", "book", "link"}
                         /\ s.mode = "pgp" => s.to \in Addresses
                         /\ s.stage \in {"post", "book"} => s.key \in Keys
    BY <1>1 DEF ComposeInv, SendsOK, GoodSends, Sends, Routed
  <2>4. \A a \in Addresses : book[a] = None \/ book[a].key \in Keys
    BY <1>1 DEF ComposeInv, BookOK, Entries
  <2> QED
    BY <1>1, <2>1, <2>2, <2>3, <2>4, ZenonT(30) DEF TypeOK, ComposeInv, WindowOK, SentOK, Statuses
<1> QED
  BY <1>1, ComposeInvariant, PTL
=============================================================================
