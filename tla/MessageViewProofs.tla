------------------------- MODULE MessageViewProofs --------------------------
(***************************************************************************)
(* Theorems about MessageView, for any folder, any mails, whatever the     *)
(* reader makes of each, any keys and any number of events.                *)
(***************************************************************************)
EXTENDS MessageView, FunctionTheorems, FiniteSetTheorems, WellFoundedInduction,
        NaturalsInduction, TLAPS

\* Most leaves are first-order steps, for Zenon. The leaves with arithmetic or
\* with equal sets and functions name SMT.
USE Zenon

-----------------------------------------------------------------------------
(***************************************************************************)
(* The inductive invariant, in parts that steps disturb one by one.        *)
(*   ListOK    no copy of a header is newer than the server's, and a row   *)
(*             that names the sender has the name from the stored header   *)
(*             or from the message's own protected headers;                *)
(*   AskedOK   a decryption, a write or a recovery is of a version the     *)
(*             server has had, and what is written is of its own message;  *)
(*   CheckOK   a check knows no sender but the message's and no contact    *)
(*             key that was not saved as trusted for that sender.          *)
(***************************************************************************)
Decrypts == [of: Messages, ver: Versions, good: BOOLEAN, stage: {"cache", "blob", "sigblob"}]
Saves == [of: Messages, ver: Versions, content: Messages,
          stage: {"header", "envelope", "server"}, refresh: BOOLEAN]
Recoveries == [of: Messages, ver: Versions, stage: {"cache", "blob"}]
EnvEntries == [ver: Versions, of: Messages, env: Envelopes]
Senders == Addresses \cup {None}
Bodies == [of: Messages, env: Envelopes]
Sigs == [status: Statuses, of: Messages, sender: Senders, signer: Keys \cup {None},
         trust: {"trusted", "untrusted", "na"}, import: Keys \cup {None}]
LastSigs == [of: Messages, sender: Senders]
Verifies == [of: Messages, run: Nat, sender: Senders, stage: {"keys", "outer", "nested"},
             contact: Keys \cup {None}, dir: Keys \cup {None}]

MailOK == mail \in [Messages -> Mails]

Known(m, e) ==
  /\ e.ver <= server[m].ver
  /\ e.good => server[m].good \/ mail[m].hdrs

ListOK ==
  /\ server \in [Messages -> Entries]
  /\ rows \in [Messages -> Entries]
  /\ hdrCache \in [Messages -> Entries \cup {None}]
  /\ load = None \/ load \in [Messages -> Entries]
  /\ \A m \in Messages : /\ Known(m, rows[m])
                         /\ load # None => Known(m, load[m])
                         /\ hdrCache[m] # None => Known(m, hdrCache[m])

Asked(q) == q.ver <= server[q.of].ver

AskedOK ==
  /\ \A d \in decrypts : d \in Decrypts /\ Asked(d)
  /\ \A w \in saves : w \in Saves /\ Asked(w) /\ w.content = w.of
  /\ \A r \in recovering : r \in Recoveries /\ Asked(r)

CacheOK ==
  /\ envCache \in [Messages -> EnvEntries \cup {None}]
  /\ CacheIsOwn

PaneOK ==
  /\ selected \in Messages \cup {None} /\ attempted \in Messages \cup {None}
  /\ body = None \/ body \in Bodies
  /\ ShownIsParsed
  /\ bodyErr \in BOOLEAN /\ busy \in BOOLEAN
  /\ busy => \E d \in decrypts : decrypts = {d}
  /\ ~busy => decrypts = {}

Named(m, sender) == sender \in {mail[m].from, None}

CheckedOnce == lastSig \in LastSigs /\ Named(lastSig.of, lastSig.sender)

\* A check that can be running.
Sound(v) ==
  /\ v \in Verifies /\ v.run \in 1..run /\ Named(v.of, v.sender)
  /\ v.contact # None => v.sender # None /\ <<v.sender, v.contact>> \in earned

CheckOK ==
  /\ run \in Nat
  /\ \A v \in verifies : Sound(v)
  /\ lastSig = None \/ CheckedOnce
  /\ (verifies # {} \/ sig # None \/ trust # None) => CheckedOnce
  /\ sig = None \/ sig \in Sigs
  /\ TrustIsEarned
  /\ trust = None \/ trust \in [sender: Addresses, key: Keys]
  /\ contact \in [Addresses -> Keys \cup {None}]
  /\ \A a \in Addresses : contact[a] # None => <<a, contact[a]>> \in earned
  /\ earned \subseteq Addresses \X Keys

\* S can be the set of the background recoveries.
Flight(S) ==
  /\ IsFiniteSet(S)
  /\ Cardinality(S) <= BACKGROUND_RECOVERY_CONCURRENCY
  /\ \A r, s \in S : r.of = s.of => r = s

DraftOK ==
  /\ draft = None \/ draft \in [of: Messages, all: BOOLEAN, to: SUBSET Addresses,
                                cc: SUBSET Addresses, quotes: Messages]
  /\ ReplyReachesAll

IInv ==
  /\ MailOK /\ ListOK /\ AskedOK /\ CacheOK /\ PaneOK /\ CheckOK /\ Flight(recovering)
  /\ DraftOK

-----------------------------------------------------------------------------
(* Facts about the operators.                                              *)

\* A finite set of naturals that is not empty has a greatest element.
LEMMA GreatestElement ==
  ASSUME NEW S \in SUBSET Nat, IsFiniteSet(S), S # {}
  PROVE  \E g \in S : \A n \in S : n <= g
<1> DEFINE above(m) == {n \in S : n > m}
           counts == {Cardinality(above(m)) : m \in S}
<1>1. \A m \in S : IsFiniteSet(above(m)) /\ Cardinality(above(m)) \in Nat
  BY FS_Subset, FS_CardinalityType
<1>2. counts \subseteq Nat /\ counts # {}
  BY <1>1
<1>3. PICK c \in counts : \A d \in counts : ~(<<d, c>> \in OpToRel(<, Nat))
  <2>1. IsWellFoundedOn(OpToRel(<, Nat), Nat)
    BY NatLessThanWellFounded
  <2> HIDE DEF counts
  <2> QED
    BY <1>2, <2>1, WFMin
<1>4. PICK g \in S : c = Cardinality(above(g))
  OBVIOUS
<1>5. SUFFICES ASSUME NEW n \in S, n > g PROVE FALSE
  BY <1>4, SMT
<1>6. above(n) \subseteq above(g) /\ n \in above(g) /\ n \notin above(n)
  <2>1. n \in Nat /\ g \in Nat /\ \A x \in S : x \in Nat
    OBVIOUS
  <2> HIDE DEF counts, above
  <2>2. (\A x \in Nat : x > n => x > g) /\ ~(n > n)
    BY <1>5, <2>1, SMT
  <2> USE DEF above
  <2> QED
    BY <1>5, <2>1, <2>2
<1>7. Cardinality(above(n)) < Cardinality(above(g))
  <2> HIDE DEF above
  <2>1. above(n) # above(g)
    BY <1>6
  <2> QED
    BY <1>1, <1>6, <2>1, FS_Subset, SMT
<1>8. <<Cardinality(above(n)), c>> \in OpToRel(<, Nat)
  BY <1>1, <1>4, <1>7 DEF OpToRel
<1> QED
  BY <1>3, <1>8

\* As many candidates are chosen as there are free slots, at most.
LEMMA ChosenFit ==
  ASSUME NEW W \in SUBSET Messages, NEW slots \in Nat
  PROVE  LET C == {m \in W : Cardinality({n \in W : n < m}) < slots}
         IN IsFiniteSet(C) /\ Cardinality(C) <= slots
<1> DEFINE before(m) == {n \in W : n < m}
           C == {m \in W : Cardinality(before(m)) < slots}
<1>1. IsFiniteSet(W) /\ IsFiniteSet(C) /\ C \in SUBSET Nat /\ Cardinality(C) \in Nat
  BY ViewAssumption, FS_Subset, FS_CardinalityType
<1>2. CASE C = {}
  <2> HIDE DEF C
  <2>1. Cardinality(C) = 0
    BY <1>2, FS_EmptySet
  <2>2. 0 <= slots
    BY SMT
  <2> QED
    BY <1>1, <2>1, <2>2 DEF C
<1>3. CASE C # {}
  <2> HIDE DEF C
  <2>1. PICK g \in C : \A n \in C : n <= g
    BY <1>1, <1>3, GreatestElement
  <2> USE DEF C
  <2>2. C \ {g} \subseteq before(g) /\ IsFiniteSet(before(g)) /\ Cardinality(before(g)) < slots
    <3>1. IsFiniteSet(before(g)) /\ Cardinality(before(g)) < slots
      BY <1>1, FS_Subset
    <3>2. \A n \in C \ {g} : n \in W /\ n \in Nat /\ g \in Nat /\ n <= g /\ n # g
      BY <1>1, <2>1
    <3>3. \A n \in C \ {g} : n \in W /\ n < g
      <4> HIDE DEF C, before
      <4> QED
        BY <3>2, SMT
    <3> QED
      BY <3>1, <3>3
  <2>3. Cardinality(C \ {g}) <= Cardinality(before(g)) /\ Cardinality(before(g)) \in Nat
    BY <2>2, FS_Subset, FS_CardinalityType
  <2>4. Cardinality(C \ {g}) = Cardinality(C) - 1
    <3> HIDE DEF C
    <3> QED
      BY <1>1, <2>1, FS_RemoveElement
  <2>5. Cardinality(C) <= slots
    <3> DEFINE c == Cardinality(C)
               b == Cardinality(before(g))
    <3>1. c \in Nat /\ b \in Nat /\ c - 1 <= b /\ b < slots
      BY <1>1, <2>2, <2>3, <2>4
    <3> HIDE DEF c, b
    <3>2. c <= slots
      BY <3>1, SMT
    <3> QED
      BY <3>2 DEF c
  <2> QED
    BY <1>1, <2>5
<1> QED
  BY <1>1, <1>2, <1>3

\* The effect that starts recoveries fills free slots with messages none of
\* the recoveries in flight is about, in the version the row shows.
LEMMA StartFits ==
  ASSUME NEW S \in SUBSET Recoveries, Flight(S), startRecoveries(S),
         rows' \in [Messages -> Entries]
  PROVE  /\ Flight(recovering')
         /\ \A r \in recovering' : r \in S \/ /\ r \in Recoveries
                                              /\ r.ver = rows'[r.of].ver
<1> DEFINE slots == BACKGROUND_RECOVERY_CONCURRENCY - Cardinality(S)
           wanted == {m \in Messages : /\ shouldRecoverMetadataFromBody(m)
                                       /\ m \notin {r.of : r \in S}
                                       /\ tried[m] # rows'[m].ver}
           chosen == {m \in wanted : Cardinality({n \in wanted : n < m}) < slots}
           start == [m \in chosen |-> [of |-> m, ver |-> rows'[m].ver, stage |-> "cache"]]
           new == {start[m] : m \in chosen}
<1>1. recovering' = S \cup new
  BY DEF startRecoveries
<1>2. Cardinality(S) \in Nat /\ slots \in Nat
  <2>1. Cardinality(S) \in Nat /\ Cardinality(S) <= BACKGROUND_RECOVERY_CONCURRENCY
        /\ BACKGROUND_RECOVERY_CONCURRENCY \in Nat
    BY ViewAssumption, FS_CardinalityType DEF Flight
  <2> QED
    BY <2>1, SMT
<1>3. IsFiniteSet(chosen) /\ Cardinality(chosen) <= slots
  <2>1. wanted \in SUBSET Messages
    OBVIOUS
  <2> HIDE DEF wanted, slots
  <2> QED
    BY <1>2, <2>1, ChosenFit
<1>4. \A m \in chosen : m \in Messages /\ \A r \in S : r.of # m
  OBVIOUS
<1> HIDE DEF chosen, slots
<1>5. \A r \in new : /\ r \in Recoveries /\ r.of \in chosen /\ r = start[r.of]
                     /\ r.ver = rows'[r.of].ver
  BY <1>4, SMT DEF Recoveries, Entries, Versions
<1>6. IsFiniteSet(new) /\ Cardinality(new) <= Cardinality(chosen)
  <2>1. start \in Surjection(chosen, new)
    BY DEF Surjection
  <2> QED
    BY <1>3, <2>1, FS_Surjection
<1> HIDE DEF start, new
<1>7. S \cap new = {}
  BY <1>4, <1>5
<1>8. IsFiniteSet(recovering') /\ Cardinality(recovering') <= BACKGROUND_RECOVERY_CONCURRENCY
  <2>1. /\ IsFiniteSet(S \cup new)
        /\ Cardinality(S \cup new) = Cardinality(S) + Cardinality(new) - Cardinality({})
    BY <1>6, <1>7, FS_Union DEF Flight
  <2>2. Cardinality({}) = 0 /\ Cardinality(new) \in Nat /\ Cardinality(chosen) \in Nat
    BY <1>3, <1>6, FS_EmptySet, FS_CardinalityType
  <2> DEFINE a == Cardinality(S)
             b == Cardinality(new)
             c == Cardinality(chosen)
             u == Cardinality(S \cup new)
  <2>3. /\ a \in Nat /\ b \in Nat /\ c \in Nat /\ u = a + b - 0 /\ b <= c
        /\ c <= BACKGROUND_RECOVERY_CONCURRENCY - a
        /\ BACKGROUND_RECOVERY_CONCURRENCY \in Nat
    BY <1>2, <1>3, <1>6, <2>1, <2>2, ViewAssumption DEF slots
  <2> HIDE DEF a, b, c, u
  <2>4. u <= BACKGROUND_RECOVERY_CONCURRENCY
    BY <2>3, SMT
  <2> QED
    BY <1>1, <2>1, <2>4 DEF u
<1>9. ASSUME NEW r \in recovering', NEW s \in recovering', r.of = s.of
      PROVE  r = s
  <2>1. CASE r \in S /\ s \in S
    BY <1>9, <2>1 DEF Flight
  <2>2. CASE r \in new /\ s \in new
    BY <1>5, <1>9, <2>2
  <2>3. CASE (r \in S /\ s \in new) \/ (r \in new /\ s \in S)
    BY <1>4, <1>5, <1>9, <2>3
  <2> QED
    BY <1>1, <2>1, <2>2, <2>3
<1> QED
  BY <1>1, <1>5, <1>8, <1>9 DEF Flight

\* The fields of a mail, as the constants are assumed.
LEMMA MailFields ==
  ASSUME MailOK, NEW m \in Messages
  PROVE  /\ mail[m] \in Mails
         /\ mail[m].hdrs \in BOOLEAN /\ mail[m].stub \in BOOLEAN
         /\ mail[m].from \in Addresses /\ mail[m].from # None
         /\ mail[m].outer \in Keys \cup {None} /\ mail[m].inner \in Keys \cup {None}
<1>1. mail[m] \in Mails
  BY DEF MailOK
<1> QED
  BY <1>1, ViewAssumption

\* A recovered header goes into the row of its own message: no version
\* changes, and the row names the sender as the message does.
LEMMA RecoverRow ==
  ASSUME MailOK, ListOK, NEW m \in Messages, NEW ver, NEW cached,
         recoverMessageMetadata(m, ver, m, cached)
  PROVE  /\ rows' \in [Messages -> Entries]
         /\ \A x \in Messages : /\ rows'[x].ver = rows[x].ver
                                /\ rows'[x].good => rows[x].good \/ mail[x].hdrs
<1>1. rows' = [rows EXCEPT ![m].good = rows[m].good \/ mail[m].hdrs]
  BY DEF recoverMessageMetadata
<1>2. rows \in [Messages -> Entries] /\ mail[m].hdrs \in BOOLEAN
  BY MailFields DEF ListOK
<1> QED
  BY <1>1, <1>2, SMT DEF Entries

\* The server's header of a message only gets newer, and keeps its sender.
LEMMA ServerGrows ==
  ASSUME IInv, [Next]_vars
  PROVE  /\ mail' = mail /\ server' \in [Messages -> Entries]
         /\ \A m \in Messages : /\ server[m].ver <= server'[m].ver
                                /\ server[m].good => server'[m].good
<1>1. mail' = mail /\ (UNCHANGED server \/ \E w \in saves : refreshMessageHeader(w))
  BY DEF vars, store, Next, Reader, Answer, FetchList, RetryDecrypt, onTrustSigner, OpenMessage,
     Distrust, Reply, ApplyList, TrustSaved, TrustFails, CacheMiss, CacheHit, BlobDecrypted,
     BlobFails, SigBlob, KeysFound, OuterVerified, OuterFails, NestedVerified, SaveHeader,
     SaveEnvelope, refreshMessageHeader, SaveFails, RecoverFromCache, RecoverFromBlob,
     RecoveryFails
<1>2. server \in [Messages -> Entries]
  BY DEF IInv, ListOK
<1>3. CASE UNCHANGED server
  BY <1>1, <1>2, <1>3, SMT DEF Entries, Versions
<1>4. ASSUME NEW w \in saves, refreshMessageHeader(w)
      PROVE  /\ server' \in [Messages -> Entries]
             /\ \A m \in Messages : /\ server[m].ver <= server'[m].ver
                                    /\ server[m].good => server'[m].good
  <2>1. w.of \in Messages
    BY DEF IInv, AskedOK, Saves
  <2>2. server' = [server EXCEPT ![w.of] = [ver |-> server[w.of].ver + 1, good |-> TRUE]]
    BY <1>4 DEF refreshMessageHeader
  <2> QED
    BY <1>2, <2>1, <2>2, SMT DEF Entries, Versions
<1> QED
  BY <1>1, <1>3, <1>4

\* What was known of a message, or asked of it, still is after a step.
LEMMA KnownStays ==
  ASSUME IInv, [Next]_vars, NEW m \in Messages, NEW e, e.ver \in Nat
  PROVE  /\ e.ver <= server[m].ver => e.ver <= server'[m].ver
         /\ (e.good => server[m].good \/ mail[m].hdrs)
              => (e.good => server'[m].good \/ mail'[m].hdrs)
<1>1. server[m].ver \in Nat /\ server'[m].ver \in Nat /\ server[m].ver <= server'[m].ver
  <2>1. server[m] \in Entries /\ server'[m] \in Entries
    BY ServerGrows DEF IInv, ListOK
  <2> QED
    BY <2>1, ServerGrows DEF Entries, Versions
<1>2. e.ver <= server[m].ver => e.ver <= server'[m].ver
  BY <1>1, SMT
<1> QED
  BY <1>2, ServerGrows

-----------------------------------------------------------------------------
(* The initial state.                                                      *)

\* The invariant holds when the folder is opened: nothing is cached, asked for
\* or checked yet.
LEMMA InitIInv == Init => IInv
<1> SUFFICES ASSUME Init PROVE IInv
  OBVIOUS
<1>1. MailOK
  BY DEF Init, MailOK
<1>2. ListOK
  <2>1. server \in [Messages -> Entries] /\ rows \in [Messages -> Entries] /\ load = server
        /\ hdrCache = [m \in Messages |-> None]
    <3>1. \A m \in Messages : mail[m].stub \in BOOLEAN
      BY <1>1, MailFields
    <3> QED
      BY <3>1, SMT DEF Init, Entries, Versions
  <2>2. \A m \in Messages : rows[m] = [ver |-> 0, good |-> FALSE] /\ server[m].ver = 1
    BY DEF Init
  <2>3. \A m \in Messages : Known(m, rows[m]) /\ Known(m, server[m])
    BY <2>2, SMT DEF Known
  <2> QED
    BY <2>1, <2>3 DEF ListOK
<1>3. AskedOK
  BY DEF Init, AskedOK
<1>4. CacheOK
  BY DEF Init, CacheOK, CacheIsOwn
<1>5. PaneOK
  BY DEF Init, PaneOK, ShownIsParsed
<1>6. CheckOK
  <2>1. run \in Nat /\ contact \in [Addresses -> Keys \cup {None}]
    BY SMT DEF Init
  <2> QED
    BY <2>1 DEF Init, CheckOK, TrustIsEarned
<1>7. Flight(recovering)
  <2>1. IsFiniteSet({}) /\ Cardinality({}) = 0 /\ BACKGROUND_RECOVERY_CONCURRENCY \in Nat
    BY FS_EmptySet, ViewAssumption
  <2>2. 0 <= BACKGROUND_RECOVERY_CONCURRENCY
    BY <2>1, SMT
  <2> QED
    BY <2>1, <2>2 DEF Init, Flight
<1>8. DraftOK
  BY DEF Init, DraftOK, ReplyReachesAll
<1> QED
  BY <1>1, <1>2, <1>3, <1>4, <1>5, <1>6, <1>7, <1>8 DEF IInv

-----------------------------------------------------------------------------
(* One lemma per part of the invariant: what a step leaves of it.          *)

\* The steps that change the list on screen, the answer on its way or the
\* header cache.
LEMMA ListMoves ==
  ASSUME [Next]_vars
  PROVE  \/ UNCHANGED <<rows, load, hdrCache>>
         \/ FetchList \/ ApplyList
         \/ \E d \in decrypts : CacheHit(d) \/ BlobDecrypted(d)
         \/ \E w \in saves : SaveHeader(w)
         \/ \E r \in recovering : RecoverFromCache(r) \/ RecoverFromBlob(r)
BY DEF vars, store, Next, Reader, Answer, RetryDecrypt, onTrustSigner, OpenMessage,
   Distrust, Reply, TrustSaved, TrustFails, CacheMiss, BlobFails, SigBlob, KeysFound,
   OuterVerified, OuterFails, NestedVerified, SaveEnvelope, refreshMessageHeader, SaveFails,
   RecoveryFails

\* Every step that recovers a header does so from the message's own content.
LEMMA OwnContent ==
  ASSUME IInv
  PROVE  /\ \A d \in decrypts : /\ d.of \in Messages
                                /\ CachedEnvelope(d) => envCache[d.of].of = d.of
         /\ \A r \in recovering :
              /\ r.of \in Messages
              /\ unwrapVersionedPayload(envCache[r.of], r.ver) => envCache[r.of].of = r.of
<1>1. /\ \A d \in decrypts : d.of \in Messages
      /\ \A r \in recovering : r.of \in Messages
  BY DEF IInv, AskedOK, Decrypts, Recoveries
<1>2. \A m \in Messages : envCache[m] # None => envCache[m].of = m
  BY DEF IInv, CacheOK, CacheIsOwn
<1> QED
  BY <1>1, <1>2 DEF CachedEnvelope, unwrapVersionedPayload

\* A recovery, in the pane or in the background, touches no version and names
\* a sender only from the protected headers of the row's own message.
LEMMA RecoveredRows ==
  ASSUME IInv,
         \/ \E d \in decrypts : CacheHit(d) \/ BlobDecrypted(d)
         \/ \E r \in recovering : RecoverFromCache(r) \/ RecoverFromBlob(r)
  PROVE  /\ UNCHANGED <<load, hdrCache>>
         /\ rows' \in [Messages -> Entries]
         /\ \A x \in Messages : /\ rows'[x].ver = rows[x].ver
                                /\ rows'[x].good => rows[x].good \/ mail[x].hdrs
<1>1. /\ UNCHANGED <<load, hdrCache>>
      /\ \/ UNCHANGED rows
         \/ \E m \in Messages : \E ver, cached : recoverMessageMetadata(m, ver, m, cached)
  <2>1. ASSUME NEW d \in decrypts, CacheHit(d) \/ BlobDecrypted(d)
        PROVE  <1>1!2!2 /\ <1>1!1
    BY <2>1, OwnContent DEF CacheHit, BlobDecrypted
  <2>2. ASSUME NEW r \in recovering, RecoverFromCache(r) \/ RecoverFromBlob(r)
        PROVE  <1>1!2 /\ <1>1!1
    BY <2>2, OwnContent DEF RecoverFromCache, RecoverFromBlob
  <2> QED
    BY <2>1, <2>2
<1>2. MailOK /\ ListOK /\ rows \in [Messages -> Entries]
  BY DEF IInv, ListOK
<1> QED
  BY <1>1, <1>2, RecoverRow

\* Every step keeps the headers known: no copy of one gets ahead of the
\* server's.
LEMMA ListStep == IInv /\ [Next]_vars => ListOK'
<1> SUFFICES ASSUME IInv, [Next]_vars PROVE ListOK'
  OBVIOUS
<1>0. /\ server' \in [Messages -> Entries] /\ mail' = mail
      /\ rows \in [Messages -> Entries]
      /\ hdrCache \in [Messages -> Entries \cup {None}]
      /\ load = None \/ load \in [Messages -> Entries]
      /\ \A m \in Messages : /\ Known(m, rows[m])
                             /\ load # None => Known(m, load[m])
                             /\ hdrCache[m] # None => Known(m, hdrCache[m])
  BY ServerGrows DEF IInv, ListOK
<1> DEFINE KnownNow(m, e) == /\ e.ver <= server'[m].ver
                             /\ e.good => server'[m].good \/ mail'[m].hdrs
<1>1. ASSUME NEW m \in Messages, NEW e \in Entries, Known(m, e)
      PROVE  KnownNow(m, e)
  <2>1. e.ver \in Nat
    BY DEF Entries, Versions
  <2> QED
    BY <1>1, <2>1, KnownStays DEF Known
<1>2. ASSUME UNCHANGED <<rows, load, hdrCache>>
      PROVE  ListOK'
  BY <1>0, <1>1, <1>2 DEF ListOK, Known
<1>3. CASE FetchList
  <2>1. UNCHANGED <<rows, hdrCache>> /\ load' = server /\ server' = server
    BY <1>3 DEF FetchList
  <2>2. \A m \in Messages : server[m].ver <= server[m].ver
    BY <1>0, <2>1, SMT DEF Entries, Versions
  <2> QED
    BY <1>0, <1>1, <2>1, <2>2 DEF ListOK, Known
<1>4. CASE ApplyList
  <2> DEFINE good(m) == \/ load[m].good
                        \/ unwrapVersionedPayload(hdrCache[m], load[m].ver) /\ hdrCache[m].good
             fresh(m) == [ver |-> load[m].ver, good |-> good(m)]
  <2>1. /\ load # None /\ load' = None
        /\ rows' = [m \in Messages |-> fresh(m)] /\ hdrCache' = [m \in Messages |-> fresh(m)]
    BY <1>4 DEF ApplyList
  <2>2. ASSUME NEW m \in Messages
        PROVE  fresh(m) \in Entries /\ Known(m, fresh(m))
    <3>1. load[m] \in Entries /\ Known(m, load[m])
      BY <1>0, <2>1
    <3>2. hdrCache[m] # None => hdrCache[m] \in Entries /\ Known(m, hdrCache[m])
      BY <1>0
    <3>3. load[m].ver \in Nat /\ load[m].good \in BOOLEAN
      BY <3>1 DEF Entries, Versions
    <3>4. good(m) \in BOOLEAN
      BY <3>2, <3>3 DEF Entries, unwrapVersionedPayload
    <3>5. fresh(m) \in Entries
      BY <3>3, <3>4 DEF Entries, Versions
    <3>6. fresh(m).ver = load[m].ver /\ fresh(m).good = good(m)
      OBVIOUS
    <3>7. good(m) => server[m].good \/ mail[m].hdrs
      BY <3>1, <3>2 DEF Known, unwrapVersionedPayload
    <3> HIDE DEF fresh, good
    <3> QED
      BY <3>1, <3>5, <3>6, <3>7 DEF Known
  <2> HIDE DEF fresh
  <2> QED
    BY <1>0, <1>1, <2>1, <2>2 DEF ListOK, Known
<1>5. CASE \/ \E d \in decrypts : CacheHit(d) \/ BlobDecrypted(d)
           \/ \E r \in recovering : RecoverFromCache(r) \/ RecoverFromBlob(r)
  <2>1. /\ UNCHANGED <<load, hdrCache>>
        /\ rows' \in [Messages -> Entries]
        /\ \A x \in Messages : /\ rows'[x].ver = rows[x].ver
                               /\ rows'[x].good => rows[x].good \/ mail[x].hdrs
    BY <1>5, RecoveredRows
  <2>2. \A m \in Messages : rows'[m] \in Entries /\ Known(m, rows'[m])
    BY <1>0, <2>1 DEF Known
  <2> QED
    BY <1>0, <1>1, <2>1, <2>2 DEF ListOK, Known
<1>6. ASSUME NEW w \in saves, SaveHeader(w)
      PROVE  ListOK'
  <2> DEFINE e == [ver |-> w.ver, good |-> mail[w.content].hdrs]
  <2>1. w \in Saves /\ w.content = w.of /\ w.ver <= server[w.of].ver
    BY DEF IInv, AskedOK, Asked
  <2>2. w.of \in Messages /\ w.ver \in Versions
    BY <2>1 DEF Saves
  <2>3. e \in Entries /\ e.ver = w.ver /\ e.good = mail[w.of].hdrs
    BY <2>1, <2>2, MailFields DEF Entries, IInv
  <2> HIDE DEF e
  <2>4. UNCHANGED <<rows, load>> /\ hdrCache' = [hdrCache EXCEPT ![w.of] = e]
    BY <1>6 DEF SaveHeader, e
  <2>5. Known(w.of, e)
    BY <2>1, <2>3 DEF Known
  <2>6. /\ hdrCache' \in [Messages -> Entries \cup {None}]
        /\ \A m \in Messages : hdrCache'[m] = IF m = w.of THEN e ELSE hdrCache[m]
    BY <1>0, <2>2, <2>3, <2>4
  <2>7. \A m \in Messages : hdrCache'[m] # None => hdrCache'[m] \in Entries /\ Known(m, hdrCache'[m])
    BY <1>0, <2>2, <2>3, <2>5, <2>6
  <2> QED
    BY <1>0, <1>1, <2>4, <2>6, <2>7 DEF ListOK, Known
<1> QED
  BY <1>2, <1>3, <1>4, <1>5, <1>6, ListMoves

\* A decryption of the next state is one of this state, at another stage at
\* most, or a new one of the version the row shows.
LEMMA DecryptMoves ==
  ASSUME IInv, [Next]_vars, rows' \in [Messages -> Entries], NEW e \in decrypts'
  PROVE  /\ e \in Decrypts
         /\ (\E d \in decrypts : e.of = d.of /\ e.ver = d.ver) \/ e.ver = rows'[e.of].ver
<1> DEFINE fresh(m) == [of |-> m, ver |-> rows'[m].ver, good |-> rows'[m].good, stage |-> "cache"]
           old == (\E d \in decrypts : e = d)
           moved == \E d \in decrypts : \E st \in {"blob", "sigblob"} : e = [d EXCEPT !.stage = st]
           new == \E m \in Messages : e = fresh(m)
<1>1. ASSUME NEW sel, NEW bod, NEW err, NEW bsy, NEW att, NEW dec,
             Render(sel, bod, err, bsy, att, dec), sel \in Messages \cup {None},
             dec \subseteq decrypts
      PROVE  old \/ new
  <2>1. CASE decrypts' = dec
    BY <1>1, <2>1
  <2>2. CASE sel # None /\ decrypts' = dec \cup {fresh(sel)}
    BY <1>1, <2>2
  <2> QED
    BY <1>1, <2>1, <2>2 DEF Render
<1>2. selected \in Messages \cup {None} /\ (selected # None => selected \in Messages)
  BY DEF IInv, PaneOK
<1>3. ASSUME UNCHANGED decrypts PROVE old
  BY <1>3
<1>4. ASSUME NEW m \in Messages \cup {None}, OpenMessage(m)
      PROVE  old \/ new
  BY <1>1, <1>4 DEF OpenMessage
<1>5. ASSUME RetryDecrypt PROVE old \/ new
  <2>1. rows' = rows /\ selected \in Messages
    BY <1>2, <1>5 DEF RetryDecrypt, store
  <2>2. e \in decrypts \/ e = fresh(selected)
    BY <1>5, <2>1 DEF RetryDecrypt
  <2> QED
    BY <2>1, <2>2
<1>6. ASSUME NEW d \in decrypts, CacheMiss(d) \/ CacheHit(d)
      PROVE  old \/ moved
  <2>1. \E st \in {"blob", "sigblob"} : decrypts' = (decrypts \ {d}) \cup {[d EXCEPT !.stage = st]}
    BY <1>6 DEF CacheMiss, CacheHit
  <2> QED
    BY <2>1
<1>7. ASSUME NEW d \in decrypts, BlobDecrypted(d) \/ BlobFails(d) \/ SigBlob(d)
      PROVE  old \/ new
  <2>1. PICK bod, err, bsy, att : Render(selected, bod, err, bsy, att, decrypts \ {d})
    BY <1>7 DEF BlobDecrypted, BlobFails, SigBlob
  <2>2. decrypts \ {d} \subseteq decrypts
    OBVIOUS
  <2> HIDE DEF old, new
  <2> QED
    BY <1>1, <1>2, <2>1, <2>2
<1>8. old \/ moved \/ new
  BY <1>3, <1>4, <1>5, <1>6, <1>7
  DEF vars, pane, Next, Reader, Answer, FetchList, onTrustSigner,
     Distrust, Reply, ApplyList, TrustSaved, TrustFails,
     KeysFound, OuterVerified, OuterFails, NestedVerified, SaveHeader,
     SaveEnvelope, refreshMessageHeader, SaveFails, RecoverFromCache, RecoverFromBlob,
     RecoveryFails
<1>9. \A d \in decrypts : d \in Decrypts
  BY DEF IInv, AskedOK
<1>10. CASE old
  BY <1>9, <1>10
<1>11. CASE moved
  <2>1. PICK d \in decrypts, st \in {"blob", "sigblob"} : e = [d EXCEPT !.stage = st]
    BY <1>11
  <2>2. d \in Decrypts
    BY <1>9
  <2>3. e \in Decrypts /\ e.of = d.of /\ e.ver = d.ver
    BY <2>1, <2>2, SMT DEF Decrypts
  <2> QED
    BY <2>3
<1>12. CASE new
  <2>1. PICK m \in Messages : e = fresh(m)
    BY <1>12
  <2>2. rows'[m].ver \in Versions /\ rows'[m].good \in BOOLEAN
    BY DEF Entries
  <2> QED
    BY <2>1, <2>2 DEF Decrypts
<1> QED
  BY <1>8, <1>10, <1>11, <1>12

\* A write of the next state is one of this state, at another stage at most,
\* or a new one of what a decryption or a recovery of this state has found.
LEMMA SaveMoves ==
  ASSUME IInv, [Next]_vars, NEW e \in saves'
  PROVE  /\ e \in Saves /\ e.content = e.of
         /\ \E q \in saves \cup decrypts \cup recovering : e.of = q.of /\ e.ver = q.ver
<1> DEFINE kept == e \in saves
           moved == \E w \in saves : \E st \in {"envelope", "server"} : e = [w EXCEPT !.stage = st]
           fresh(m, ver, cached) == [of |-> m, ver |-> ver, content |-> m, stage |-> "header",
                                     refresh |-> ~cached]
           new == \E q \in decrypts \cup recovering : \E cached \in BOOLEAN :
                     e = fresh(q.of, q.ver, cached)
<1>1. ASSUME NEW d \in decrypts, CacheHit(d) \/ BlobDecrypted(d)
      PROVE  kept \/ new
  <2>1. \E cached \in BOOLEAN : recoverMessageMetadata(d.of, d.ver, d.of, cached)
    BY <1>1, OwnContent DEF CacheHit, BlobDecrypted
  <2> QED
    BY <2>1 DEF recoverMessageMetadata
<1>2. ASSUME NEW r \in recovering, RecoverFromCache(r) \/ RecoverFromBlob(r)
      PROVE  kept \/ new
  <2>1. UNCHANGED saves \/ \E cached \in BOOLEAN : recoverMessageMetadata(r.of, r.ver, r.of, cached)
    BY <1>2, OwnContent DEF RecoverFromCache, RecoverFromBlob
  <2> QED
    BY <2>1 DEF recoverMessageMetadata
<1>3. ASSUME NEW w \in saves, \/ SaveHeader(w) \/ SaveEnvelope(w)
                              \/ refreshMessageHeader(w) \/ SaveFails(w)
      PROVE  kept \/ moved
  BY <1>3 DEF SaveHeader, SaveEnvelope, refreshMessageHeader, SaveFails
<1>4. kept \/ moved \/ new
  BY <1>1, <1>2, <1>3
  DEF vars, store, Next, Reader, Answer, FetchList, RetryDecrypt, onTrustSigner, OpenMessage,
     Distrust, Reply, ApplyList, TrustSaved, TrustFails, CacheMiss,
     BlobFails, SigBlob, KeysFound, OuterVerified, OuterFails, NestedVerified, RecoveryFails
<1>5. /\ \A w \in saves : w \in Saves /\ w.content = w.of
      /\ \A d \in decrypts : d \in Decrypts
      /\ \A r \in recovering : r \in Recoveries
  BY DEF IInv, AskedOK
<1>6. CASE kept
  BY <1>5, <1>6
<1>7. CASE moved
  <2>1. PICK w \in saves, st \in {"envelope", "server"} : e = [w EXCEPT !.stage = st]
    BY <1>7
  <2>2. w \in Saves /\ w.content = w.of
    BY <1>5
  <2>3. e \in Saves /\ e.of = w.of /\ e.ver = w.ver /\ e.content = w.content
    BY <2>1, <2>2, SMT DEF Saves
  <2> QED
    BY <2>2, <2>3
<1>8. CASE new
  <2>1. PICK q \in decrypts \cup recovering, cached \in BOOLEAN : e = fresh(q.of, q.ver, cached)
    BY <1>8
  <2>2. q.of \in Messages /\ q.ver \in Versions
    BY <1>5 DEF Decrypts, Recoveries
  <2> QED
    BY <2>1, <2>2 DEF Saves
<1> QED
  BY <1>4, <1>6, <1>7, <1>8

\* The recoveries of the next state fit, and each is one of this state, at
\* another stage at most, or a new one of the version the row shows.
LEMMA RecoveryMoves ==
  ASSUME IInv, [Next]_vars, rows' \in [Messages -> Entries]
  PROVE  /\ Flight(recovering')
         /\ \A e \in recovering' :
              /\ e \in Recoveries
              /\ \/ \E r \in recovering : e.of = r.of /\ e.ver = r.ver
                 \/ e.ver = rows'[e.of].ver
<1> DEFINE fine == /\ Flight(recovering')
                   /\ \A e \in recovering' :
                        /\ e \in Recoveries
                        /\ \/ \E r \in recovering : e.of = r.of /\ e.ver = r.ver
                           \/ e.ver = rows'[e.of].ver
<1>1. recovering \in SUBSET Recoveries /\ Flight(recovering)
  BY DEF IInv, AskedOK
<1>2. ASSUME NEW S \in SUBSET recovering PROVE Flight(S)
  <2>1. IsFiniteSet(recovering) /\ Cardinality(recovering) <= BACKGROUND_RECOVERY_CONCURRENCY
        /\ \A r, s \in recovering : r.of = s.of => r = s
    BY <1>1 DEF Flight
  <2>2. IsFiniteSet(S) /\ Cardinality(S) <= Cardinality(recovering)
    BY <2>1, FS_Subset
  <2>3. Cardinality(S) \in Nat /\ Cardinality(recovering) \in Nat
        /\ BACKGROUND_RECOVERY_CONCURRENCY \in Nat
    BY <2>1, <2>2, FS_CardinalityType, ViewAssumption
  <2>4. Cardinality(S) <= BACKGROUND_RECOVERY_CONCURRENCY
    BY <2>1, <2>2, <2>3, SMT
  <2> QED
    BY <2>1, <2>2, <2>4 DEF Flight
<1>3. ASSUME NEW S \in SUBSET recovering, startRecoveries(S) PROVE fine
  <2>1. S \in SUBSET Recoveries /\ Flight(S)
    BY <1>1, <1>2
  <2>2. /\ Flight(recovering')
        /\ \A r \in recovering' : r \in S \/ (r \in Recoveries /\ r.ver = rows'[r.of].ver)
    BY <1>3, <2>1, StartFits
  <2> QED
    BY <2>1, <2>2
<1>4. ASSUME NEW S \in SUBSET recovering, recovering' = S PROVE fine
  BY <1>1, <1>2, <1>4
<1>5. ASSUME NEW r \in recovering, recovering' = (recovering \ {r}) \cup {[r EXCEPT !.stage = "blob"]}
      PROVE  fine
  <2> DEFINE n == [r EXCEPT !.stage = "blob"]
             T == recovering \ {r}
  <2>1. r \in Recoveries /\ n \in Recoveries /\ n.of = r.of /\ n.ver = r.ver
    BY <1>1, SMT DEF Recoveries
  <2> HIDE DEF n
  <2>2. IsFiniteSet(recovering) /\ Cardinality(recovering) <= BACKGROUND_RECOVERY_CONCURRENCY
        /\ \A s, t \in recovering : s.of = t.of => s = t
    BY <1>1 DEF Flight
  <2>3. IsFiniteSet(T) /\ Cardinality(T) = Cardinality(recovering) - 1
    BY <2>2, FS_RemoveElement
  <2>4. n \notin T
    BY <2>1, <2>2
  <2>5. recovering' = T \cup {n}
    BY <1>5 DEF n
  <2> HIDE DEF T
  <2>6. IsFiniteSet(T \cup {n}) /\ Cardinality(T \cup {n}) = Cardinality(T) + 1
    BY <2>3, <2>4, FS_AddElement
  <2>7. Cardinality(recovering') <= BACKGROUND_RECOVERY_CONCURRENCY
    <3>1. Cardinality(recovering) \in Nat
      BY <2>2, FS_CardinalityType
    <3>2. Cardinality(recovering') = (Cardinality(recovering) - 1) + 1
      BY <2>3, <2>5, <2>6
    <3>3. Cardinality(recovering') = Cardinality(recovering)
      BY <3>1, <3>2, SMT
    <3> QED
      BY <2>2, <3>3
  <2>8. \A s \in T : s \in recovering /\ s # r
    BY DEF T
  <2>9. \A s, t \in recovering' : s.of = t.of => s = t
    BY <2>1, <2>2, <2>5, <2>8, ZenonT(30)
  <2>10. Flight(recovering')
    BY <2>5, <2>6, <2>7, <2>9 DEF Flight
  <2> QED
    BY <1>1, <2>1, <2>5, <2>8, <2>10
<1>6. ASSUME NEW r \in recovering,
             RecoverFromCache(r) \/ RecoverFromBlob(r) \/ RecoveryFails(r)
      PROVE  fine
  <2>1. recovering \ {r} \in SUBSET recovering
    OBVIOUS
  <2>2. \/ startRecoveries(recovering \ {r})
        \/ recovering' = recovering \ {r}
        \/ recovering' = (recovering \ {r}) \cup {[r EXCEPT !.stage = "blob"]}
    BY <1>6 DEF RecoverFromCache, RecoverFromBlob, RecoveryFails
  <2> HIDE DEF fine
  <2> QED
    BY <1>3, <1>4, <1>5, <2>1, <2>2
<1>7. \/ startRecoveries(recovering) \/ recovering' = recovering
      \/ \E r \in recovering : RecoverFromCache(r) \/ RecoverFromBlob(r) \/ RecoveryFails(r)
  BY DEF vars, store, Next, Reader, Answer, FetchList, RetryDecrypt, onTrustSigner, OpenMessage,
     Distrust, Reply, ApplyList, TrustSaved, TrustFails, CacheMiss, CacheHit, BlobDecrypted,
     BlobFails, SigBlob, KeysFound, OuterVerified, OuterFails, NestedVerified, SaveHeader,
     SaveEnvelope, refreshMessageHeader, SaveFails
<1>8. fine
  <2>1. recovering \in SUBSET recovering
    OBVIOUS
  <2> HIDE DEF fine
  <2> QED
    BY <1>3, <1>4, <1>6, <1>7, <2>1
<1> QED
  BY <1>8

\* Every step keeps the requests in flight about versions the server has had,
\* and the recoveries within their slots.
LEMMA AskedStep == IInv /\ [Next]_vars => AskedOK' /\ Flight(recovering)'
<1> SUFFICES ASSUME IInv, [Next]_vars PROVE AskedOK' /\ Flight(recovering)'
  OBVIOUS
<1>1. /\ rows' \in [Messages -> Entries] /\ server' \in [Messages -> Entries]
      /\ \A m \in Messages : rows'[m].ver <= server'[m].ver
  BY ListStep DEF ListOK, Known
<1>2. ASSUME NEW q, NEW e, q.of \in Messages, q.ver \in Versions, Asked(q),
             e.of = q.of, e.ver = q.ver
      PROVE  e.ver <= server'[e.of].ver
  BY <1>2, KnownStays DEF Asked, Versions
<1>3. ASSUME NEW e \in decrypts' PROVE e \in Decrypts /\ Asked(e)'
  <2>1. /\ e \in Decrypts
        /\ (\E d \in decrypts : e.of = d.of /\ e.ver = d.ver) \/ e.ver = rows'[e.of].ver
    BY <1>1, DecryptMoves
  <2>2. \A d \in decrypts : d.of \in Messages /\ d.ver \in Versions /\ Asked(d)
    BY DEF IInv, AskedOK, Decrypts
  <2>3. e.of \in Messages
    BY <2>1 DEF Decrypts
  <2> QED
    BY <1>1, <1>2, <2>1, <2>2, <2>3 DEF Asked
<1>4. ASSUME NEW e \in saves' PROVE e \in Saves /\ Asked(e)' /\ e.content = e.of
  <2>1. /\ e \in Saves /\ e.content = e.of
        /\ \E q \in saves \cup decrypts \cup recovering : e.of = q.of /\ e.ver = q.ver
    BY SaveMoves
  <2>2. \A q \in saves \cup decrypts \cup recovering :
           q.of \in Messages /\ q.ver \in Versions /\ Asked(q)
    BY DEF IInv, AskedOK, Decrypts, Saves, Recoveries
  <2> QED
    BY <1>2, <2>1, <2>2 DEF Asked
<1>5. ASSUME NEW e \in recovering' PROVE e \in Recoveries /\ Asked(e)'
  <2>1. /\ e \in Recoveries
        /\ (\E r \in recovering : e.of = r.of /\ e.ver = r.ver) \/ e.ver = rows'[e.of].ver
    BY <1>1, RecoveryMoves
  <2>2. \A r \in recovering : r.of \in Messages /\ r.ver \in Versions /\ Asked(r)
    BY DEF IInv, AskedOK, Recoveries
  <2>3. e.of \in Messages
    BY <2>1 DEF Recoveries
  <2> QED
    BY <1>1, <1>2, <2>1, <2>2, <2>3 DEF Asked
<1>6. Flight(recovering)'
  BY <1>1, RecoveryMoves DEF Flight
<1> QED
  BY <1>3, <1>4, <1>5, <1>6 DEF AskedOK

\* Every step keeps the envelope cache own: only SaveEnvelope writes it.
LEMMA CacheStep == IInv /\ [Next]_vars => CacheOK'
<1> SUFFICES ASSUME IInv, [Next]_vars PROVE CacheOK'
  OBVIOUS
<1>0. /\ envCache \in [Messages -> EnvEntries \cup {None}] /\ mail' = mail
      /\ \A m \in Messages : envCache[m] # None =>
           /\ envCache[m] \in EnvEntries
           /\ envCache[m].of = m
           /\ envCache[m].env = Envelope[mail[m]]
           /\ envCache[m].ver <= server[m].ver
  BY ServerGrows DEF IInv, CacheOK, CacheIsOwn
<1>1. ASSUME NEW m \in Messages, NEW e \in EnvEntries, e.ver <= server[m].ver
      PROVE  e.ver <= server'[m].ver
  <2>1. e.ver \in Nat
    BY DEF EnvEntries, Versions
  <2> QED
    BY <1>1, <2>1, KnownStays
<1>2. ASSUME UNCHANGED envCache PROVE CacheOK'
  BY <1>0, <1>1, <1>2 DEF CacheOK, CacheIsOwn
<1>3. ASSUME NEW w \in saves, SaveEnvelope(w)
      PROVE  CacheOK'
  <2> DEFINE e == [ver |-> w.ver, of |-> w.content, env |-> Envelope[mail[w.content]]]
  <2>1. w \in Saves /\ w.content = w.of /\ w.ver <= server[w.of].ver
    BY DEF IInv, AskedOK, Asked
  <2>2. w.of \in Messages /\ w.ver \in Versions
    BY <2>1 DEF Saves
  <2>3. Envelope[mail[w.of]] \in Envelopes
    BY <2>2, MailFields DEF Envelopes, IInv
  <2>4. /\ e \in EnvEntries /\ e.of = w.of /\ e.ver = w.ver
        /\ e.env = Envelope[mail[w.of]]
    BY <2>1, <2>2, <2>3 DEF EnvEntries
  <2> HIDE DEF e
  <2>5. envCache' = [envCache EXCEPT ![w.of] = e]
    BY <1>3 DEF SaveEnvelope, e
  <2>6. /\ envCache' \in [Messages -> EnvEntries \cup {None}]
        /\ \A m \in Messages : envCache'[m] = IF m = w.of THEN e ELSE envCache[m]
    BY <1>0, <2>2, <2>4, <2>5
  <2>7. \A m \in Messages : envCache'[m] # None =>
           /\ envCache'[m] \in EnvEntries
           /\ envCache'[m].of = m
           /\ envCache'[m].env = Envelope[mail[m]]
           /\ envCache'[m].ver <= server[m].ver
    BY <1>0, <2>1, <2>4, <2>6
  <2> QED
    BY <1>0, <1>1, <2>6, <2>7 DEF CacheOK, CacheIsOwn
<1>4. UNCHANGED envCache \/ \E w \in saves : SaveEnvelope(w)
  BY DEF vars, store, Next, Reader, Answer, FetchList, RetryDecrypt, onTrustSigner, OpenMessage,
     Distrust, Reply, ApplyList, TrustSaved, TrustFails, CacheMiss, CacheHit, BlobDecrypted,
     BlobFails, SigBlob, KeysFound, OuterVerified, OuterFails, NestedVerified, SaveHeader,
     refreshMessageHeader, SaveFails, RecoverFromCache, RecoverFromBlob, RecoveryFails
<1> QED
  BY <1>2, <1>3, <1>4

\* The pane after a render: the automatic decryption starts only in a pane
\* that was idle.
LEMMA RenderKeeps ==
  ASSUME MailOK, mail' = mail, NEW sel \in Messages \cup {None}, NEW bod, NEW err \in BOOLEAN,
         NEW bsy \in BOOLEAN, NEW att \in Messages \cup {None}, NEW dec,
         Render(sel, bod, err, bsy, att, dec),
         bod = None \/ (bod \in Bodies /\ bod.env = Envelope[mail[bod.of]]),
         bsy => \E d \in dec : dec = {d},
         ~bsy => dec = {}
  PROVE  PaneOK'
<1> DEFINE auto == sel # None /\ ~bsy /\ bod = None /\ att # sel
           e == [of |-> sel, ver |-> rows'[sel].ver, good |-> rows'[sel].good, stage |-> "cache"]
<1>1. /\ selected' = sel /\ body' = bod
      /\ bodyErr' = (err /\ ~auto) /\ busy' = (bsy \/ auto)
      /\ attempted' = IF auto THEN sel ELSE att
      /\ decrypts' = IF auto THEN dec \cup {e} ELSE dec
  BY DEF Render
<1>2. auto \in BOOLEAN
  OBVIOUS
<1> HIDE DEF e
<1>3. /\ busy' => \E d \in decrypts' : decrypts' = {d}
      /\ ~busy' => decrypts' = {}
  <2>1. CASE auto
    <3>1. decrypts' = {e} /\ busy'
      BY <1>1, <2>1
    <3> QED
      BY <3>1
  <2>2. CASE ~auto
    BY <1>1, <2>2
  <2> QED
    BY <2>1, <2>2
<1>4. selected' \in Messages \cup {None} /\ attempted' \in Messages \cup {None}
  BY <1>1
<1>5. bodyErr' \in BOOLEAN /\ busy' \in BOOLEAN
  <2> HIDE DEF auto
  <2> QED
    BY <1>1, <1>2
<1>6. body' = None \/ body' \in Bodies
  BY <1>1
<1>7. ShownIsParsed'
  BY <1>1 DEF ShownIsParsed
<1> QED
  BY <1>3, <1>4, <1>5, <1>6, <1>7 DEF PaneOK, Bodies, Envelopes

\* The same when the decryption that ran is over.
LEMMA RenderIdle ==
  ASSUME MailOK, mail' = mail, NEW sel \in Messages \cup {None}, NEW bod, NEW err \in BOOLEAN,
         NEW att \in Messages \cup {None}, Render(sel, bod, err, FALSE, att, {}),
         bod = None \/ (bod \in Bodies /\ bod.env = Envelope[mail[bod.of]])
  PROVE  PaneOK'
<1> DEFINE bsy == FALSE
           dec == {}
<1>1. bsy \in BOOLEAN /\ ~bsy /\ dec = {} /\ Render(sel, bod, err, bsy, att, dec)
  OBVIOUS
<1> HIDE DEF bsy, dec
<1>2. (bsy => \E d \in dec : dec = {d}) /\ (~bsy => dec = {})
  BY <1>1
<1> QED
  BY <1>1, <1>2, RenderKeeps

\* Every step keeps the pane busy exactly with its one decryption, and shows
\* what the reader makes of the message shown.
LEMMA PaneStep == IInv /\ [Next]_vars => PaneOK'
<1> SUFFICES ASSUME IInv, [Next]_vars PROVE PaneOK'
  OBVIOUS
<1>0. /\ mail' = mail /\ MailOK
      /\ selected \in Messages \cup {None} /\ attempted \in Messages \cup {None}
      /\ bodyErr \in BOOLEAN /\ busy \in BOOLEAN
      /\ body = None \/ (body \in Bodies /\ body.env = Envelope[mail[body.of]])
      /\ busy => \E d \in decrypts : decrypts = {d}
      /\ ~busy => decrypts = {}
  BY ServerGrows DEF IInv, PaneOK, ShownIsParsed
<1>1. ASSUME NEW d \in decrypts
      PROVE  busy /\ decrypts = {d} /\ decrypts \ {d} = {} /\ d.of \in Messages
  BY <1>0, OwnContent
<1>2. ASSUME UNCHANGED pane PROVE PaneOK'
  BY <1>0, <1>2 DEF PaneOK, ShownIsParsed, pane, Bodies, Envelopes
<1>3. ASSUME NEW m \in Messages \cup {None}, OpenMessage(m)
      PROVE  PaneOK'
  <2>1. Render(m, None, FALSE, busy, None, decrypts)
    BY <1>3 DEF OpenMessage
  <2> QED
    BY <1>0, <2>1, RenderKeeps
<1>4. CASE RetryDecrypt
  <2> DEFINE e == [of |-> selected, ver |-> rows[selected].ver, good |-> rows[selected].good,
                   stage |-> "cache"]
  <2>1. ~busy /\ busy' = TRUE /\ bodyErr' = FALSE /\ decrypts' = decrypts \cup {e}
        /\ UNCHANGED <<selected, body, attempted>>
    BY <1>4 DEF RetryDecrypt
  <2> HIDE DEF e
  <2>2. decrypts' = {e}
    BY <1>0, <2>1
  <2> QED
    BY <1>0, <2>1, <2>2 DEF PaneOK, ShownIsParsed, Bodies, Envelopes
<1>5. ASSUME NEW d \in decrypts, CacheMiss(d)
      PROVE  PaneOK'
  <2> DEFINE e == [d EXCEPT !.stage = "blob"]
  <2>1. decrypts' = {e} /\ UNCHANGED <<selected, body, bodyErr, busy, attempted>>
    BY <1>1, <1>5 DEF CacheMiss
  <2> HIDE DEF e
  <2> QED
    BY <1>0, <1>1, <2>1 DEF PaneOK, ShownIsParsed, Bodies, Envelopes
<1>6. ASSUME NEW d \in decrypts, CacheHit(d)
      PROVE  PaneOK'
  <2> DEFINE e == [d EXCEPT !.stage = "sigblob"]
             b == [of |-> envCache[d.of].of, env |-> envCache[d.of].env]
  <2>1. decrypts' = {e} /\ body' = b /\ UNCHANGED <<selected, bodyErr, busy, attempted>>
    BY <1>1, <1>6 DEF CacheHit
  <2>2. envCache[d.of] # None
    BY <1>6 DEF CacheHit, CachedEnvelope, unwrapVersionedPayload
  <2>3. envCache[d.of] \in EnvEntries /\ envCache[d.of].of = d.of
        /\ envCache[d.of].env = Envelope[mail[d.of]]
    BY <1>1, <2>2 DEF IInv, CacheOK, CacheIsOwn
  <2>4. b \in Bodies /\ b.of = d.of /\ b.env = Envelope[mail[d.of]]
    BY <1>1, <2>3 DEF Bodies, EnvEntries
  <2> HIDE DEF e, b
  <2> QED
    BY <1>0, <1>1, <2>1, <2>4 DEF PaneOK, ShownIsParsed, Bodies, Envelopes
<1>7. ASSUME NEW d \in decrypts, BlobDecrypted(d)
      PROVE  PaneOK'
  <2> DEFINE b == [of |-> d.of, env |-> Envelope[mail[d.of]]]
  <2>1. b \in Bodies /\ b.env = Envelope[mail[b.of]]
    BY <1>0, <1>1, MailFields DEF Bodies, Envelopes
  <2>2. Render(selected, b, bodyErr, FALSE, attempted, decrypts \ {d})
    BY <1>7 DEF BlobDecrypted
  <2> HIDE DEF b
  <2>3. Render(selected, b, bodyErr, FALSE, attempted, {})
    BY <1>1, <2>2
  <2> QED
    BY <1>0, <2>1, <2>3, RenderIdle
<1>8. ASSUME NEW d \in decrypts, BlobFails(d) \/ SigBlob(d)
      PROVE  PaneOK'
  <2>1. \E err \in BOOLEAN : Render(selected, body, err, FALSE, attempted, decrypts \ {d})
    BY <1>0, <1>8 DEF BlobFails, SigBlob
  <2>2. \E err \in BOOLEAN : Render(selected, body, err, FALSE, attempted, {})
    BY <1>1, <2>1
  <2> QED
    BY <1>0, <2>2, RenderIdle
<1>9. \/ UNCHANGED pane \/ RetryDecrypt
      \/ \E m \in Messages \cup {None} : OpenMessage(m)
      \/ \E d \in decrypts : \/ CacheMiss(d) \/ CacheHit(d) \/ BlobDecrypted(d)
                             \/ BlobFails(d) \/ SigBlob(d)
  BY DEF vars, Next, Reader, Answer, FetchList, onTrustSigner,
     Distrust, Reply, ApplyList, TrustSaved, TrustFails,
     KeysFound, OuterVerified, OuterFails, NestedVerified, SaveHeader,
     SaveEnvelope, refreshMessageHeader, SaveFails, RecoverFromCache, RecoverFromBlob,
     RecoveryFails
<1> QED
  BY <1>2, <1>3, <1>4, <1>5, <1>6, <1>7, <1>8, <1>9

-----------------------------------------------------------------------------
(* The signature check.                                                    *)

\* A summary of an OpenPGP verification, and one of a signature some of the
\* given signers may have made.
Verdicts == [status: Statuses, signer: Keys \cup {None}]

MadeBy(s, signers) ==
  /\ s \in Verdicts
  /\ s.status = "verified" => s.signer \in signers /\ s.signer # None

\* The keys that come with a message are keys.
LEMMA AttachedKeys ==
  ASSUME MailOK, NEW m \in Messages
  PROVE  extractPublicKeysFromMimeAttachments(m) \subseteq Keys
<1>1. \A a \in DOMAIN mail[m].keyOf : mail[m].keyOf[a] \in Keys
  BY ViewAssumption DEF MailOK
<1> QED
  BY <1>1 DEF extractPublicKeysFromMimeAttachments

\* summarizeSignatureVerification names no signer but the one that signed.
LEMMA SummaryFits ==
  ASSUME NEW signer \in Keys \cup {None}, NEW keys
  PROVE  MadeBy(summarizeSignatureVerification(signer, keys), {signer})
<1> DEFINE s == summarizeSignatureVerification(signer, keys)
<1>1. \/ s = [status |-> "unsigned", signer |-> None]
      \/ s = [status |-> "missing_public_key", signer |-> None]
      \/ s = [status |-> "verified", signer |-> signer] /\ signer # None
      \/ s = [status |-> "bad_signature", signer |-> None]
  BY DEF summarizeSignatureVerification
<1> HIDE DEF s
<1>2. s \in Verdicts
  <2>1. \A st \in Statuses, k \in Keys \cup {None} : [status |-> st, signer |-> k] \in Verdicts
    BY DEF Verdicts
  <2>2. {"unsigned", "missing_public_key", "verified", "bad_signature"} \subseteq Statuses
    BY DEF Statuses
  <2> HIDE DEF Statuses
  <2> QED
    BY <1>1, <2>1, <2>2
<1>3. s.status = "verified" => s.signer = signer /\ s.signer # None
  BY <1>1, SMT
<1> QED
  BY <1>2, <1>3 DEF s, MadeBy

\* What the check makes of the outer and the nested signature names a signer
\* of one of the two.
LEMMA MergeFits ==
  ASSUME NEW o \in Keys \cup {None}, NEW i \in Keys \cup {None}, NEW keys
  PROVE  MadeBy(mergeNestedSignatureVerification(summarizeSignatureVerification(o, keys),
                  verifyNestedSignedPayloadAfterDecrypt(i, keys)), {o, i})
<1> DEFINE outer == summarizeSignatureVerification(o, keys)
           inner == verifyNestedSignedPayloadAfterDecrypt(i, keys)
<1>1. MadeBy(outer, {o, i})
  BY SummaryFits DEF MadeBy
<1>2. MadeBy(inner, {o, i})
  <2>1. CASE keys = {}
    BY <2>1 DEF verifyNestedSignedPayloadAfterDecrypt, MadeBy, Verdicts, Statuses
  <2>2. CASE keys # {}
    BY <2>2, SummaryFits DEF verifyNestedSignedPayloadAfterDecrypt, MadeBy
  <2> QED
    BY <2>1, <2>2
<1>3. mergeNestedSignatureVerification(outer, inner) \in {outer, inner}
  BY DEF mergeNestedSignatureVerification
<1> HIDE DEF outer, inner
<1>4. MadeBy(mergeNestedSignatureVerification(outer, inner), {o, i})
  BY <1>1, <1>2, <1>3
<1> QED
  BY <1>4 DEF outer, inner

\* A badge says TRUSTED only of the sender's own identity key, or of the
\* contact's key the check found.
LEMMA BadgeFits ==
  ASSUME MailOK, NEW v \in Verifies, NEW signers, NEW merged, MadeBy(merged, signers)
  PROVE  /\ Badge(v, merged) \in Sigs
         /\ Badge(v, merged).of = v.of /\ Badge(v, merged).sender = v.sender
         /\ Badge(v, merged).trust = "trusted" =>
              /\ Badge(v, merged).signer \in signers
              /\ \/ v.sender \in Self /\ Badge(v, merged).signer = LocalKey[v.sender]
                 \/ v.contact # None /\ Badge(v, merged).signer = v.contact
<1> DEFINE b == Badge(v, merged)
           own == v.sender \in Self /\ merged.signer = LocalKey[v.sender]
           known == v.sender \notin Self /\ v.contact # None /\ merged.signer = v.contact
           ok == merged.status = "verified"
           tr == CASE ok /\ (own \/ known) -> "trusted"
                   [] ok /\ ~(own \/ known) -> "untrusted"
                   [] OTHER -> "na"
           candidates == extractPublicKeysFromMimeAttachments(v.of) \cup {v.dir}
           imp == IF ok /\ ~own /\ ~known /\ merged.signer \in candidates
                  THEN merged.signer ELSE None
<1>1. b = [status |-> merged.status, of |-> v.of, sender |-> v.sender,
           signer |-> merged.signer, trust |-> tr, import |-> imp]
  BY DEF Badge
<1>2. v.of \in Messages /\ v.sender \in Senders
  BY DEF Verifies
<1>3. merged.status \in Statuses /\ merged.signer \in Keys \cup {None}
  BY DEF MadeBy, Verdicts
<1>4. /\ tr \in {"trusted", "untrusted", "na"}
      /\ tr = "trusted" => ok /\ (own \/ known)
  <2> HIDE DEF ok, own, known
  <2>1. CASE ok /\ (own \/ known)
    BY <2>1
  <2>2. CASE ok /\ ~(own \/ known)
    <3>1. tr = "untrusted"
      BY <2>2
    <3> QED
      BY <3>1
  <2>3. CASE ~ok
    <3>1. tr = "na"
      BY <2>3
    <3> QED
      BY <3>1
  <2> QED
    BY <2>1, <2>2, <2>3
<1>5. imp \in Keys \cup {None}
  BY <1>3
<1> HIDE DEF b, tr, imp
<1>6. b \in Sigs
  BY <1>1, <1>2, <1>3, <1>4, <1>5 DEF Sigs
<1>7. /\ b.of = v.of /\ b.sender = v.sender /\ b.signer = merged.signer /\ b.trust = tr
  BY <1>1
<1>8. b.trust = "trusted" =>
        /\ b.signer \in signers
        /\ \/ v.sender \in Self /\ b.signer = LocalKey[v.sender]
           \/ v.contact # None /\ b.signer = v.contact
  BY <1>4, <1>7 DEF MadeBy
<1> QED
  BY <1>6, <1>7, <1>8 DEF b

\* A check that is running stays one that can be: runs and saved keys only
\* grow.
LEMMA SoundStays ==
  ASSUME mail' = mail, run \in Nat, run' \in Nat, run <= run', earned \subseteq earned',
         NEW v, Sound(v)
  PROVE  Sound(v)'
<1>1. v.run \in 1..run'
  <2>1. v.run \in 1..run
    BY DEF Sound
  <2> QED
    BY <2>1, SMT
<1>2. v \in Verifies /\ Named(v.of, v.sender)'
  BY DEF Sound, Named
<1>3. v.contact # None => v.sender # None /\ <<v.sender, v.contact>> \in earned'
  BY DEF Sound
<1> QED
  BY <1>1, <1>2, <1>3 DEF Sound

\* verifyBodySignature starts a check that can be, with a badge that claims
\* nothing yet, and remembers the message and the sender for a repetition.
LEMMA CheckStarts ==
  ASSUME CheckOK, mail' = mail, NEW m \in Messages, NEW s \in Senders, Named(m, s),
         verifyBodySignature(m, s), earned \subseteq earned'
  PROVE  /\ run' \in Nat /\ \A v \in verifies' : Sound(v)'
         /\ CheckedOnce' /\ sig' \in Sigs /\ TrustIsEarned'
<1>w. PICK w : w = [of |-> m, run |-> run + 1, sender |-> s, stage |-> "keys",
                    contact |-> None, dir |-> None]
  OBVIOUS
<1>0. run \in Nat /\ \A v \in verifies : Sound(v)
  BY DEF CheckOK
<1>1. run' = run + 1 /\ run' \in Nat /\ run <= run' /\ run' \in 1..run'
  <2>1. run' = run + 1
    BY DEF verifyBodySignature
  <2> QED
    BY <1>0, <2>1, SMT
<1>2. w.of = m /\ w.run = run' /\ w.sender = s /\ w.contact = None
  BY <1>w, <1>1
<1>3. w \in Verifies
  BY <1>w, <1>1 DEF Verifies
<1>4. verifies' = verifies \cup {w}
  BY <1>w DEF verifyBodySignature
<1>5. Named(m, s)'
  BY DEF Named
<1>6. Sound(w)'
  BY <1>1, <1>2, <1>3, <1>5 DEF Sound, Named
<1>7. \A v \in verifies' : Sound(v)'
  BY <1>0, <1>1, <1>4, <1>6, SoundStays
<1>8. CheckedOnce'
  <2>1. lastSig' = [of |-> m, sender |-> s]
    BY DEF verifyBodySignature
  <2> QED
    BY <1>5, <2>1 DEF CheckedOnce, LastSigs, Named
<1>9. sig' \in Sigs /\ TrustIsEarned'
  <2>1. sig' = [status |-> "checking", of |-> m, sender |-> None, signer |-> None,
                trust |-> "na", import |-> None]
    BY DEF verifyBodySignature, Checking
  <2>2. sig'.trust # "trusted"
    BY <2>1
  <2> QED
    BY <2>1, <2>2 DEF Sigs, Senders, Statuses, TrustIsEarned
<1> QED
  BY <1>1, <1>7, <1>8, <1>9

\* The sender a check starts with is the message's, or none.
LEMMA SenderFits ==
  ASSUME MailOK, NEW m \in Messages, NEW good
  PROVE  SenderOf(m, good) \in Senders /\ Named(m, SenderOf(m, good))
BY MailFields DEF SenderOf, Senders, Named

\* Every step keeps the part of the invariant about the signature check.
LEMMA CheckStep == IInv /\ [Next]_vars => CheckOK'
<1> SUFFICES ASSUME IInv, [Next]_vars PROVE CheckOK'
  OBVIOUS
<1>0. /\ mail' = mail /\ MailOK /\ CheckOK
      /\ run \in Nat /\ \A v \in verifies : Sound(v)
      /\ lastSig = None \/ CheckedOnce
      /\ (verifies # {} \/ sig # None \/ trust # None) => CheckedOnce
      /\ sig = None \/ sig \in Sigs
      /\ TrustIsEarned
      /\ trust = None \/ trust \in [sender: Addresses, key: Keys]
      /\ contact \in [Addresses -> Keys \cup {None}]
      /\ \A a \in Addresses : contact[a] # None => <<a, contact[a]>> \in earned
      /\ earned \subseteq Addresses \X Keys
  BY ServerGrows DEF IInv, CheckOK
<1>s. run <= run
  BY <1>0, SMT
<1>t. ASSUME UNCHANGED <<run, earned>>, NEW v, Sound(v) PROVE Sound(v)'
  BY <1>0, <1>s, <1>t, SoundStays
<1>l. ASSUME UNCHANGED lastSig, CheckedOnce PROVE CheckedOnce'
  BY <1>0, <1>l DEF CheckedOnce, Named
<1>1. ASSUME UNCHANGED check PROVE CheckOK'
  <2>1. UNCHANGED <<run, sig, verifies, lastSig, trust, contact, earned>>
    BY <1>1 DEF check
  <2>2. TrustIsEarned'
    BY <1>0, <2>1 DEF TrustIsEarned
  <2>3. \A v \in verifies' : Sound(v)'
    BY <1>0, <1>t, <2>1
  <2> QED
    BY <1>0, <1>l, <2>1, <2>2, <2>3 DEF CheckOK
<1>2. ASSUME sig' = None, run' \in Nat, run <= run',
             UNCHANGED <<verifies, lastSig, trust, contact, earned>>
      PROVE  CheckOK'
  <2>1. TrustIsEarned'
    BY <1>2 DEF TrustIsEarned
  <2>2. \A v \in verifies' : Sound(v)'
    BY <1>0, <1>2, SoundStays
  <2> QED
    BY <1>0, <1>l, <1>2, <2>1, <2>2 DEF CheckOK
<1>3. ASSUME NEW m \in Messages, NEW s \in Senders, Named(m, s), verifyBodySignature(m, s),
             UNCHANGED <<trust, contact, earned>>
      PROVE  CheckOK'
  <2>1. /\ run' \in Nat /\ \A v \in verifies' : Sound(v)'
        /\ CheckedOnce' /\ sig' \in Sigs /\ TrustIsEarned'
    BY <1>0, <1>3, CheckStarts
  <2> QED
    BY <1>0, <1>3, <2>1 DEF CheckOK
<1>4. CASE TrustSaved
  <2>1. /\ trust \in [sender: Addresses, key: Keys] /\ CheckedOnce
        /\ contact' = [contact EXCEPT ![trust.sender] = trust.key]
        /\ earned' = earned \cup {<<trust.sender, trust.key>>} /\ trust' = None
        /\ verifyBodySignature(lastSig.of, lastSig.sender)
    BY <1>0, <1>4 DEF TrustSaved
  <2>2. trust.sender \in Addresses /\ trust.key \in Keys /\ earned \subseteq earned'
    BY <2>1
  <2>3. lastSig.of \in Messages /\ lastSig.sender \in Senders
        /\ Named(lastSig.of, lastSig.sender)
    BY <2>1 DEF CheckedOnce, LastSigs
  <2>4. /\ run' \in Nat /\ \A v \in verifies' : Sound(v)'
        /\ CheckedOnce' /\ sig' \in Sigs /\ TrustIsEarned'
    <3>1. PICK m \in Messages, s \in Senders : m = lastSig.of /\ s = lastSig.sender
      BY <2>3
    <3>2. Named(m, s) /\ verifyBodySignature(m, s)
      BY <2>1, <2>3, <3>1
    <3> QED
      BY <1>0, <2>2, <3>2, CheckStarts
  <2>5. /\ contact' \in [Addresses -> Keys \cup {None}]
        /\ \A a \in Addresses : contact'[a] = IF a = trust.sender THEN trust.key ELSE contact[a]
    BY <1>0, <2>1, <2>2
  <2>6. \A a \in Addresses : contact'[a] # None => <<a, contact'[a]>> \in earned'
    BY <1>0, <2>1, <2>5
  <2>7. earned' \subseteq Addresses \X Keys
    BY <1>0, <2>1, <2>2, SMT
  <2> QED
    BY <2>1, <2>4, <2>5, <2>6, <2>7 DEF CheckOK
<1>5. ASSUME NEW v \in verifies, KeysFound(v)
      PROVE  CheckOK'
  <2>0. /\ v \in Verifies /\ v.run \in 1..run /\ Named(v.of, v.sender) /\ CheckedOnce
        /\ v.sender \in Senders /\ UNCHANGED <<run, sig, lastSig, trust, contact, earned>>
    BY <1>0, <1>5 DEF Sound, Verifies, KeysFound
  <2>1. PICK c \in IF v.sender = None \/ v.sender \in Self THEN {None}
                   ELSE {contact[v.sender], None},
             k \in IF v.sender = None THEN {None} ELSE {Directory[v.sender], None} :
          verifies' = (verifies \ {v}) \cup
                        {[v EXCEPT !.stage = "outer", !.contact = c, !.dir = k]}
    BY <1>5 DEF KeysFound
  <2>2. PICK w : w = [v EXCEPT !.stage = "outer", !.contact = c, !.dir = k]
    OBVIOUS
  <2>3. c \in Keys \cup {None} /\ (c # None => v.sender # None /\ <<v.sender, c>> \in earned)
    BY <1>0, <2>0, <2>1 DEF Senders
  <2>4. k \in Keys \cup {None}
    BY <2>0, <2>1, ViewAssumption DEF Senders
  <2>5. /\ w \in Verifies /\ w.of = v.of /\ w.run = v.run /\ w.sender = v.sender
        /\ w.contact = c
    BY <2>0, <2>2, <2>3, <2>4 DEF Verifies
  <2>6. Sound(w)
    BY <2>0, <2>3, <2>5 DEF Sound
  <2>7. \A x \in verifies' : Sound(x)'
    BY <1>0, <1>t, <2>0, <2>1, <2>2, <2>6
  <2>8. TrustIsEarned'
    BY <1>0, <2>0 DEF TrustIsEarned
  <2> QED
    BY <1>0, <1>l, <2>0, <2>7, <2>8 DEF CheckOK
<1>6. ASSUME NEW v \in verifies, OuterVerified(v)
      PROVE  CheckOK'
  <2>0. /\ Sound(v) /\ CheckedOnce /\ UNCHANGED <<run, sig, lastSig, trust, contact, earned>>
    BY <1>0, <1>6 DEF OuterVerified
  <2>1. PICK w : w = [v EXCEPT !.stage = "nested"]
    OBVIOUS
  <2>2. /\ w \in Verifies /\ w.of = v.of /\ w.run = v.run /\ w.sender = v.sender
        /\ w.contact = v.contact
    BY <2>0, <2>1 DEF Verifies, Sound
  <2>3. Sound(w)
    BY <2>0, <2>2 DEF Sound
  <2>4. verifies' \subseteq verifies \cup {w}
    BY <1>6, <2>1 DEF OuterVerified
  <2>5. \A x \in verifies' : Sound(x)'
    BY <1>0, <1>t, <2>0, <2>3, <2>4
  <2>6. TrustIsEarned'
    BY <1>0, <2>0 DEF TrustIsEarned
  <2> QED
    BY <1>0, <1>l, <2>0, <2>5, <2>6 DEF CheckOK
<1>7. ASSUME NEW v \in verifies, sig' \in Sigs, TrustIsEarned', verifies' = verifies \ {v},
             UNCHANGED <<run, lastSig, trust, contact, earned>>
      PROVE  CheckOK'
  <2>1. \A x \in verifies' : Sound(x)'
    BY <1>0, <1>t, <1>7
  <2> QED
    BY <1>0, <1>l, <1>7, <2>1 DEF CheckOK
<1>8. ASSUME NEW v \in verifies, OuterFails(v)
      PROVE  CheckOK'
  <2>0. /\ v.of \in Messages /\ CheckedOnce /\ verifies' = verifies \ {v}
        /\ UNCHANGED <<run, lastSig, trust, contact, earned>>
    BY <1>0, <1>8 DEF OuterFails, Sound, Verifies
  <2>1. CASE v.run = run
    <3>1. sig' = [status |-> "error", of |-> v.of, sender |-> None, signer |-> None,
                  trust |-> "na", import |-> None]
      BY <1>8, <2>1 DEF OuterFails, SigError, Checking
    <3>2. sig' \in Sigs /\ sig'.trust # "trusted"
      BY <2>0, <3>1 DEF Sigs, Senders, Statuses
    <3> QED
      BY <1>7, <2>0, <3>2 DEF TrustIsEarned
  <2>2. CASE v.run # run
    <3>1. sig' = sig
      BY <1>8, <2>2 DEF OuterFails
    <3>2. TrustIsEarned'
      BY <1>0, <2>0, <3>1 DEF TrustIsEarned
    <3>3. \A x \in verifies' : Sound(x)'
      BY <1>0, <1>t, <2>0
    <3> QED
      BY <1>0, <1>l, <2>0, <3>1, <3>2, <3>3 DEF CheckOK
  <2> QED
    BY <2>1, <2>2
<1>9. ASSUME NEW v \in verifies, NestedVerified(v)
      PROVE  CheckOK'
  <2>0. /\ v \in Verifies /\ Sound(v) /\ v.of \in Messages /\ verifies' = verifies \ {v}
        /\ UNCHANGED <<run, lastSig, trust, contact, earned>>
    BY <1>0, <1>9 DEF NestedVerified, Sound, Verifies
  <2>1. PICK o \in Keys \cup {None}, i \in Keys \cup {None} :
           o = mail[v.of].outer /\ i = mail[v.of].inner
    BY <1>0, <2>0, MailFields
  <2>2. PICK merged : MadeBy(merged, {o, i}) /\ sig' = Badge(v, merged)
    <3> DEFINE keys == buildCombinedVerificationArmored(v.sender, v.contact, v.dir,
                         extractPublicKeysFromMimeAttachments(v.of))
    <3>1. sig' = Badge(v, mergeNestedSignatureVerification(
                            summarizeSignatureVerification(o, keys),
                            verifyNestedSignedPayloadAfterDecrypt(i, keys)))
      BY <1>9, <2>1 DEF NestedVerified
    <3> HIDE DEF keys
    <3> QED
      BY <3>1, MergeFits
  <2>3. /\ sig' \in Sigs /\ sig'.of = v.of /\ sig'.sender = v.sender
        /\ sig'.trust = "trusted" =>
              /\ sig'.signer \in {o, i}
              /\ \/ v.sender \in Self /\ sig'.signer = LocalKey[v.sender]
                 \/ v.contact # None /\ sig'.signer = v.contact
    <3>1. \A S : MadeBy(merged, S) =>
             /\ Badge(v, merged) \in Sigs
             /\ Badge(v, merged).of = v.of /\ Badge(v, merged).sender = v.sender
             /\ Badge(v, merged).trust = "trusted" =>
                  /\ Badge(v, merged).signer \in S
                  /\ \/ v.sender \in Self /\ Badge(v, merged).signer = LocalKey[v.sender]
                     \/ v.contact # None /\ Badge(v, merged).signer = v.contact
      BY <1>0, <2>0, BadgeFits
    <3> QED
      BY <2>2, <3>1
  <2>4. ASSUME sig'.trust = "trusted"
        PROVE  /\ sig'.signer \in {mail'[sig'.of].outer, mail'[sig'.of].inner}
               /\ sig'.sender = mail'[sig'.of].from
               /\ \/ sig'.sender \in Self /\ sig'.signer = LocalKey[sig'.sender]
                  \/ <<sig'.sender, sig'.signer>> \in earned'
    <3>1. v.sender # None
      BY <2>0, <2>3, <2>4, ViewAssumption DEF Sound
    <3>2. v.sender = mail[v.of].from
      BY <2>0, <3>1 DEF Sound, Named
    <3> QED
      BY <1>0, <2>0, <2>1, <2>3, <2>4, <3>2 DEF Sound
  <2>5. TrustIsEarned'
    BY <2>4 DEF TrustIsEarned
  <2> QED
    BY <1>7, <2>0, <2>3, <2>5
<1>10. ASSUME UNCHANGED <<run, sig, verifies, lastSig, contact, earned>>,
              trust' = None \/ (sig # None /\ trust' \in [sender: Addresses, key: Keys])
       PROVE  CheckOK'
  <2>1. TrustIsEarned'
    BY <1>0, <1>10 DEF TrustIsEarned
  <2>2. \A v \in verifies' : Sound(v)'
    BY <1>0, <1>t, <1>10
  <2> QED
    BY <1>0, <1>l, <1>10, <2>1, <2>2 DEF CheckOK
<1>11. CASE onTrustSigner
  <2>1. /\ sig # None /\ sig \in Sigs /\ sig.import # None /\ sig.sender # None
        /\ trust' = [sender |-> sig.sender, key |-> sig.import]
        /\ UNCHANGED <<run, sig, verifies, lastSig, contact, earned>>
    BY <1>0, <1>11 DEF onTrustSigner
  <2>2. sig.sender \in Addresses /\ sig.import \in Keys
    BY <2>1 DEF Sigs, Senders
  <2> QED
    BY <1>10, <2>1, <2>2
<1>12. CASE TrustFails
  BY <1>10, <1>12 DEF TrustFails
<1>13. ASSUME NEW a \in Addresses, Distrust(a)
       PROVE  CheckOK'
  <2>1. /\ contact' = [contact EXCEPT ![a] = None]
        /\ UNCHANGED <<run, sig, verifies, lastSig, trust, earned>>
    BY <1>13 DEF Distrust
  <2>2. /\ contact' \in [Addresses -> Keys \cup {None}]
        /\ \A x \in Addresses : contact'[x] = IF x = a THEN None ELSE contact[x]
    BY <1>0, <2>1
  <2>3. \A x \in Addresses : contact'[x] # None => <<x, contact'[x]>> \in earned'
    BY <1>0, <2>1, <2>2
  <2>4. TrustIsEarned'
    BY <1>0, <2>1 DEF TrustIsEarned
  <2>5. \A v \in verifies' : Sound(v)'
    BY <1>0, <1>t, <2>1
  <2> QED
    BY <1>0, <1>l, <2>1, <2>2, <2>3, <2>4, <2>5 DEF CheckOK
<1>14. ASSUME NEW m \in Messages \cup {None}, OpenMessage(m)
       PROVE  CheckOK'
  <2>1. /\ run' = run + 1 /\ sig' = None
        /\ UNCHANGED <<verifies, lastSig, trust, contact, earned>>
    BY <1>14 DEF OpenMessage
  <2>2. run' \in Nat /\ run <= run'
    BY <1>0, <2>1, SMT
  <2> QED
    BY <1>2, <2>1, <2>2
<1>15. ASSUME NEW d \in decrypts, BlobDecrypted(d) \/ SigBlob(d) \/ BlobFails(d)
       PROVE  CheckOK'
  <2>1. d.of \in Messages
    BY OwnContent
  <2>2. /\ UNCHANGED <<trust, contact, earned>>
        /\ \/ verifyBodySignature(d.of, SenderOf(d.of, d.good))
           \/ UNCHANGED <<run, sig, lastSig, verifies>>
           \/ sig' = None /\ UNCHANGED <<run, lastSig, verifies>>
    BY <1>15 DEF BlobDecrypted, SigBlob, BlobFails, NoCheck
  <2>3. CASE verifyBodySignature(d.of, SenderOf(d.of, d.good))
    <3>1. PICK m \in Messages, s \in Senders : /\ m = d.of /\ s = SenderOf(d.of, d.good)
                                                /\ Named(m, s)
      BY <1>0, <2>1, SenderFits
    <3>2. verifyBodySignature(m, s)
      BY <2>3, <3>1
    <3> QED
      BY <1>3, <2>2, <3>1, <3>2
  <2>4. CASE UNCHANGED <<run, sig, lastSig, verifies>>
    <3>1. UNCHANGED check
      BY <2>2, <2>4 DEF check
    <3> QED
      BY <1>1, <3>1
  <2>5. CASE sig' = None /\ UNCHANGED <<run, lastSig, verifies>>
    BY <1>0, <1>s, <1>2, <2>2, <2>5
  <2> QED
    BY <2>2, <2>3, <2>4, <2>5
<1>16. \/ UNCHANGED check \/ onTrustSigner \/ TrustSaved \/ TrustFails
       \/ \E m \in Messages \cup {None} : OpenMessage(m)
       \/ \E a \in Addresses : Distrust(a)
       \/ \E d \in decrypts : BlobDecrypted(d) \/ SigBlob(d) \/ BlobFails(d)
       \/ \E v \in verifies : \/ KeysFound(v) \/ OuterVerified(v) \/ OuterFails(v)
                              \/ NestedVerified(v)
  BY DEF vars, Next, Reader, Answer, FetchList, RetryDecrypt, Reply, ApplyList,
     CacheMiss, CacheHit, SaveHeader, SaveEnvelope, refreshMessageHeader, SaveFails,
     RecoverFromCache, RecoverFromBlob, RecoveryFails
<1> QED
  BY <1>1, <1>4, <1>5, <1>6, <1>8, <1>9, <1>11, <1>12, <1>13, <1>14, <1>15, <1>16

\* A reply is addressed from the mail it answers, which does not change.
LEMMA DraftStep == IInv /\ [Next]_vars => DraftOK'
<1> SUFFICES ASSUME IInv, [Next]_vars PROVE DraftOK'
  OBVIOUS
<1>0. mail' = mail /\ MailOK /\ DraftOK /\ selected \in Messages \cup {None}
      /\ (body = None \/ body \in Bodies)
  BY ServerGrows DEF IInv, PaneOK
<1>1. ASSUME UNCHANGED draft PROVE DraftOK'
  BY <1>0, <1>1 DEF DraftOK, ReplyReachesAll
<1>2. ASSUME NEW all \in BOOLEAN, Reply(all)
      PROVE  DraftOK'
  <2>1. selected \in Messages /\ draft' = buildReplyComposeDraft(selected, all)
    BY <1>0, <1>2 DEF Reply
  <2>2. PICK f : f = mail[selected]
    OBVIOUS
  <2>3. /\ f.from \in Addresses /\ f.replyTo \in Addresses \cup {None}
        /\ f.to \subseteq Addresses /\ f.cc \subseteq Addresses
    BY <1>0, <2>1, <2>2, ViewAssumption DEF MailOK
  <2> DEFINE others == f.to \ Self
             to == IF f.from \in Self THEN IF others = {} THEN {f.from} ELSE others
                   ELSE {IF f.replyTo # None THEN f.replyTo ELSE f.from}
             copied == IF f.from \in Self THEN f.cc ELSE f.to \cup f.cc
             cc == IF all THEN (copied \ Self) \ to ELSE {}
             quotes == IF body = None THEN selected ELSE body.of
  <2>4. draft' = [of |-> selected, all |-> all, to |-> to, cc |-> cc, quotes |-> quotes]
    BY <2>1, <2>2 DEF buildReplyComposeDraft
  <2>5. to \subseteq Addresses /\ to # {}
    BY <2>3
  <2>6. cc \subseteq Addresses
    BY <2>3
  <2>7. quotes \in Messages
    BY <1>0, <2>1 DEF Bodies
  <2>8. cc \cap to = {} /\ cc \cap Self = {}
    BY SMT
  <2>9. all => (f.to \cup f.cc) \ Self \subseteq to \cup cc
    BY SMT
  <2> HIDE DEF to, cc, quotes
  <2>10. draft' \in [of: Messages, all: BOOLEAN, to: SUBSET Addresses,
                     cc: SUBSET Addresses, quotes: Messages]
    BY <2>1, <2>4, <2>5, <2>6, <2>7, SMT
  <2>11. /\ draft'.of = selected /\ draft'.all = all /\ draft'.to = to /\ draft'.cc = cc
    BY <2>4
  <2>12. ReplyReachesAll'
    BY <1>0, <2>2, <2>5, <2>8, <2>9, <2>11 DEF ReplyReachesAll
  <2> QED
    BY <2>10, <2>12 DEF DraftOK
<1>3. UNCHANGED draft \/ \E all \in BOOLEAN : Reply(all)
  BY DEF vars, Next, Reader, Answer, FetchList, RetryDecrypt, onTrustSigner, OpenMessage,
     Distrust, ApplyList, TrustSaved, TrustFails, CacheMiss, CacheHit, BlobDecrypted,
     BlobFails, SigBlob, KeysFound, OuterVerified, OuterFails, NestedVerified, SaveHeader,
     SaveEnvelope, refreshMessageHeader, SaveFails, RecoverFromCache, RecoverFromBlob,
     RecoveryFails
<1> QED
  BY <1>1, <1>2, <1>3

-----------------------------------------------------------------------------
(* The theorems.                                                           *)

\* The parts hold together: IInv is inductive.
THEOREM Invariance == Spec => []IInv
<1>1. IInv /\ [Next]_vars => IInv'
  <2> SUFFICES ASSUME IInv, [Next]_vars PROVE IInv'
    OBVIOUS
  <2>1. MailOK'
    BY ServerGrows DEF IInv, MailOK
  <2> QED
    BY <2>1, ListStep, AskedStep, CacheStep, PaneStep, CheckStep, DraftStep DEF IInv
<1> QED
  BY <1>1, InitIInv, PTL DEF Spec

\* The envelope cache never mixes messages up, however decryptions,
\* recoveries and their writes overlap (persistRecoveredArtifacts,
\* MailCache). A write carries the message it was decrypted from, and the
\* server never forgets a version.
THEOREM CachedEnvelopesAreOwn == Spec => []CacheIsOwn
<1>1. IInv => CacheIsOwn
  BY DEF IInv, CacheOK
<1> QED
  BY <1>1, Invariance, PTL

\* TRUSTED SIGNER is shown only for a key that signed the message the badge
\* is about, and only for the sender's own identity key or a key this reader
\* once saved as trusted for that sender (verifyBodySignature), whatever
\* was opened, trusted or distrusted while the check ran.
THEOREM TrustedBadgeIsEarned == Spec => []TrustIsEarned
<1>1. IInv => TrustIsEarned
  BY DEF IInv, CheckOK
<1> QED
  BY <1>1, Invariance, PTL

\* What is on screen is what the reader makes of the message it came from,
\* by way of the cache or not (decryptBody).
THEOREM ScreenIsParsed == Spec => []ShownIsParsed
<1>1. IInv => ShownIsParsed
  BY DEF IInv, PaneOK
<1> QED
  BY <1>1, Invariance, PTL

\* The pane says DECRYPTING exactly while one decryption runs, and never runs
\* two (decryptBody and the automatic decryption).
THEOREM OneDecryptionAtATime == Spec => []OneDecrypt
<1>1. IInv => OneDecrypt
  <2> SUFFICES ASSUME IInv PROVE OneDecrypt
    OBVIOUS
  <2>0. busy \in BOOLEAN /\ (busy => \E d \in decrypts : decrypts = {d})
        /\ (~busy => decrypts = {})
    BY DEF IInv, PaneOK
  <2>1. Cardinality(decrypts) \in {0, 1}
    BY <2>0, FS_EmptySet, FS_Singleton
  <2>2. Cardinality(decrypts) <= 1
    BY <2>1, SMT
  <2> QED
    BY <2>0, <2>2 DEF OneDecrypt
<1> QED
  BY <1>1, Invariance, PTL

\* A row names its sender only from the stored header or from the protected
\* headers of this very message (recoverMessageMetadata, loadFolder).
THEOREM RowsAreEarned == Spec => []RowIsEarned
<1>1. IInv => RowIsEarned
  BY DEF IInv, ListOK, RowIsEarned, Known
<1> QED
  BY <1>1, Invariance, PTL

\* Background recovery never holds more than its slots and never works on one
\* message twice at a time, for any number of slots
\* (runBackgroundMetadataRecovery).
THEOREM RecoveryStaysBounded == Spec => []RecoveryBounded
<1>1. IInv => RecoveryBounded
  BY DEF IInv, Flight, RecoveryBounded
<1> QED
  BY <1>1, Invariance, PTL

\* A reply to all reaches everybody the message went to, copies nobody twice
\* and none of the reader's own addresses (buildReplyComposeDraft).
THEOREM RepliesReachAll == Spec => []ReplyReachesAll
<1>1. IInv => ReplyReachesAll
  BY DEF IInv, DraftOK
<1> QED
  BY <1>1, Invariance, PTL

\* The state keeps its shape.
THEOREM TypeCorrectness == Spec => []TypeOK
<1>1. IInv => TypeOK
  <2> SUFFICES ASSUME IInv PROVE TypeOK
    OBVIOUS
  <2>1. \A v \in verifies : v \in [of: Messages, run: 1..run, sender: Addresses \cup {None},
                                stage: {"keys", "outer", "nested"},
                                contact: Keys \cup {None}, dir: Keys \cup {None}]
    <3> SUFFICES ASSUME NEW v \in verifies
                 PROVE  v \in [of: Messages, run: 1..run, sender: Addresses \cup {None},
                               stage: {"keys", "outer", "nested"},
                               contact: Keys \cup {None}, dir: Keys \cup {None}]
      OBVIOUS
    <3>1. v \in Verifies /\ v.run \in 1..run
      BY DEF IInv, CheckOK, Sound
    <3> QED
      BY <3>1 DEF Verifies, Senders
  <2>2. /\ \A d \in decrypts : d \in Decrypts
        /\ \A w \in saves : w \in Saves
        /\ \A r \in recovering : r \in Recoveries
    BY DEF IInv, AskedOK
  <2>3. /\ mail \in [Messages -> Mails]
        /\ server \in [Messages -> Entries] /\ rows \in [Messages -> Entries]
        /\ load = None \/ load \in [Messages -> Entries]
        /\ \A m \in Messages : hdrCache[m] = None \/ hdrCache[m] \in Entries
        /\ \A m \in Messages : envCache[m] = None \/ envCache[m] \in EnvEntries
    BY DEF IInv, MailOK, ListOK, CacheOK
  <2>4. /\ sig = None \/ sig \in Sigs
        /\ lastSig = None \/ lastSig \in LastSigs
        /\ trust = None \/ trust \in [sender: Addresses, key: Keys]
        /\ contact \in [Addresses -> Keys \cup {None}] /\ earned \subseteq Addresses \X Keys
    BY DEF IInv, CheckOK, CheckedOnce
  <2>5. /\ selected \in Messages \cup {None} /\ attempted \in Messages \cup {None}
        /\ body = None \/ body \in Bodies
        /\ bodyErr \in BOOLEAN /\ busy \in BOOLEAN
        /\ draft = None \/ draft \in [of: Messages, all: BOOLEAN, to: SUBSET Addresses,
                                      cc: SUBSET Addresses, quotes: Messages]
    BY DEF IInv, PaneOK, DraftOK
  <2> QED
    BY <2>1, <2>2, <2>3, <2>4, <2>5
    DEF TypeOK, Decrypts, Saves, Recoveries, EnvEntries, Sigs, Senders, LastSigs, Bodies
<1> QED
  BY <1>1, Invariance, PTL

=============================================================================
