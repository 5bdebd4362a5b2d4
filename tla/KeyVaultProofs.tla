--------------------------- MODULE KeyVaultProofs ---------------------------
(***************************************************************************)
(* Theorems about KeyVault, for any tabs, any accounts and every bound.    *)
(***************************************************************************)
EXTENDS KeyVault, TLAPS

\* Most leaves are first-order steps, for Zenon. The leaves with arithmetic or
\* with equal sets and functions name SMT.
USE Zenon

-----------------------------------------------------------------------------
(***************************************************************************)
(* The inductive invariant.  It follows a key from the server to the       *)
(* vault: every key in a hydration, in a vault and in a cache is the one   *)
(* the server holds, keys, for the account it is of.                       *)
(***************************************************************************)
InUse(k, keys) == k # None /\ k \in Keys /\ keys[k.owner] = k

Emails == Accounts \cup {None}

\* The stages of a form that has named its account.
Named == {"srp", "legacy", "mfa", "mfacheck", "register", "key", "boot", "refetch"}

GoodForms ==
  {f \in [stage : Stages, pw : Emails, email : Emails, trust : BOOLEAN] :
     /\ f.stage \in Named \cup {"me"} => f.pw \in Accounts
     /\ f.stage \in Named => f.email \in Accounts}

GoodOps(keys) ==
  {o \in Ops : /\ InUse(o.key, keys)
               /\ o.kind # "identity" => o.email \in Accounts
               /\ o.kind = "identity" => o.stage = "read"}

GoodMems(keys) ==
  {m \in [priv : Keys \cup {None}, armored : Keys \cup {None},
          idents : Keys \cup {None}, timer : BOOLEAN] :
     m.priv # None => InUse(m.priv, keys)}

GoodStores(keys) ==
  {s \in [cache : Caches \cup {None}, flag : BOOLEAN] :
     s.cache # None => InUse(s.cache.key, keys)}

GuardStates == [hydrated : BOOLEAN, unlocked : BOOLEAN, modal : BOOLEAN, prev : BOOLEAN]

\* What the server holds: each account's key is its own.
ServerOK ==
  /\ cookie \in Emails /\ ids \in [Accounts -> Nat] /\ events \in 0 .. MaxEvents
  /\ stored \in [Accounts -> Keys \cup {None}]
  /\ \A a \in Accounts : stored[a] # None => stored[a].owner = a

\* The mail page knows whose it is.
PagesOK ==
  /\ page \in [Tabs -> {"closed", "auth", "loading", "mail"}]
  /\ me \in [Tabs -> Emails]
  /\ \A t \in Tabs : page[t] = "mail" => me[t] \in Accounts

GuardOK == guard \in [Tabs -> GuardStates]

FormOK == form \in [Tabs -> GoodForms]

OpsOK == ops \in [Tabs -> SUBSET GoodOps(stored)]

MemOK == mem \in [Tabs -> GoodMems(stored)]

CachesOK == session \in [Tabs -> GoodStores(stored)] /\ local \in GoodStores(stored)

VaultInv ==
  ServerOK /\ PagesOK /\ GuardOK /\ FormOK /\ OpsOK /\ MemOK /\ CachesOK /\ IdleArmed

-----------------------------------------------------------------------------
(* Operators *)

\* The server's keys from one step to the next: one that is there stays.
Grows(keys, more) == \A a \in Accounts : keys[a] # None => more[a] = keys[a]

\* A key in use stays in use while the server's keys only grow.
LEMMA UseStays ==
  ASSUME NEW keys, NEW more, Grows(keys, more)
  PROVE  /\ \A k : InUse(k, keys) => InUse(k, more)
         /\ GoodOps(keys) \subseteq GoodOps(more)
         /\ GoodMems(keys) \subseteq GoodMems(more)
         /\ GoodStores(keys) \subseteq GoodStores(more)
<1>1. ASSUME NEW k, InUse(k, keys) PROVE InUse(k, more)
  <2>1. k.owner \in Accounts /\ keys[k.owner] = k /\ k # None /\ k \in Keys
    BY <1>1 DEF InUse, Keys
  <2>2. more[k.owner] = k
    BY <2>1 DEF Grows
  <2> QED
    BY <2>1, <2>2 DEF InUse
<1> QED
  BY <1>1 DEF GoodOps, GoodMems, GoodStores

\* The blank states hold no key.
LEMMA BlankGood ==
  ASSUME NEW keys
  PROVE  /\ Blank \in GoodMems(keys) /\ Blank.priv = None
         /\ EmptyStore \in GoodStores(keys)
         /\ IdleForm \in GoodForms
         /\ NewGuard \in GuardStates
BY DEF Blank, GoodMems, EmptyStore, GoodStores, IdleForm, GoodForms, Emails, Stages, Named,
       NewGuard, GuardStates

\* Both stores of the browser, as the operators of the vault pass them around.
StoresOf(keys) == [session : [Tabs -> GoodStores(keys)], local : GoodStores(keys)]

\* The trusted-device flag is read as one or the other.
LEMMA FlagIsBoolean ==
  ASSUME NEW st, NEW t
  PROVE  readTrustedDeviceFlag(st, t) \subseteq BOOLEAN
BY DEF readTrustedDeviceFlag

\* A cache that is found holds a key in use.
LEMMA FoundCache ==
  ASSUME NEW keys, NEW st \in StoresOf(keys), NEW t \in Tabs, NEW trusted \in BOOLEAN,
         readPersistedAccountCache(st, t, trusted) # None
  PROVE  LET c == readPersistedAccountCache(st, t, trusted)
         IN  c \in Caches /\ InUse(c.key, keys)
<1> DEFINE c == readPersistedAccountCache(st, t, trusted)
<1>1. st.session[t] \in GoodStores(keys) /\ st.local \in GoodStores(keys)
  BY DEF StoresOf
<1>2. c \in {st.session[t].cache, st.local.cache}
  BY DEF readPersistedAccountCache
<1> HIDE DEF c
<1>3. c \in Caches /\ InUse(c.key, keys)
  BY <1>1, <1>2 DEF GoodStores, c
<1> QED
  BY <1>3 DEF c

\* Each write to the stores leaves only caches of keys in use.
LEMMA PersistGood ==
  ASSUME NEW keys, NEW st \in StoresOf(keys), NEW t \in Tabs, NEW trusted \in BOOLEAN,
         NEW c \in Caches, InUse(c.key, keys)
  PROVE  persistAccountCache(st, t, c, trusted) \in StoresOf(keys)
<1>1. st.session[t] \in GoodStores(keys) /\ st.local \in GoodStores(keys)
  BY DEF StoresOf
<1>2. [st.session[t] EXCEPT !.cache = c] \in GoodStores(keys)
  BY <1>1 DEF GoodStores
<1>3. [st.local EXCEPT !.cache = c] \in GoodStores(keys)
  BY <1>1 DEF GoodStores
<1> QED
  BY <1>2, <1>3 DEF persistAccountCache, StoresOf

\* Clearing the caches of a tab and of the browser leaves the other tabs' alone.
LEMMA ClearGood ==
  ASSUME NEW keys, NEW st \in StoresOf(keys), NEW t \in Tabs
  PROVE  clearAllPersistedCaches(st, t) \in StoresOf(keys)
<1>1. st.session[t] \in GoodStores(keys) /\ st.local \in GoodStores(keys)
  BY DEF StoresOf
<1>2. [st.session[t] EXCEPT !.cache = None] \in GoodStores(keys)
  BY <1>1 DEF GoodStores
<1>3. [st.local EXCEPT !.cache = None] \in GoodStores(keys)
  BY <1>1 DEF GoodStores
<1> QED
  BY <1>2, <1>3 DEF clearAllPersistedCaches, StoresOf

\* Setting or clearing the trusted-device flag touches no cache.
LEMMA TrustGood ==
  ASSUME NEW keys, NEW st \in StoresOf(keys), NEW t \in Tabs, NEW trusted \in BOOLEAN,
         NEW b \in BOOLEAN
  PROVE  setTrustedDevice(st, t, b, trusted) \in StoresOf(keys)
<1>1. st.session[t] \in GoodStores(keys) /\ st.local \in GoodStores(keys)
  BY DEF StoresOf
<1>2. [st.session[t] EXCEPT !.flag = b] \in GoodStores(keys)
  BY <1>1 DEF GoodStores
<1>3. [st.local EXCEPT !.flag = b] \in GoodStores(keys)
  BY <1>1 DEF GoodStores
<1> QED
  BY <1>2, <1>3 DEF setTrustedDevice, StoresOf

\* The guard's conclusions keep its shape.
LEMMA GuardGood ==
  ASSUME NEW g \in GuardStates, NEW b \in BOOLEAN, NEW kind
  PROVE  /\ guardMounted(b) \in GuardStates /\ guardTicked(g, b) \in GuardStates
         /\ guardSettled(kind, g, b) \in GuardStates
BY DEF guardMounted, guardTicked, guardSettled, GuardStates

-----------------------------------------------------------------------------
(* Init, and what a step leaves alone *)

\* A browser without a session satisfies the invariant.
LEMMA InitInv == Init => VaultInv
<1> SUFFICES ASSUME Init PROVE VaultInv
  OBVIOUS
<1>1. ServerOK
  BY VaultAssumption, SMT DEF Init, ServerOK, Emails
<1>2. PagesOK /\ GuardOK
  BY BlankGood DEF Init, PagesOK, GuardOK, Emails
<1>3. FormOK /\ OpsOK /\ MemOK /\ CachesOK
  BY BlankGood DEF Init, FormOK, OpsOK, MemOK, CachesOK
<1>4. IdleArmed
  BY BlankGood DEF Init, IdleArmed
<1> QED
  BY <1>1, <1>2, <1>3, <1>4 DEF VaultInv

\* While the server's keys only grow, what a step leaves alone stays good.
LEMMA Frames ==
  ASSUME VaultInv, Grows(stored, stored')
  PROVE  /\ UNCHANGED ops => OpsOK'
         /\ UNCHANGED mem => MemOK'
         /\ UNCHANGED stores => CachesOK'
         /\ UNCHANGED <<mem, ops>> => IdleArmed'
         /\ UNCHANGED form => FormOK'
         /\ UNCHANGED guard => GuardOK'
         /\ UNCHANGED <<page, me>> => PagesOK'
<1>1. /\ GoodOps(stored) \subseteq GoodOps(stored')
      /\ GoodMems(stored) \subseteq GoodMems(stored')
      /\ GoodStores(stored) \subseteq GoodStores(stored')
  BY UseStays
<1>2. UNCHANGED ops => OpsOK'
  BY <1>1 DEF VaultInv, OpsOK
<1>3. UNCHANGED mem => MemOK'
  BY <1>1 DEF VaultInv, MemOK
<1>4. UNCHANGED stores => CachesOK'
  BY <1>1 DEF VaultInv, CachesOK, stores
<1> QED
  BY <1>2, <1>3, <1>4 DEF VaultInv, IdleArmed, FormOK, GuardOK, PagesOK

\* The server's keys grow when they stay as they are.
LEMMA SameGrows == UNCHANGED stored => Grows(stored, stored')
BY DEF Grows

\* A form is replaced by a good one, fails, or moves on to a stage it is fit for.
LEMMA FormSteps ==
  ASSUME FormOK, NEW t \in Tabs
  PROVE  /\ \A f \in GoodForms : form' = [form EXCEPT ![t] = f] => FormOK'
         /\ FormFails(t) => FormOK'
         /\ \A s \in Stages :
              /\ s \in Named \cup {"me"} => form[t].pw \in Accounts
              /\ s \in Named => form[t].email \in Accounts
              /\ Stage(t, s)
              => FormOK'
<1>1. \A f \in GoodForms : form' = [form EXCEPT ![t] = f] => FormOK'
  BY DEF FormOK
<1>2. FormFails(t) => FormOK'
  BY <1>1, BlankGood DEF FormFails
<1>3. ASSUME NEW s \in Stages, s \in Named \cup {"me"} => form[t].pw \in Accounts,
             s \in Named => form[t].email \in Accounts, Stage(t, s)
      PROVE  FormOK'
  <2> DEFINE f == [form[t] EXCEPT !.stage = s]
  <2>1. form[t] \in GoodForms
    BY DEF FormOK
  <2>2. f \in GoodForms
    BY <1>3, <2>1 DEF GoodForms
  <2>3. form' = [form EXCEPT ![t] = f]
    BY <1>3 DEF Stage
  <2> QED
    BY <1>1, <2>2, <2>3
<1> QED
  BY <1>1, <1>2, <1>3

\* Leaving a page empties the tab.
LEMMA LeaveStep ==
  ASSUME VaultInv, NEW t \in Tabs, NEW to \in {"closed", "auth", "loading"}, Leave(t, to),
         UNCHANGED me, Grows(stored, stored')
  PROVE  PagesOK' /\ FormOK' /\ OpsOK' /\ MemOK' /\ IdleArmed'
<1>1. /\ GoodOps(stored) \subseteq GoodOps(stored')
      /\ GoodMems(stored) \subseteq GoodMems(stored')
  BY UseStays
<1>2. PagesOK'
  BY DEF VaultInv, PagesOK, Leave
<1>3. FormOK'
  BY FormSteps, BlankGood DEF VaultInv, Leave
<1>4. OpsOK'
  BY <1>1 DEF VaultInv, OpsOK, Leave
<1>5. Blank \in GoodMems(stored') /\ Blank.priv = None
  BY BlankGood
<1>6. MemOK'
  BY <1>1, <1>5 DEF VaultInv, MemOK, Leave
<1>7. IdleArmed'
  BY <1>5 DEF VaultInv, IdleArmed, Leave, MemOK, OpsOK
<1> QED
  BY <1>2, <1>3, <1>4, <1>6, <1>7

\* Writing good stores keeps the caches good.
LEMMA StoresStep ==
  ASSUME NEW st, st \in StoresOf(stored), SetStores(st), UNCHANGED stored
  PROVE  CachesOK'
BY DEF StoresOf, SetStores, CachesOK

\* The stores between two steps are good.
LEMMA StoresNow ==
  ASSUME VaultInv
  PROVE  Stores \in StoresOf(stored)
BY DEF VaultInv, CachesOK, Stores, StoresOf

\* Steps that touch neither the server nor the bound on events.
LEMMA ServerFrame ==
  ASSUME VaultInv, UNCHANGED server, UNCHANGED events \/ Event
  PROVE  ServerOK' /\ UNCHANGED stored /\ Grows(stored, stored')
<1>1. MaxEvents \in Nat
  BY VaultAssumption
<1> QED
  BY <1>1, SMT DEF VaultInv, ServerOK, server, Event, Grows

-----------------------------------------------------------------------------
(* Pages *)

\* The first part of a restore: the cache found is of a key in use, or the
\* caches are cleared.
LEMMA RestoreStep ==
  ASSUME VaultInv, NEW t \in Tabs, NEW kind \in {"mount", "tick"}, NEW email \in Accounts,
         NEW g \in GuardStates, UNCHANGED stored, UNCHANGED mem,
         tryRestoreAccountFromSession(t, kind, email, g)
  PROVE  GuardOK' /\ OpsOK' /\ CachesOK' /\ IdleArmed'
<1>1. PICK trusted \in readTrustedDeviceFlag(Stores, t) :
        LET c == readPersistedAccountCache(Stores, t, trusted)
        IN  IF c # None /\ c.email = email
            THEN /\ ops' = [ops EXCEPT ![t] = @ \cup
                      {[kind |-> kind, email |-> email, key |-> c.key, stage |-> "read"]}]
                 /\ guard' = [guard EXCEPT ![t] = g]
                 /\ UNCHANGED stores
            ELSE /\ SetStores(clearAllPersistedCaches(Stores, t))
                 /\ guard' = [guard EXCEPT ![t] = guardSettled(kind, g, FALSE)]
                 /\ UNCHANGED ops
  BY DEF tryRestoreAccountFromSession
<1>2. trusted \in BOOLEAN /\ Stores \in StoresOf(stored) /\ Grows(stored, stored')
  BY FlagIsBoolean, StoresNow, SameGrows
<1>3. guard \in [Tabs -> GuardStates] /\ ops \in [Tabs -> SUBSET GoodOps(stored)]
  BY DEF VaultInv, GuardOK, OpsOK
<1> DEFINE c == readPersistedAccountCache(Stores, t, trusted)
           o == [kind |-> kind, email |-> email, key |-> c.key, stage |-> "read"]
<1>4. CASE c # None /\ c.email = email
  <2>1. c \in Caches /\ InUse(c.key, stored)
    BY <1>2, <1>4, FoundCache
  <2>2. /\ ops' = [ops EXCEPT ![t] = ops[t] \cup {o}]
        /\ guard' = [guard EXCEPT ![t] = g] /\ UNCHANGED stores
    BY <1>1, <1>4
  <2> HIDE DEF c
  <2>3. o \in GoodOps(stored)
    BY <2>1 DEF GoodOps, Ops, Caches
  <2> HIDE DEF o
  <2>4. OpsOK'
    BY <1>3, <2>2, <2>3 DEF OpsOK
  <2>5. IdleArmed'
    BY <1>3, <2>2 DEF VaultInv, IdleArmed
  <2>6. GuardOK'
    BY <1>3, <2>2 DEF GuardOK
  <2> QED
    BY <1>2, <2>2, <2>4, <2>5, <2>6, Frames
<1>5. CASE ~(c # None /\ c.email = email)
  <2>1. /\ SetStores(clearAllPersistedCaches(Stores, t))
        /\ guard' = [guard EXCEPT ![t] = guardSettled(kind, g, FALSE)]
        /\ UNCHANGED ops
    BY <1>1, <1>5
  <2>2. clearAllPersistedCaches(Stores, t) \in StoresOf(stored)
    BY <1>2, ClearGood
  <2>3. CachesOK'
    BY <2>1, <2>2, StoresStep
  <2>4. GuardOK'
    BY <1>3, <2>1, GuardGood DEF GuardOK
  <2> QED
    BY <1>2, <2>1, <2>3, <2>4, Frames
<1> QED
  BY <1>4, <1>5

\* Tabs that open, close and reload, and the mail page that loads.
LEMMA PageSteps ==
  ASSUME VaultInv, NEW t \in Tabs,
         OpenTab(t) \/ CloseTab(t) \/ Reload(t) \/ LoadMail(t) \/ Tick(t)
  PROVE  VaultInv'
<1>1. CASE OpenTab(t)
  <2>1. ServerOK' /\ Grows(stored, stored')
    BY <1>1, ServerFrame DEF OpenTab
  <2>2. PagesOK'
    BY <1>1 DEF OpenTab, VaultInv, PagesOK
  <2> QED
    BY <1>1, <2>1, <2>2, Frames DEF OpenTab, VaultInv
<1>2. CASE CloseTab(t)
  <2>1. ServerOK' /\ Grows(stored, stored') /\ UNCHANGED stored
    BY <1>2, ServerFrame DEF CloseTab
  <2>2. PagesOK' /\ FormOK' /\ OpsOK' /\ MemOK' /\ IdleArmed'
    BY <1>2, <2>1, LeaveStep DEF CloseTab
  <2>3. EmptyStore \in GoodStores(stored)
    BY BlankGood
  <2>4. CachesOK'
    BY <1>2, <2>1, <2>3 DEF CloseTab, VaultInv, CachesOK
  <2> QED
    BY <1>2, <2>1, <2>2, <2>4, Frames DEF CloseTab, VaultInv
<1>3. CASE Reload(t)
  <2>1. ServerOK' /\ Grows(stored, stored')
    BY <1>3, ServerFrame DEF Reload
  <2>2. PagesOK' /\ FormOK' /\ OpsOK' /\ MemOK' /\ IdleArmed'
    BY <1>3, <2>1, LeaveStep DEF Reload
  <2> QED
    BY <1>3, <2>1, <2>2, Frames DEF Reload, VaultInv
<1>4. CASE LoadMail(t)
  <2>1. ServerOK' /\ Grows(stored, stored') /\ UNCHANGED <<stored, mem, form>>
    BY <1>4, ServerFrame DEF LoadMail
  <2>2. CASE cookie = None
    <3>1. page' = [page EXCEPT ![t] = "auth"] /\ UNCHANGED <<me, stores, guard, ops>>
      BY <1>4, <2>2 DEF LoadMail
    <3>2. PagesOK'
      BY <3>1 DEF VaultInv, PagesOK
    <3> QED
      BY <2>1, <3>1, <3>2, Frames DEF VaultInv
  <2>3. CASE cookie # None
    <3>1. /\ page' = [page EXCEPT ![t] = "mail"] /\ me' = [me EXCEPT ![t] = cookie]
          /\ tryRestoreAccountFromSession(t, "mount", cookie, NewGuard)
      BY <1>4, <2>3 DEF LoadMail
    <3>2. cookie \in Accounts
      BY <2>3 DEF VaultInv, ServerOK, Emails
    <3>3. PagesOK'
      BY <3>1, <3>2 DEF VaultInv, PagesOK, Emails
    <3>4. NewGuard \in GuardStates
      BY BlankGood
    <3>5. GuardOK' /\ OpsOK' /\ CachesOK' /\ IdleArmed'
      BY <2>1, <3>1, <3>2, <3>4, RestoreStep
    <3> QED
      BY <2>1, <3>3, <3>5, Frames DEF VaultInv
  <2> QED
    BY <2>2, <2>3
<1>5. CASE Tick(t)
  <2>1. ServerOK' /\ Grows(stored, stored') /\ UNCHANGED <<stored, page, me, mem, form>>
    BY <1>5, ServerFrame DEF Tick
  <2>2. guard[t] \in GuardStates /\ me[t] \in Accounts
    BY <1>5 DEF VaultInv, GuardOK, PagesOK, Tick
  <2>3. CASE mem[t].priv # None
    <3>1. guard' = [guard EXCEPT ![t] = guardTicked(guard[t], TRUE)] /\ UNCHANGED <<stores, ops>>
      BY <1>5, <2>3 DEF Tick, VaultInv, GuardOK
    <3>2. GuardOK'
      BY <2>2, <3>1, GuardGood DEF VaultInv, GuardOK
    <3> QED
      BY <2>1, <3>1, <3>2, Frames DEF VaultInv
  <2>4. CASE mem[t].priv = None
    <3>1. tryRestoreAccountFromSession(t, "tick", me[t], guard[t])
      BY <1>5, <2>4 DEF Tick
    <3>2. GuardOK' /\ OpsOK' /\ CachesOK' /\ IdleArmed'
      BY <2>1, <2>2, <3>1, RestoreStep
    <3> QED
      BY <2>1, <3>2, Frames DEF VaultInv
  <2> QED
    BY <2>3, <2>4, SMTT(30)
<1> QED
  BY <1>1, <1>2, <1>3, <1>4, <1>5

\* Timeouts, the vault button and leaving the session.
LEMMA LockSteps ==
  ASSUME VaultInv, NEW t \in Tabs,
         IdleTimeout(t) \/ Lock(t) \/ CloseDialog(t) \/ handleLogout(t)
  PROVE  VaultInv'
<1>1. Blank \in GoodMems(stored) /\ Blank.priv = None
  BY BlankGood
<1>2. UNCHANGED stored => (mem' = [mem EXCEPT ![t] = Blank] => MemOK')
  BY <1>1 DEF VaultInv, MemOK
<1>3. mem' = [mem EXCEPT ![t] = Blank] /\ UNCHANGED ops => IdleArmed'
  BY <1>1 DEF VaultInv, IdleArmed, MemOK
<1>4. CASE IdleTimeout(t)
  <2>1. ServerOK' /\ Grows(stored, stored') /\ UNCHANGED stored
    BY <1>4, ServerFrame DEF IdleTimeout
  <2> QED
    BY <1>2, <1>3, <1>4, <2>1, Frames DEF IdleTimeout, VaultInv
<1>5. ASSUME guard' = [guard EXCEPT ![t].modal = TRUE] \/ guard' = [guard EXCEPT ![t].modal = FALSE]
      PROVE  GuardOK'
  BY <1>5, ZenonT(30) DEF VaultInv, GuardOK, GuardStates
<1>6. CASE Lock(t)
  <2>1. ServerOK' /\ Grows(stored, stored') /\ UNCHANGED stored
    BY <1>6, ServerFrame DEF Lock
  <2>2. GuardOK' /\ UNCHANGED <<page, me, form, ops>>
    BY <1>5, <1>6 DEF Lock
  <2>3. CASE guard[t].unlocked
    <3>1. mem' = [mem EXCEPT ![t] = Blank] /\ SetStores(clearAllPersistedCaches(Stores, t))
      BY <1>6, <2>3 DEF Lock
    <3>2. CachesOK'
      BY <2>1, <3>1, StoresNow, ClearGood, StoresStep
    <3> QED
      BY <1>2, <1>3, <2>1, <2>2, <3>1, <3>2, Frames DEF VaultInv
  <2>4. CASE ~guard[t].unlocked
    <3>1. UNCHANGED <<mem, stores>>
      BY <1>6, <2>4 DEF Lock
    <3> QED
      BY <2>1, <2>2, <3>1, Frames DEF VaultInv
  <2> QED
    BY <2>3, <2>4
<1>7. CASE CloseDialog(t)
  <2>1. ServerOK' /\ Grows(stored, stored') /\ GuardOK'
    BY <1>5, <1>7, ServerFrame DEF CloseDialog
  <2> QED
    BY <1>7, <2>1, Frames DEF CloseDialog, VaultInv
<1>8. CASE handleLogout(t)
  <2>1. UNCHANGED <<stored, ids, me, guard>> /\ Event /\ cookie' = None /\ Leave(t, "loading")
    BY <1>8 DEF handleLogout
  <2>2. Grows(stored, stored') /\ MaxEvents \in Nat
    BY <2>1, SameGrows, VaultAssumption
  <2>3. ServerOK'
    BY <2>1, <2>2, SMT DEF VaultInv, ServerOK, Event, Emails
  <2>4. PagesOK' /\ FormOK' /\ OpsOK' /\ MemOK' /\ IdleArmed'
    BY <2>1, <2>2, LeaveStep
  <2>5. CachesOK'
    <3> DEFINE st == clearAllPersistedCaches(Stores, t)
    <3>1. st \in StoresOf(stored)
      BY StoresNow, ClearGood
    <3>2. PICK trusted \in readTrustedDeviceFlag(st, t) :
            SetStores(setTrustedDevice(st, t, FALSE, trusted))
      BY <1>8 DEF handleLogout
    <3> HIDE DEF st
    <3>3. trusted \in BOOLEAN
      BY FlagIsBoolean
    <3>4. setTrustedDevice(st, t, FALSE, trusted) \in StoresOf(stored)
      BY <3>1, <3>3, TrustGood
    <3> QED
      BY <2>1, <3>2, <3>4, StoresStep
  <2> QED
    BY <2>1, <2>2, <2>3, <2>4, <2>5, Frames DEF VaultInv
<1> QED
  BY <1>4, <1>6, <1>7, <1>8

-----------------------------------------------------------------------------
(* The login and registration pages *)

\* Steps of a form that touch nothing else of the tab.
LEMMA FormOnly ==
  ASSUME VaultInv, ServerOK', Grows(stored, stored'), FormOK',
         UNCHANGED <<page, me, mem, stores, guard, ops>>
  PROVE  VaultInv'
BY Frames DEF VaultInv

\* A password form starts with the account it names.
LEMMA NamedGood ==
  ASSUME NEW a \in Accounts, NEW s \in {"srp", "register"}, NEW b \in BOOLEAN
  PROVE  [stage |-> s, pw |-> a, email |-> a, trust |-> b] \in GoodForms
BY DEF GoodForms, Emails, Stages, Named

\* The login form, its fallback and the second factor.
LEMMA LoginSteps ==
  ASSUME VaultInv, NEW t \in Tabs,
         \/ LoginAnswer(t) \/ LoginFails(t) \/ SubmitFactor(t) \/ FactorAnswer(t)
         \/ BackFromFactor(t)
         \/ \E a \in Accounts, b \in BOOLEAN : submitPrimaryLogin(t, a, b)
         \/ \E a \in Accounts : submitRegister(t, a) \/ SubmitUnlock(t, a)
  PROVE  VaultInv'
<1>1. FormOK /\ form[t] \in GoodForms /\ form \in [Tabs -> GoodForms]
  BY DEF VaultInv, FormOK
<1>2. form[t].stage \in Named => form[t].pw \in Accounts /\ form[t].email \in Accounts
  BY <1>1, SMTT(30) DEF GoodForms
<1>3. ASSUME NEW s \in Named, form[t].stage \in Named, form' = [form EXCEPT ![t].stage = s]
      PROVE  FormOK'
  BY <1>1, <1>2, <1>3, FormSteps DEF Stage, Stages, Named
<1>4. {"srp", "legacy", "mfa", "mfacheck", "key"} \subseteq Named
  BY DEF Named
<1>5. ASSUME cookie' = form[t].email, form[t].stage \in Named, UNCHANGED <<stored, ids, events>>
      PROVE  ServerOK'
  BY <1>2, <1>5 DEF VaultInv, ServerOK, Emails
<1>6. CASE LoginAnswer(t)
  <2>1. /\ form[t].stage \in Named /\ UNCHANGED <<stored, ids, page, me, mem, stores, guard, ops, events>>
        /\ \/ form' = [form EXCEPT ![t].stage = "mfa"] /\ UNCHANGED cookie
           \/ form' = [form EXCEPT ![t].stage = "key"] /\ cookie' = form[t].email
    BY <1>4, <1>6 DEF LoginAnswer
  <2>2. ServerOK'
    BY <1>5, <2>1, ServerFrame DEF server
  <2> QED
    BY <1>3, <1>4, <2>1, <2>2, SameGrows, FormOnly
<1>7. CASE LoginFails(t)
  <2>1. /\ form[t].stage \in Named /\ UNCHANGED <<server, page, me, mem, stores, guard, ops, events>>
        /\ \/ form' = [form EXCEPT ![t].stage = "legacy"]
           \/ FormFails(t)
    BY <1>1, <1>4, <1>7 DEF LoginFails, FormFails
  <2>2. FormOK'
    BY <1>1, <1>3, <1>4, <2>1, FormSteps
  <2> QED
    BY <2>1, <2>2, ServerFrame, FormOnly
<1>8. CASE SubmitFactor(t)
  <2>1. FormOK'
    BY <1>3, <1>4, <1>8, ZenonT(30) DEF SubmitFactor
  <2> QED
    BY <1>8, <2>1, ServerFrame, FormOnly DEF SubmitFactor
<1>9. CASE FactorAnswer(t)
  <2>1. /\ form[t].stage \in Named /\ UNCHANGED <<stored, ids, page, me, mem, stores, guard, ops, events>>
        /\ \/ form' = [form EXCEPT ![t].stage = "mfa"] /\ UNCHANGED cookie
           \/ form' = [form EXCEPT ![t].stage = "key"] /\ cookie' = form[t].email
    BY <1>4, <1>9 DEF FactorAnswer
  <2>2. ServerOK'
    BY <1>5, <2>1, ServerFrame DEF server
  <2> QED
    BY <1>3, <1>4, <2>1, <2>2, SameGrows, FormOnly
<1>10. CASE BackFromFactor(t)
  <2>1. FormOK'
    BY <1>1, <1>10, FormSteps, BlankGood DEF BackFromFactor
  <2> QED
    BY <1>10, <2>1, ServerFrame, FormOnly DEF BackFromFactor
<1>11. ASSUME NEW a \in Accounts, NEW b \in BOOLEAN, submitPrimaryLogin(t, a, b)
       PROVE  VaultInv'
  <2>1. FormOK'
    BY <1>1, <1>11, FormSteps, NamedGood DEF submitPrimaryLogin
  <2> QED
    BY <1>11, <2>1, ServerFrame, FormOnly DEF submitPrimaryLogin
<1>12. ASSUME NEW a \in Accounts, submitRegister(t, a) PROVE VaultInv'
  <2>1. FormOK'
    BY <1>1, <1>12, FormSteps, NamedGood DEF submitRegister
  <2> QED
    BY <1>12, <2>1, ServerFrame, FormOnly DEF submitRegister
<1>13. ASSUME NEW a \in Accounts, SubmitUnlock(t, a) PROVE VaultInv'
  <2>1. [stage |-> "me", pw |-> a, email |-> None, trust |-> FALSE] \in GoodForms
    BY DEF GoodForms, Emails, Stages, Named
  <2>2. FormOK'
    BY <1>1, <1>13, <2>1, FormSteps DEF SubmitUnlock
  <2> QED
    BY <1>13, <2>2, ServerFrame, FormOnly DEF SubmitUnlock
<1> QED
  BY <1>6, <1>7, <1>8, <1>9, <1>10, <1>11, <1>12, <1>13

\* A key is stored for an account that has none, with the account as its owner.
LEMMA StoreKey ==
  ASSUME VaultInv, NEW a \in Accounts, stored[a] = None, NEW k \in Keys, k.owner = a,
         stored' = [stored EXCEPT ![a] = k], NEW n \in Nat, ids' = [ids EXCEPT ![a] = n],
         cookie' \in Emails, UNCHANGED events
  PROVE  ServerOK' /\ Grows(stored, stored')
<1>1. stored \in [Accounts -> Keys \cup {None}] /\ ids \in [Accounts -> Nat]
  BY DEF VaultInv, ServerOK
<1>2. stored'[a] = k /\ \A b \in Accounts : b # a => stored'[b] = stored[b]
  BY <1>1
<1>3. stored' \in [Accounts -> Keys \cup {None}] /\ ids' \in [Accounts -> Nat]
  BY <1>1
<1>4. Grows(stored, stored')
  BY <1>2 DEF Grows
<1> QED
  BY <1>2, <1>3, <1>4 DEF VaultInv, ServerOK

\* Registration stores the first key of a new account.
LEMMA RegisterStep ==
  ASSUME VaultInv, NEW t \in Tabs, RegisterAnswer(t)
  PROVE  VaultInv'
<1> DEFINE a == form[t].email
           k == [owner |-> a, pw |-> form[t].pw, by |-> None]
<1>1. form[t] \in GoodForms /\ form[t].stage = "register"
  BY DEF VaultInv, FormOK, RegisterAnswer
<1>2. a \in Accounts /\ form[t].pw \in Accounts
  BY <1>1 DEF GoodForms, Named
<1>3. k \in Keys /\ k.owner = a
  BY <1>2 DEF Keys
<1>4. CASE a \in registered
  <2>1. /\ form' = [form EXCEPT ![t] = IdleForm]
        /\ UNCHANGED <<server, page, me, mem, stores, guard, ops, events>>
    BY <1>4 DEF RegisterAnswer
  <2>2. FormOK'
    BY <2>1, FormSteps, BlankGood DEF VaultInv
  <2> QED
    BY <2>1, <2>2, ServerFrame, FormOnly
<1>5. CASE a \notin registered
  <2>1. /\ stored' = [stored EXCEPT ![a] = k] /\ ids' = [ids EXCEPT ![a] = 1] /\ cookie' = a
        /\ Leave(t, "loading") /\ UNCHANGED <<me, stores, guard, events>>
    BY <1>5 DEF RegisterAnswer
  <2>2. stored[a] = None
    BY <1>2, <1>5 DEF registered
  <2> HIDE DEF a, k
  <2>3. ServerOK' /\ Grows(stored, stored')
    BY <1>2, <1>3, <2>1, <2>2, StoreKey DEF Emails
  <2>4. PagesOK' /\ FormOK' /\ OpsOK' /\ MemOK' /\ IdleArmed'
    BY <2>1, <2>3, LeaveStep
  <2> QED
    BY <2>1, <2>3, <2>4, Frames DEF VaultInv
<1> QED
  BY <1>4, <1>5

\* The end of a login: the box is stored and the tab moves on.
LEMMA FinalizeStep ==
  ASSUME VaultInv, NEW t \in Tabs, NEW st, st \in StoresOf(stored), finalizeLogin(t, st),
         UNCHANGED <<server, me, guard, events>>
  PROVE  VaultInv'
<1>1. ServerOK' /\ Grows(stored, stored') /\ UNCHANGED stored
  BY ServerFrame
<1>2. Leave(t, "loading")
  BY DEF finalizeLogin
<1>3. PagesOK' /\ FormOK' /\ OpsOK' /\ MemOK' /\ IdleArmed'
  BY <1>1, <1>2, LeaveStep
<1>4. PICK trusted \in readTrustedDeviceFlag(st, t) :
        SetStores(setTrustedDevice(st, t, form[t].trust, trusted))
  BY DEF finalizeLogin
<1>5. trusted \in BOOLEAN /\ form[t].trust \in BOOLEAN
  BY FlagIsBoolean DEF VaultInv, FormOK, GoodForms
<1>6. setTrustedDevice(st, t, form[t].trust, trusted) \in StoresOf(stored)
  BY <1>5, TrustGood
<1>7. CachesOK'
  BY <1>1, <1>4, <1>6, StoresStep
<1> QED
  BY <1>1, <1>3, <1>7, Frames DEF VaultInv

-----------------------------------------------------------------------------
(* The unlock dialog *)

\* A hydration that starts carries the key the server has just answered with.
LEMMA OpStarts ==
  ASSUME VaultInv, NEW t \in Tabs, NEW o, o \in GoodOps(stored), UNCHANGED <<stored, mem>>,
         ops' = [ops EXCEPT ![t] = ops[t] \cup {o}]
  PROVE  OpsOK' /\ IdleArmed'
<1>1. ops \in [Tabs -> SUBSET GoodOps(stored)]
  BY DEF VaultInv, OpsOK
<1>2. OpsOK'
  BY <1>1 DEF OpsOK
<1>3. \A u \in Tabs : ops[u] \subseteq ops'[u]
  BY <1>1
<1> QED
  BY <1>2, <1>3 DEF VaultInv, IdleArmed

\* The answer with the account key.
LEMMA KeyStep ==
  ASSUME VaultInv, NEW t \in Tabs, KeyAnswer(t)
  PROVE  VaultInv'
<1> DEFINE k == IF cookie = None THEN None ELSE stored[cookie]
           kind == IF page[t] = "auth" THEN "login" ELSE "modal"
           o == [kind |-> kind, email |-> form[t].email, key |-> k, stage |-> "read"]
<1>1. /\ form[t] \in GoodForms /\ form[t].stage \in {"key", "refetch"} /\ FormOK
      /\ ops \in [Tabs -> SUBSET GoodOps(stored)]
      /\ UNCHANGED <<server, me, guard, events>>
  BY DEF VaultInv, FormOK, OpsOK, KeyAnswer
<1>2. form[t].pw \in Accounts /\ form[t].email \in Accounts
  BY <1>1 DEF GoodForms, Named
<1>3. ServerOK' /\ Grows(stored, stored') /\ UNCHANGED stored
  BY <1>1, ServerFrame
<1>4. kind \in {"login", "modal"}
  BY SMTT(30)
<1>5. CASE k # None
  <2>1. cookie \in Accounts /\ k = stored[cookie]
    BY <1>5 DEF VaultInv, ServerOK, Emails
  <2>2. InUse(k, stored)
    BY <1>5, <2>1 DEF VaultInv, ServerOK, InUse
  <2>3. /\ Stage(t, "hydrate") /\ ops' = [ops EXCEPT ![t] = ops[t] \cup {o}]
        /\ UNCHANGED <<page, mem, stores>>
    BY <1>1, <1>5 DEF KeyAnswer
  <2> HIDE DEF k, kind
  <2>4. o \in GoodOps(stored)
    BY <1>2, <1>4, <2>2 DEF GoodOps, Ops, InUse
  <2> HIDE DEF o
  <2>5. OpsOK' /\ IdleArmed'
    BY <1>3, <2>3, <2>4, OpStarts
  <2>6. "hydrate" \in Stages /\ "hydrate" \notin Named \cup {"me"}
    BY DEF Stages, Named
  <2>7. FormOK'
    BY <1>1, <2>3, <2>6, FormSteps
  <2> QED
    BY <1>1, <1>3, <2>3, <2>5, <2>7, Frames DEF VaultInv
<1>6. CASE k = None /\ kind = "login"
  <2>1. finalizeLogin(t, Stores)
    BY <1>6 DEF KeyAnswer
  <2> QED
    BY <1>1, <2>1, StoresNow, FinalizeStep
<1>7. CASE k = None /\ kind = "modal"
  <2>1. FormFails(t) \/ Stage(t, "boot")
    BY <1>7 DEF KeyAnswer
  <2>2. UNCHANGED <<page, mem, stores, ops>>
    BY <1>7 DEF KeyAnswer
  <2>3. "boot" \in Stages
    BY DEF Stages
  <2>4. FormOK'
    BY <1>1, <1>2, <2>1, <2>3, FormSteps
  <2> QED
    BY <1>1, <1>3, <2>2, <2>4, FormOnly
<1> QED
  BY <1>4, <1>5, <1>6, <1>7

\* bootstrapNew stores a key only where there is none.
LEMMA BootStep ==
  ASSUME VaultInv, NEW t \in Tabs, BootAnswer(t)
  PROVE  VaultInv'
<1> DEFINE k == [owner |-> cookie, pw |-> form[t].pw, by |-> t]
<1>1. /\ form[t] \in GoodForms /\ form[t].stage = "boot" /\ FormOK
      /\ UNCHANGED <<cookie, page, me, mem, stores, guard, ops, events>>
  BY DEF VaultInv, FormOK, BootAnswer
<1>2. form[t].pw \in Accounts /\ form[t].email \in Accounts
  BY <1>1, SMTT(30) DEF GoodForms, Named
<1>3. CASE cookie = None \/ stored[cookie] # None
  <2>1. FormFails(t) /\ UNCHANGED <<stored, ids>>
    BY <1>3, SMTT(30) DEF BootAnswer
  <2>2. FormOK'
    BY <1>1, <2>1, FormSteps
  <2> QED
    BY <1>1, <2>1, <2>2, ServerFrame, FormOnly, SMTT(30) DEF server
<1>4. CASE cookie # None /\ stored[cookie] = None
  <2>1. cookie \in Accounts /\ ids[cookie] \in Nat
    BY <1>4 DEF VaultInv, ServerOK, Emails
  <2>2. k \in Keys /\ k.owner = cookie
    BY <1>2, <2>1 DEF Keys
  <2>3. /\ stored' = [stored EXCEPT ![cookie] = k]
        /\ ids' = [ids EXCEPT ![cookie] = ids[cookie] + 1] /\ Stage(t, "refetch")
    BY <1>4, <2>1 DEF BootAnswer, VaultInv, ServerOK
  <2> HIDE DEF k
  <2>4. cookie' \in Emails /\ ids[cookie] + 1 \in Nat
    BY <1>1, <2>1, SMTT(30), SMT DEF Emails
  <2>5. ServerOK' /\ Grows(stored, stored')
    BY <1>1, <1>4, <2>1, <2>2, <2>3, <2>4, StoreKey
  <2>6. "refetch" \in Stages
    BY DEF Stages
  <2>7. FormOK'
    BY <1>1, <1>2, <2>3, <2>6, FormSteps
  <2> QED
    BY <1>1, <2>5, <2>7, FormOnly
<1> QED
  BY <1>3, <1>4

\* The end of an unlock hides the dialog.
LEMMA UnlockedStep ==
  ASSUME VaultInv, NEW t \in Tabs, Unlocked(t)
  PROVE  FormOK' /\ GuardOK'
<1>1. FormOK'
  BY FormSteps, BlankGood DEF VaultInv, Unlocked
<1>2. GuardOK'
  BY ZenonT(30) DEF VaultInv, GuardOK, GuardStates, Unlocked
<1> QED
  BY <1>1, <1>2

\* The other answers to the dialog, and requests that are lost.
LEMMA DialogSteps ==
  ASSUME VaultInv, NEW t \in Tabs,
         MeAnswer(t) \/ IdsAnswer(t) \/ MintAnswer(t) \/ RequestFails(t)
  PROVE  VaultInv'
<1>1. /\ FormOK /\ form[t] \in GoodForms /\ cookie \in Emails /\ ids \in [Accounts -> Nat]
      /\ form \in [Tabs -> GoodForms]
  BY DEF VaultInv, FormOK, ServerOK
<1>2. CASE MeAnswer(t)
  <2>1. UNCHANGED <<server, page, me, mem, stores, guard, ops, events>> /\ form[t].stage = "me"
    BY <1>2 DEF MeAnswer
  <2>2. CASE cookie = None
    <3>1. FormOK'
      BY <1>1, <1>2, <2>2, FormSteps DEF MeAnswer
    <3> QED
      BY <2>1, <3>1, ServerFrame, FormOnly
  <2>3. CASE cookie # None
    <3> DEFINE f == [form[t] EXCEPT !.stage = "key", !.email = cookie]
    <3>1. form' = [form EXCEPT ![t] = f]
      BY <1>1, <1>2, <2>3 DEF MeAnswer
    <3>2. f \in GoodForms
      BY <1>1, <2>1, <2>3 DEF GoodForms, Emails, Stages, Named
    <3>3. FormOK'
      BY <1>1, <3>1, <3>2, FormSteps
    <3> QED
      BY <2>1, <3>3, ServerFrame, FormOnly
  <2> QED
    BY <2>2, <2>3
<1>3. CASE IdsAnswer(t)
  <2>1. ServerOK' /\ Grows(stored, stored') /\ UNCHANGED <<stored, page, me, mem, stores, ops>>
    BY <1>3, ServerFrame DEF IdsAnswer
  <2>2. cookie # None => ids[cookie] \in Nat
    BY <1>1 DEF Emails
  <2>3. \/ FormFails(t) /\ UNCHANGED guard
        \/ Stage(t, "mint") /\ UNCHANGED guard
        \/ Unlocked(t)
    <3>1. CASE cookie = None
      BY <1>3, <3>1 DEF IdsAnswer
    <3>2. CASE cookie # None /\ ids[cookie] = 0
      BY <1>3, <3>2 DEF IdsAnswer
    <3>3. CASE cookie # None /\ ids[cookie] > 0
      BY <1>3, <3>3, ZenonT(30) DEF IdsAnswer
    <3> QED
      BY <2>2, <3>1, <3>2, <3>3, SMT
  <2>4. "mint" \in Stages /\ "mint" \notin Named \cup {"me"}
    BY DEF Stages, Named
  <2>5. FormOK' /\ GuardOK'
    BY <1>1, <2>1, <2>3, <2>4, FormSteps, UnlockedStep, Frames
  <2> QED
    BY <2>1, <2>5, Frames DEF VaultInv
<1>4. CASE MintAnswer(t)
  <2>1. UNCHANGED <<cookie, stored, page, me, mem, stores, ops, events>>
    BY <1>4 DEF MintAnswer
  <2>2. CASE cookie = None
    <3>1. FormFails(t) /\ UNCHANGED <<ids, guard>>
      BY <1>4, <2>2 DEF MintAnswer
    <3>2. FormOK'
      BY <1>1, <3>1, FormSteps
    <3> QED
      BY <2>1, <3>1, <3>2, ServerFrame, FormOnly, SMTT(30) DEF server
  <2>3. CASE cookie # None
    <3>1. ids' = [ids EXCEPT ![cookie] = ids[cookie] + 1] /\ Unlocked(t) /\ cookie \in Accounts
      BY <1>1, <1>4, <2>3 DEF MintAnswer, Emails
    <3>2. ServerOK'
      BY <1>1, <2>1, <3>1, SMT DEF VaultInv, ServerOK
    <3>3. FormOK' /\ GuardOK'
      BY <3>1, UnlockedStep
    <3> QED
      BY <2>1, <3>2, <3>3, SameGrows, Frames DEF VaultInv
  <2> QED
    BY <2>2, <2>3
<1>5. CASE RequestFails(t)
  <2>1. FormOK'
    BY <1>1, <1>5, FormSteps DEF RequestFails
  <2> QED
    BY <1>5, <2>1, ServerFrame, FormOnly DEF RequestFails
<1> QED
  BY <1>2, <1>3, <1>4, <1>5

-----------------------------------------------------------------------------
(* Hydration *)

\* The private key is set, or the password does not fit.
LEMMA HydrateReadStep ==
  ASSUME VaultInv, NEW t \in Tabs, NEW o \in ops[t], HydrateRead(t, o)
  PROVE  VaultInv'
<1>1. /\ UNCHANGED <<server, me, guard, events>> /\ o.stage = "read" /\ o.kind # "identity"
      /\ ops \in [Tabs -> SUBSET GoodOps(stored)] /\ o \in GoodOps(stored)
      /\ mem \in [Tabs -> GoodMems(stored)] /\ FormOK
  BY DEF HydrateRead, VaultInv, OpsOK, MemOK
<1>2. ServerOK' /\ Grows(stored, stored') /\ UNCHANGED stored
  BY <1>1, ServerFrame
<1> DEFINE wrong == o.kind \in {"login", "modal"} /\ o.key.pw # form[t].pw
<1>3. CASE wrong /\ o.kind = "login"
  <2>1. finalizeLogin(t, Stores)
    BY <1>3 DEF HydrateRead
  <2> QED
    BY <1>1, <2>1, StoresNow, FinalizeStep
<1>4. CASE wrong /\ o.kind # "login"
  <2>1. FormFails(t) /\ ops' = [ops EXCEPT ![t] = ops[t] \ {o}] /\ UNCHANGED <<page, mem, stores>>
    BY <1>1, <1>4 DEF HydrateRead
  <2>2. OpsOK'
    BY <1>1, <1>2, <2>1 DEF OpsOK
  <2>3. \A u \in Tabs : \A p \in ops[u] : p.stage = "pub" => p \in ops'[u]
    BY <1>1, <2>1
  <2>4. IdleArmed'
    BY <2>1, <2>3 DEF VaultInv, IdleArmed
  <2>5. FormOK'
    BY <1>1, <2>1, FormSteps
  <2> QED
    BY <1>1, <1>2, <2>1, <2>2, <2>4, <2>5, Frames DEF VaultInv
<1>5. CASE ~wrong
  <2> DEFINE p == [o EXCEPT !.stage = "pub"]
             m == [mem[t] EXCEPT !.priv = o.key]
  <2>1. /\ mem' = [mem EXCEPT ![t] = m] /\ ops' = [ops EXCEPT ![t] = (ops[t] \ {o}) \cup {p}]
        /\ UNCHANGED <<page, stores, form>>
    BY <1>1, <1>5 DEF HydrateRead
  <2>2. p \in GoodOps(stored) /\ p.stage = "pub"
    BY <1>1 DEF GoodOps, Ops
  <2>3. m \in GoodMems(stored)
    <3>1. InUse(o.key, stored) /\ mem[t] \in GoodMems(stored)
      BY <1>1 DEF GoodOps
    <3> QED
      BY <3>1 DEF GoodMems, InUse
  <2> HIDE DEF p, m, wrong
  <2>4. OpsOK'
    BY <1>1, <1>2, <2>1, <2>2 DEF OpsOK
  <2>5. MemOK'
    BY <1>1, <1>2, <2>1, <2>3 DEF MemOK
  <2>6. IdleArmed'
    <3>1. p \in ops'[t]
      BY <1>1, <2>1
    <3>2. \A u \in Tabs : u # t => ops'[u] = ops[u] /\ mem'[u] = mem[u]
      BY <1>1, <2>1
    <3> QED
      BY <2>2, <3>1, <3>2 DEF VaultInv, IdleArmed
  <2> QED
    BY <1>1, <1>2, <2>1, <2>4, <2>5, <2>6, Frames DEF VaultInv
<1> QED
  BY <1>3, <1>4, <1>5

\* The vault of a tab is replaced by one whose timer runs.
LEMMA ArmedStep ==
  ASSUME VaultInv, NEW t \in Tabs, NEW o, NEW m, m \in GoodMems(stored), m.timer,
         UNCHANGED stored, mem' = [mem EXCEPT ![t] = m], ops' = [ops EXCEPT ![t] = ops[t] \ {o}]
  PROVE  OpsOK' /\ MemOK' /\ IdleArmed'
<1>1. ops \in [Tabs -> SUBSET GoodOps(stored)] /\ mem \in [Tabs -> GoodMems(stored)]
  BY DEF VaultInv, OpsOK, MemOK
<1>2. OpsOK' /\ MemOK'
  BY <1>1 DEF OpsOK, MemOK
<1>3. mem'[t] = m /\ \A u \in Tabs : u # t => ops'[u] = ops[u] /\ mem'[u] = mem[u]
  BY <1>1
<1> QED
  BY <1>2, <1>3, ZenonT(30) DEF VaultInv, IdleArmed

\* The rest of the state object follows, and the timer is armed.
LEMMA HydratePubStep ==
  ASSUME VaultInv, NEW t \in Tabs, NEW o \in ops[t], HydratePub(t, o)
  PROVE  VaultInv'
<1> DEFINE m == touch([mem[t] EXCEPT !.armored = o.key, !.idents = None])
           c == [email |-> o.email, key |-> o.key]
           st == {persistAccountCache(Stores, t, c, trusted) :
                    trusted \in readTrustedDeviceFlag(Stores, t)}
<1>1. /\ UNCHANGED <<server, me, events>> /\ o.stage = "pub" /\ o \in GoodOps(stored)
      /\ mem \in [Tabs -> GoodMems(stored)] /\ ops \in [Tabs -> SUBSET GoodOps(stored)]
      /\ FormOK /\ guard \in [Tabs -> GuardStates]
  BY DEF HydratePub, VaultInv, OpsOK, MemOK, GuardOK
<1>2. ServerOK' /\ Grows(stored, stored') /\ UNCHANGED stored
  BY <1>1, ServerFrame
<1>3. InUse(o.key, stored) /\ o.email \in Accounts /\ o.kind # "identity" /\ o.key \in Keys
  BY <1>1 DEF GoodOps, Ops
<1>4. m \in GoodMems(stored) /\ m.timer
  <2>1. mem[t] \in GoodMems(stored)
    BY <1>1
  <2> QED
    BY <1>3, <2>1 DEF GoodMems, touch
<1>5. \A s \in st : s \in StoresOf(stored)
  <2>1. c \in Caches /\ InUse(c.key, stored)
    BY <1>3 DEF Caches
  <2> HIDE DEF c
  <2> QED
    BY <2>1, StoresNow, FlagIsBoolean, PersistGood, SMT
<1>6. CASE o.kind = "login"
  <2>1. UNCHANGED guard /\ \E s \in st : finalizeLogin(t, s)
    BY <1>6 DEF HydratePub
  <2> HIDE DEF st
  <2> QED
    BY <1>1, <1>5, <2>1, FinalizeStep
<1>7. CASE o.kind = "modal"
  <2>1. \E s \in st : SetStores(s)
    BY <1>7 DEF HydratePub
  <2>2. /\ mem' = [mem EXCEPT ![t] = m] /\ ops' = [ops EXCEPT ![t] = ops[t] \ {o}]
        /\ Stage(t, "ids") /\ UNCHANGED <<page, guard>>
    BY <1>1, <1>7 DEF HydratePub
  <2> HIDE DEF st, m
  <2>3. CachesOK'
    BY <1>2, <1>5, <2>1, StoresStep
  <2>4. OpsOK' /\ MemOK' /\ IdleArmed'
    BY <1>2, <1>4, <2>2, ArmedStep
  <2>5. "ids" \in Stages /\ "ids" \notin Named \cup {"me"}
    BY DEF Stages, Named
  <2>6. FormOK'
    BY <1>1, <2>2, <2>5, FormSteps
  <2> QED
    BY <1>1, <1>2, <2>2, <2>3, <2>4, <2>6, Frames DEF VaultInv
<1>8. CASE o.kind \in {"mount", "tick"}
  <2>1. /\ mem' = [mem EXCEPT ![t] = m] /\ ops' = [ops EXCEPT ![t] = ops[t] \ {o}]
        /\ guard' = [guard EXCEPT ![t] = guardSettled(o.kind, guard[t], m.priv # None)]
        /\ UNCHANGED <<page, stores, form>>
    BY <1>1, <1>8 DEF HydratePub
  <2> HIDE DEF st, m
  <2>2. OpsOK' /\ MemOK' /\ IdleArmed'
    BY <1>2, <1>4, <2>1, ArmedStep
  <2>3. GuardOK'
    <3>1. guardSettled(o.kind, guard[t], m.priv # None) \in GuardStates
      BY <1>1, GuardGood, ZenonT(30)
    <3> QED
      BY <1>1, <2>1, <3>1 DEF GuardOK
  <2> QED
    BY <1>1, <1>2, <2>1, <2>2, <2>3, Frames DEF VaultInv
<1>9. o.kind \in {"login", "modal", "mount", "tick"}
  BY <1>1, <1>3 DEF GoodOps, Ops
<1> QED
  BY <1>6, <1>7, <1>8, <1>9

\* Identity keys are unlocked with the vault's key.
LEMMA IdentitySteps ==
  ASSUME VaultInv, NEW t \in Tabs,
         ensureIdentityUnlocked(t) \/ \E o \in ops[t] : unlockIdentity(t, o)
  PROVE  VaultInv'
<1>1. mem \in [Tabs -> GoodMems(stored)] /\ ops \in [Tabs -> SUBSET GoodOps(stored)]
  BY DEF VaultInv, OpsOK, MemOK
<1>2. CASE ensureIdentityUnlocked(t)
  <2> DEFINE o == [kind |-> "identity", email |-> None, key |-> mem[t].priv, stage |-> "read"]
  <2>1. ServerOK' /\ Grows(stored, stored') /\ UNCHANGED stored
    BY <1>2, ServerFrame, SMTT(30) DEF ensureIdentityUnlocked
  <2>2. /\ mem[t].priv # None /\ ops' = [ops EXCEPT ![t] = ops[t] \cup {o}]
        /\ UNCHANGED <<page, me, mem, stores, guard, form>>
    BY <1>1, <1>2 DEF ensureIdentityUnlocked
  <2>3. InUse(mem[t].priv, stored)
    BY <1>1, <2>2, SMTT(30) DEF GoodMems
  <2>4. o \in GoodOps(stored)
    BY <2>3 DEF GoodOps, Ops, InUse
  <2> HIDE DEF o
  <2>5. OpsOK' /\ IdleArmed'
    BY <2>1, <2>2, <2>4, OpStarts
  <2> QED
    BY <2>1, <2>2, <2>5, Frames DEF VaultInv
<1>3. ASSUME NEW o \in ops[t], unlockIdentity(t, o) PROVE VaultInv'
  <2> DEFINE m == touch([mem[t] EXCEPT !.idents = o.key])
  <2>1. ServerOK' /\ Grows(stored, stored') /\ UNCHANGED stored
    BY <1>3, ServerFrame DEF unlockIdentity
  <2>2. /\ mem' = [mem EXCEPT ![t] = m] /\ ops' = [ops EXCEPT ![t] = ops[t] \ {o}]
        /\ UNCHANGED <<page, me, stores, guard, form>>
    BY <1>1, <1>3 DEF unlockIdentity
  <2>3. m \in GoodMems(stored) /\ m.timer
    <3>1. mem[t] \in GoodMems(stored) /\ o.key \in Keys
      BY <1>1, SMT DEF GoodOps, Ops
    <3> QED
      BY <3>1 DEF GoodMems, touch
  <2> HIDE DEF m
  <2>4. OpsOK' /\ MemOK' /\ IdleArmed'
    BY <2>1, <2>2, <2>3, ArmedStep, ZenonT(30)
  <2> QED
    BY <2>1, <2>2, <2>4, Frames DEF VaultInv
<1> QED
  BY <1>2, <1>3

-----------------------------------------------------------------------------
(* The theorems *)

\* Every step keeps the invariant.
LEMMA NextInv == VaultInv /\ [Next]_vars => VaultInv'
<1> SUFFICES ASSUME VaultInv, [Next]_vars PROVE VaultInv'
  OBVIOUS
<1>1. CASE UNCHANGED vars
  <2>1. UNCHANGED <<server, events, page, me, mem, stores, guard, form, ops>>
    BY <1>1 DEF vars, server, stores
  <2>2. ServerOK' /\ Grows(stored, stored')
    BY <2>1, ServerFrame
  <2> QED
    BY <2>1, <2>2, Frames DEF VaultInv
<1>2. ASSUME NEW t \in Tabs, Answer(t) PROVE VaultInv'
  BY <1>2, PageSteps, LoginSteps, RegisterStep, DialogSteps, KeyStep, BootStep,
     HydrateReadStep, HydratePubStep, IdentitySteps
  DEF Answer
<1>3. ASSUME NEW t \in Tabs, Tick(t) PROVE VaultInv'
  BY <1>3, PageSteps, SMTT(30)
<1>4. ASSUME NEW t \in Tabs, User(t) PROVE VaultInv'
  BY <1>4, PageSteps, LockSteps, LoginSteps, DialogSteps, IdentitySteps DEF User
<1> QED
  BY <1>1, <1>2, <1>3, <1>4 DEF Next

\* Whatever tabs, timers and answers interleave, every key in a hydration, in a
\* vault and in a cache is the one the server holds for its account.
THEOREM VaultInvariant == Spec => []VaultInv
BY InitInv, NextInv, PTL DEF Spec

\* A vault is only ever unlocked with the key the server holds for that account,
\* however many tabs make keys for it at the same time.
THEOREM UnlockedWithStored == Spec => []UnlockedIsStored
<1>1. VaultInv => UnlockedIsStored
  BY DEF VaultInv, MemOK, GoodMems, InUse, UnlockedIsStored
<1> QED
  BY <1>1, VaultInvariant, PTL

\* An unlocked vault has its idle timer running, or is about to arm it.
THEOREM TimerArmed == Spec => []IdleArmed
<1>1. VaultInv => IdleArmed
  BY DEF VaultInv
<1> QED
  BY <1>1, VaultInvariant, PTL

\* The key the server holds for an account is never replaced: two tabs that make
\* one for the same account agree on the first, which the other fetches.
KeyIsKept == [][\A a \in Accounts : stored[a] # None => stored'[a] = stored[a]]_vars

\* KeyIsKept holds of registration, of bootstrapNew and of every other step.
THEOREM FirstKeyStays == Spec => KeyIsKept
<1>1. [Next]_vars => [\A a \in Accounts : stored[a] # None => stored'[a] = stored[a]]_vars
  <2> SUFFICES ASSUME Next, ~UNCHANGED stored
               PROVE  \A a \in Accounts : stored[a] # None => stored'[a] = stored[a]
    BY SMTT(30) DEF vars
  <2>1. PICK t \in Tabs : RegisterAnswer(t) \/ BootAnswer(t)
    <3>1. PICK t \in Tabs : Answer(t) \/ Tick(t) \/ User(t)
      BY DEF Next
    <3>2. ~Tick(t)
      BY DEF Tick, server
    <3>3. ~User(t)
      BY DEF User, OpenTab, CloseTab, Reload, Lock, CloseDialog, handleLogout, SubmitFactor,
             BackFromFactor, ensureIdentityUnlocked, IdleTimeout, RequestFails, submitRegister,
             SubmitUnlock, submitPrimaryLogin, server
    <3>4. ~LoadMail(t) /\ ~LoginAnswer(t) /\ ~LoginFails(t) /\ ~FactorAnswer(t) /\ ~MeAnswer(t)
      BY DEF LoadMail, LoginAnswer, LoginFails, FactorAnswer, MeAnswer, server
    <3>5. ~KeyAnswer(t) /\ ~IdsAnswer(t) /\ ~MintAnswer(t)
      <4>1. ~KeyAnswer(t)
        BY DEF KeyAnswer, server
      <4>2. ~IdsAnswer(t)
        BY DEF IdsAnswer, server
      <4>3. ~MintAnswer(t)
        BY DEF MintAnswer
      <4> QED
        BY <4>1, <4>2, <4>3
    <3>6. ASSUME NEW o \in ops[t] PROVE ~HydrateRead(t, o) /\ ~HydratePub(t, o) /\ ~unlockIdentity(t, o)
      <4>1. ~HydrateRead(t, o)
        BY DEF HydrateRead, server
      <4>2. ~HydratePub(t, o)
        BY ZenonT(30) DEF HydratePub, server
      <4>3. ~unlockIdentity(t, o)
        BY DEF unlockIdentity, server
      <4> QED
        BY <4>1, <4>2, <4>3
    <3> QED
      BY <3>1, <3>2, <3>3, <3>4, <3>5, <3>6 DEF Answer
  <2>2. CASE RegisterAnswer(t)
    <3>1. /\ form[t].email \notin registered
          /\ stored' = [stored EXCEPT ![form[t].email] =
                          [owner |-> form[t].email, pw |-> form[t].pw, by |-> None]]
      BY <2>2 DEF RegisterAnswer, server
    <3>2. \A a \in Accounts : stored[a] # None => a # form[t].email
      BY <3>1 DEF registered
    <3> QED
      BY <3>1, <3>2, SMT
  <2>3. CASE BootAnswer(t)
    <3>1. /\ stored[cookie] = None
          /\ stored' = [stored EXCEPT ![cookie] = [owner |-> cookie, pw |-> form[t].pw, by |-> t]]
      BY <2>3 DEF BootAnswer
    <3> QED
      BY <3>1, SMTT(30), SMT
  <2> QED
    BY <2>1, <2>2, <2>3
<1> QED
  BY <1>1, PTL DEF Spec, KeyIsKept

\* Every variable of the vault keeps its shape.
THEOREM VaultTypeCorrect == Spec => []TypeOK
<1>1. VaultInv => TypeOK
  BY DEF VaultInv, TypeOK, ServerOK, PagesOK, GuardOK, FormOK, OpsOK, MemOK, CachesOK, Emails,
         GoodForms, GoodOps, GoodMems, GoodStores, GuardStates
<1> QED
  BY <1>1, VaultInvariant, PTL
=============================================================================
