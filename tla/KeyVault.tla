------------------------------ MODULE KeyVault ------------------------------
(***************************************************************************)
(* The browser side of signing in: the login and registration pages        *)
(* (static/auth/auth-login.jsx, auth-register.jsx), the key vault of the   *)
(* mail page (static/auth/unlock.js) and its unlock dialog with the guard  *)
(* that polls the vault (static/mail/unlock-modal.jsx), in several tabs of *)
(* one browser.  The tabs share the session cookie and localStorage; each  *)
(* has its own memory and sessionStorage.  Every await is a point where    *)
(* another handler, timer or tab may run.                                  *)
(***************************************************************************)
EXTENDS Naturals, FiniteSets

CONSTANTS
  Tabs,       \* the tabs of the browser
  Accounts,   \* the accounts of the server; an account names its password too
  Mfa,        \* the accounts with two-factor authentication
  Keyless,    \* the accounts registered before they had mailbox keys
  MaxEvents,  \* bound: actions of the user and timers that fire
  MaxOps,     \* bound: hydrations in flight in one tab
  None        \* no account, no key, no cache

ASSUME VaultAssumption ==
  /\ Mfa \subseteq Accounts /\ Keyless \subseteq Accounts
  /\ None \notin Accounts \cup Tabs
  /\ MaxEvents \in Nat /\ MaxOps \in Nat

VARIABLES
  cookie,   \* the account of the session cookie
  stored,   \* the account key the server holds for each account
  ids,      \* how many identities the server holds for each account
  page,     \* what each tab shows
  me,       \* the account the mail page of a tab was loaded for
  mem,      \* the vault's state object, per tab
  session,  \* sessionStorage, per tab
  local,    \* localStorage
  guard,    \* the state of useUnlockGuard, per tab
  form,     \* the login form or the unlock dialog, per tab
  ops,      \* hydrations and identity unlocks in flight, per tab
  events

server  == <<cookie, stored, ids>>
stores  == <<session, local>>
Stores  == [session |-> session, local |-> local]
SetStores(st) == session' = st.session /\ local' = st.local
vars == <<cookie, stored, ids, page, me, mem, session, local, guard, form,
          ops, events>>

-----------------------------------------------------------------------------
(* A key pair of an account, wrapped under a password, made by a tab's     *)
(* dialog or (by = None) at registration.                                  *)
Keys == [owner : Accounts, pw : Accounts, by : Tabs \cup {None}]

registered == {a \in Accounts : a \in Keyless \/ stored[a] # None}

Blank == [priv |-> None, armored |-> None, idents |-> None, timer |-> FALSE]

EmptyStore == [cache |-> None, flag |-> FALSE]

IdleForm == [stage |-> "idle", pw |-> None, email |-> None, trust |-> FALSE]

NewGuard == [hydrated |-> FALSE, unlocked |-> FALSE, modal |-> FALSE,
             prev |-> FALSE]

Stages == {"idle", "srp", "legacy", "mfa", "mfacheck", "register", "me",
           "key", "boot", "refetch", "hydrate", "ids", "mint"}

Ops == [kind : {"login", "modal", "mount", "tick", "identity"},
        email : Accounts \cup {None}, key : Keys, stage : {"read", "pub"}]

Caches == [email : Accounts, key : Keys]

TypeOK ==
  /\ cookie \in Accounts \cup {None}
  /\ stored \in [Accounts -> Keys \cup {None}]
  /\ ids \in [Accounts -> Nat]
  /\ page \in [Tabs -> {"closed", "auth", "loading", "mail"}]
  /\ me \in [Tabs -> Accounts \cup {None}]
  /\ mem \in [Tabs -> [priv : Keys \cup {None}, armored : Keys \cup {None},
                       idents : Keys \cup {None}, timer : BOOLEAN]]
  /\ session \in [Tabs -> [cache : Caches \cup {None}, flag : BOOLEAN]]
  /\ local \in [cache : Caches \cup {None}, flag : BOOLEAN]
  /\ guard \in [Tabs -> [hydrated : BOOLEAN, unlocked : BOOLEAN,
                         modal : BOOLEAN, prev : BOOLEAN]]
  /\ form \in [Tabs -> [stage : Stages, pw : Accounts \cup {None},
                        email : Accounts \cup {None}, trust : BOOLEAN]]
  /\ ops \in [Tabs -> SUBSET Ops]
  /\ events \in 0..MaxEvents

Init ==
  /\ cookie = None
  /\ stored = [a \in Accounts |-> None]
  /\ ids = [a \in Accounts |-> 0]
  /\ page = [t \in Tabs |-> "closed"]
  /\ me = [t \in Tabs |-> None]
  /\ mem = [t \in Tabs |-> Blank]
  /\ session = [t \in Tabs |-> EmptyStore]
  /\ local = EmptyStore
  /\ guard = [t \in Tabs |-> NewGuard]
  /\ form = [t \in Tabs |-> IdleForm]
  /\ ops = [t \in Tabs |-> {}]
  /\ events = 0

Event == events < MaxEvents /\ events' = events + 1

-----------------------------------------------------------------------------
(* Storage.  storage and readTrustedDeviceFlag call each other without end *)
(* until the stack is full; the innermost storage catches the RangeError   *)
(* and answers null, and every level above decides from the answer of the  *)
(* level below.  Where the flag is in sessionStorage only, the answers     *)
(* alternate, and what the caller sees depends on the depth of the stack.  *)
readTrustedDeviceFlag(st, t) ==
  IF ~st.session[t].flag THEN {FALSE}
  ELSE IF st.local.flag THEN {TRUE} ELSE {TRUE, FALSE}

(* The cache that is found: that of the preferred store, else the other's. *)
readPersistedAccountCache(st, t, trusted) ==
  LET s == st.session[t].cache
      l == st.local.cache
  IN  CASE trusted -> IF l # None THEN l ELSE s
        [] OTHER   -> IF s # None THEN s ELSE l

(* persistAccountCache writes to the store that storage chooses.           *)
persistAccountCache(st, t, c, trusted) ==
  IF trusted THEN [st EXCEPT !.local.cache = c]
             ELSE [st EXCEPT !.session[t].cache = c]

clearAllPersistedCaches(st, t) ==
  [st EXCEPT !.session[t].cache = None, !.local.cache = None]

(* setTrustedDevice and clearTrustedDeviceFlag write there too.            *)
setTrustedDevice(st, t, enabled, trusted) ==
  IF trusted THEN [st EXCEPT !.local.flag = enabled]
             ELSE [st EXCEPT !.session[t].flag = enabled]

\* Fault: the timer is not armed.
touchNothing(m) == m

(* touch arms the idle timer. *)
touch(m) == [m EXCEPT !.timer = TRUE]

-----------------------------------------------------------------------------
(* useUnlockGuard: what the first restore, and then each tick, concludes   *)
(* from the vault; a guard that becomes locked opens the dialog.           *)
guardMounted(unlocked) ==
  [hydrated |-> TRUE, unlocked |-> unlocked, modal |-> ~unlocked,
   prev |-> unlocked]

guardTicked(g, unlocked) ==
  [g EXCEPT !.unlocked = unlocked, !.prev = unlocked,
            !.modal = IF (g.prev \/ g.unlocked) /\ ~unlocked THEN TRUE
                      ELSE IF ~g.prev /\ unlocked THEN FALSE ELSE @]

guardSettled(kind, g, unlocked) ==
  IF kind = "mount" THEN guardMounted(unlocked) ELSE guardTicked(g, unlocked)

DialogOpen(t) == guard[t].modal /\ ~guard[t].unlocked /\ guard[t].hydrated

(* tryRestoreAccountFromSession up to its first await.                     *)
tryRestoreAccountFromSession(t, kind, email, g) ==
  \E trusted \in readTrustedDeviceFlag(Stores, t) :
    LET c == readPersistedAccountCache(Stores, t, trusted)
    IN  IF c # None /\ c.email = email
        THEN /\ ops' = [ops EXCEPT ![t] = @ \cup
                  {[kind |-> kind, email |-> email, key |-> c.key,
                    stage |-> "read"]}]
             /\ guard' = [guard EXCEPT ![t] = g]
             /\ UNCHANGED stores
        ELSE /\ SetStores(clearAllPersistedCaches(Stores, t))
             /\ guard' = [guard EXCEPT ![t] = guardSettled(kind, g, FALSE)]
             /\ UNCHANGED ops

-----------------------------------------------------------------------------
(* Pages.                                                                  *)
(* Leaving a page drops its memory and whatever was in flight.             *)
Leave(t, to) ==
  /\ page' = [page EXCEPT ![t] = to]
  /\ mem' = [mem EXCEPT ![t] = Blank]
  /\ ops' = [ops EXCEPT ![t] = {}]
  /\ form' = [form EXCEPT ![t] = IdleForm]

OpenTab(t) ==
  /\ page[t] = "closed" /\ Event
  /\ page' = [page EXCEPT ![t] = IF cookie = None THEN "auth" ELSE "loading"]
  /\ UNCHANGED <<server, me, mem, stores, guard, form, ops>>

CloseTab(t) ==
  /\ page[t] # "closed" /\ Event
  /\ Leave(t, "closed")
  /\ session' = [session EXCEPT ![t] = EmptyStore]
  /\ UNCHANGED <<server, me, local, guard>>

Reload(t) ==
  /\ page[t] = "mail" /\ Event
  /\ Leave(t, "loading")
  /\ UNCHANGED <<server, me, stores, guard>>

(* The mail page asks who is signed in and starts the guard, which first   *)
(* tries to restore the vault.                                             *)
LoadMail(t) ==
  /\ page[t] = "loading"
  /\ IF cookie = None
     THEN /\ page' = [page EXCEPT ![t] = "auth"]
          /\ UNCHANGED <<me, stores, guard, ops>>
     ELSE /\ page' = [page EXCEPT ![t] = "mail"]
          /\ me' = [me EXCEPT ![t] = cookie]
          /\ tryRestoreAccountFromSession(t, "mount", cookie, NewGuard)
  /\ UNCHANGED <<server, mem, form, events>>

(* The guard's one-second poll.  A slow restore may overlap the next one.  *)
Tick(t) ==
  /\ page[t] = "mail" /\ guard[t].hydrated
  /\ IF mem[t].priv # None
     THEN /\ guard' = [guard EXCEPT ![t] = guardTicked(@, TRUE)]
          /\ UNCHANGED <<stores, ops>>
     ELSE /\ Cardinality(ops[t]) < MaxOps
          /\ tryRestoreAccountFromSession(t, "tick", me[t], guard[t])
  /\ UNCHANGED <<server, page, me, mem, form, events>>

IdleTimeout(t) ==
  /\ mem[t].timer /\ Event
  /\ mem' = [mem EXCEPT ![t] = Blank]
  /\ UNCHANGED <<server, page, me, stores, guard, form, ops>>

(* The vault button of the sidebar, which the dialog covers while open.    *)
Lock(t) ==
  /\ page[t] = "mail" /\ guard[t].hydrated /\ ~DialogOpen(t) /\ Event
  /\ guard' = [guard EXCEPT ![t].modal = TRUE]
  /\ IF guard[t].unlocked
     THEN /\ mem' = [mem EXCEPT ![t] = Blank]
          /\ SetStores(clearAllPersistedCaches(Stores, t))
     ELSE UNCHANGED <<mem, stores>>
  /\ UNCHANGED <<server, page, me, form, ops>>

CloseDialog(t) ==
  /\ page[t] = "mail" /\ DialogOpen(t) /\ form[t].stage = "idle" /\ Event
  /\ guard' = [guard EXCEPT ![t].modal = FALSE]
  /\ UNCHANGED <<server, page, me, mem, stores, form, ops>>

handleLogout(t) ==
  /\ page[t] = "mail" /\ guard[t].hydrated /\ ~DialogOpen(t) /\ Event
  /\ LET st == clearAllPersistedCaches(Stores, t)
     IN  \E trusted \in readTrustedDeviceFlag(st, t) :
           SetStores(setTrustedDevice(st, t, FALSE, trusted))
  /\ Leave(t, "loading")
  /\ cookie' = None
  /\ UNCHANGED <<stored, ids, me, guard>>

-----------------------------------------------------------------------------
(* The login and registration pages.                                       *)
submitPrimaryLogin(t, a, trust) ==
  /\ page[t] = "auth" /\ form[t].stage = "idle" /\ Event
  /\ form' = [form EXCEPT ![t] = [stage |-> "srp", pw |-> a, email |-> a,
                                  trust |-> trust]]
  /\ UNCHANGED <<server, page, me, mem, stores, guard, ops>>

(* The exchange succeeds: signed in, or a second factor is asked for.      *)
LoginAnswer(t) ==
  /\ form[t].stage \in {"srp", "legacy"} /\ form[t].email \in registered
  /\ IF form[t].email \in Mfa
     THEN form' = [form EXCEPT ![t].stage = "mfa"] /\ UNCHANGED cookie
     ELSE form' = [form EXCEPT ![t].stage = "key"] /\ cookie' = form[t].email
  /\ UNCHANGED <<stored, ids, page, me, mem, stores, guard, ops, events>>

(* Any failure of the SRP exchange falls back to the password form of the  *)
(* login call; a failure of that one is shown.                             *)
LoginFails(t) ==
  /\ form[t].stage \in {"srp", "legacy"}
  /\ form' = [form EXCEPT ![t] = IF @.stage = "srp"
                                 THEN [@ EXCEPT !.stage = "legacy"]
                                 ELSE IdleForm]
  /\ UNCHANGED <<server, page, me, mem, stores, guard, ops, events>>

(* submitCode and useSecurityKey. *)
SubmitFactor(t) ==
  /\ form[t].stage = "mfa"
  /\ form' = [form EXCEPT ![t].stage = "mfacheck"]
  /\ UNCHANGED <<server, page, me, mem, stores, guard, ops, events>>

FactorAnswer(t) ==
  /\ form[t].stage = "mfacheck"
  /\ \/ form' = [form EXCEPT ![t].stage = "key"] /\ cookie' = form[t].email
     \/ form' = [form EXCEPT ![t].stage = "mfa"] /\ UNCHANGED cookie
  /\ UNCHANGED <<stored, ids, page, me, mem, stores, guard, ops, events>>

BackFromFactor(t) ==
  /\ form[t].stage = "mfa"
  /\ form' = [form EXCEPT ![t] = IdleForm]
  /\ UNCHANGED <<server, page, me, mem, stores, guard, ops, events>>

(* Registration makes the keys in the browser and sends them along.        *)
submitRegister(t, a) ==
  /\ page[t] = "auth" /\ form[t].stage = "idle" /\ Event
  /\ form' = [form EXCEPT ![t] = [stage |-> "register", pw |-> a,
                                  email |-> a, trust |-> FALSE]]
  /\ UNCHANGED <<server, page, me, mem, stores, guard, ops>>

RegisterAnswer(t) ==
  /\ form[t].stage = "register"
  /\ LET a == form[t].email
     IN  IF a \in registered
         THEN /\ form' = [form EXCEPT ![t] = IdleForm]
              /\ UNCHANGED <<server, page, mem, ops>>
         ELSE /\ stored' = [stored EXCEPT ![a] =
                    [owner |-> a, pw |-> form[t].pw, by |-> None]]
              /\ ids' = [ids EXCEPT ![a] = 1]
              /\ cookie' = a
              /\ Leave(t, "loading")
  /\ UNCHANGED <<me, stores, guard, events>>

(* The end of finalizeLogin: the trusted-device box is stored, and the     *)
(* page moves on to the mailbox.                                           *)
finalizeLogin(t, st) ==
  /\ \E trusted \in readTrustedDeviceFlag(st, t) :
       SetStores(setTrustedDevice(st, t, form[t].trust, trusted))
  /\ Leave(t, "loading")

-----------------------------------------------------------------------------
(* The unlock dialog.                                                      *)
SubmitUnlock(t, p) ==
  /\ page[t] = "mail" /\ DialogOpen(t) /\ form[t].stage = "idle" /\ Event
  /\ form' = [form EXCEPT ![t] = [stage |-> "me", pw |-> p, email |-> None,
                                  trust |-> FALSE]]
  /\ UNCHANGED <<server, page, me, mem, stores, guard, ops>>

Stage(t, s) == form' = [form EXCEPT ![t].stage = s]

FormFails(t) == form' = [form EXCEPT ![t] = IdleForm]

MeAnswer(t) ==
  /\ form[t].stage = "me"
  /\ IF cookie = None THEN FormFails(t)
     ELSE form' = [form EXCEPT ![t].stage = "key", ![t].email = cookie]
  /\ UNCHANGED <<server, page, me, mem, stores, guard, ops, events>>

(* The account key arrives: that of the account signed in by now.          *)
KeyAnswer(t) ==
  /\ form[t].stage \in {"key", "refetch"}
  /\ LET k == IF cookie = None THEN None ELSE stored[cookie]
         kind == IF page[t] = "auth" THEN "login" ELSE "modal"
     IN  CASE k # None ->
                /\ Stage(t, "hydrate")
                /\ ops' = [ops EXCEPT ![t] = @ \cup
                     {[kind |-> kind, email |-> form[t].email, key |-> k,
                       stage |-> "read"]}]
                /\ UNCHANGED <<page, mem, stores>>
           [] k = None /\ kind = "login" -> finalizeLogin(t, Stores)
           [] k = None /\ kind = "modal" ->
                /\ IF cookie = None \/ form[t].stage = "refetch"
                   THEN FormFails(t) ELSE Stage(t, "boot")
                /\ UNCHANGED <<page, mem, stores, ops>>
  /\ UNCHANGED <<server, me, guard, events>>

\* Fault: the key of the account is replaced.
BootReplaces(t) ==
  /\ form[t].stage = "boot"
  /\ IF cookie = None
     THEN FormFails(t) /\ UNCHANGED <<stored, ids>>
     ELSE /\ stored' = [stored EXCEPT ![cookie] =
               [owner |-> cookie, pw |-> form[t].pw, by |-> t]]
          /\ ids' = [ids EXCEPT ![cookie] = @ + 1]
          /\ Stage(t, "refetch")
  /\ UNCHANGED <<cookie, page, me, mem, stores, guard, ops, events>>

(* bootstrapNew: an INSERT, refused where the account has a key already.   *)
BootAnswer(t) ==
  /\ form[t].stage = "boot"
  /\ IF cookie = None \/ (cookie # None /\ stored[cookie] # None)
     THEN FormFails(t) /\ UNCHANGED <<stored, ids>>
     ELSE /\ stored' = [stored EXCEPT ![cookie] =
               [owner |-> cookie, pw |-> form[t].pw, by |-> t]]
          /\ ids' = [ids EXCEPT ![cookie] = @ + 1]
          /\ Stage(t, "refetch")
  /\ UNCHANGED <<cookie, page, me, mem, stores, guard, ops, events>>

(* onUnlocked. *)
Unlocked(t) ==
  /\ guard' = [guard EXCEPT ![t].unlocked = TRUE, ![t].modal = FALSE]
  /\ form' = [form EXCEPT ![t] = IdleForm]

(* The identities arrive, and without one a default identity is made.      *)
IdsAnswer(t) ==
  /\ form[t].stage = "ids"
  /\ CASE cookie = None -> FormFails(t) /\ UNCHANGED guard
       [] cookie # None /\ ids[cookie] = 0 -> Stage(t, "mint") /\ UNCHANGED guard
       [] cookie # None /\ ids[cookie] > 0 -> Unlocked(t)
  /\ UNCHANGED <<server, page, me, mem, stores, ops, events>>

MintAnswer(t) ==
  /\ form[t].stage = "mint"
  /\ IF cookie = None THEN FormFails(t) /\ UNCHANGED <<ids, guard>>
     ELSE ids' = [ids EXCEPT ![cookie] = @ + 1] /\ Unlocked(t)
  /\ UNCHANGED <<cookie, stored, page, me, mem, stores, ops, events>>

(* A request of the dialog, of registration or of a factor check is lost.  *)
RequestFails(t) ==
  /\ \/ form[t].stage \in {"register", "me", "boot", "ids", "mint"}
     \/ form[t].stage \in {"key", "refetch"} /\ page[t] = "mail"
  /\ Event
  /\ FormFails(t)
  /\ UNCHANGED <<server, page, me, mem, stores, guard, ops>>

-----------------------------------------------------------------------------
(* hydrateUnlockedAccount: the private key is read and compared, then set; *)
(* the rest of the state object follows after one more await.              *)
HydrateRead(t, o) ==
  /\ o \in ops[t] /\ o.stage = "read" /\ o.kind # "identity"
  /\ IF o.kind \in {"login", "modal"} /\ o.key.pw # form[t].pw
     THEN IF o.kind = "login"
          THEN finalizeLogin(t, Stores)
          ELSE /\ FormFails(t)
               /\ ops' = [ops EXCEPT ![t] = @ \ {o}]
               /\ UNCHANGED <<page, mem, stores>>
     ELSE /\ mem' = [mem EXCEPT ![t].priv = o.key]
          /\ ops' = [ops EXCEPT ![t] = (@ \ {o}) \cup
                                       {[o EXCEPT !.stage = "pub"]}]
          /\ UNCHANGED <<page, stores, form>>
  /\ UNCHANGED <<server, me, guard, events>>

HydratePub(t, o) ==
  /\ o \in ops[t] /\ o.stage = "pub"
  /\ LET m == touch([mem[t] EXCEPT !.armored = o.key, !.idents = None])
         st == {persistAccountCache(Stores, t,
                  [email |-> o.email, key |-> o.key], trusted) :
                  trusted \in readTrustedDeviceFlag(Stores, t)}
     IN  CASE o.kind = "login" ->
                /\ \E s \in st : finalizeLogin(t, s)
                /\ UNCHANGED guard
           [] o.kind = "modal" ->
                /\ \E s \in st : SetStores(s)
                /\ mem' = [mem EXCEPT ![t] = m]
                /\ ops' = [ops EXCEPT ![t] = @ \ {o}]
                /\ Stage(t, "ids")
                /\ UNCHANGED <<page, guard>>
           [] o.kind \in {"mount", "tick"} ->
                /\ mem' = [mem EXCEPT ![t] = m]
                /\ ops' = [ops EXCEPT ![t] = @ \ {o}]
                /\ guard' = [guard EXCEPT ![t] =
                     guardSettled(o.kind, @, m.priv # None)]
                /\ UNCHANGED <<page, stores, form>>
  /\ UNCHANGED <<server, me, events>>

(* ensureIdentityUnlocked and unlockIdentity, started by a decryption.     *)
ensureIdentityUnlocked(t) ==
  /\ page[t] = "mail" /\ mem[t].priv # None /\ mem[t].idents = None
  /\ Cardinality(ops[t]) < MaxOps /\ Event
  /\ ops' = [ops EXCEPT ![t] = @ \cup
       {[kind |-> "identity", email |-> None, key |-> mem[t].priv,
         stage |-> "read"]}]
  /\ UNCHANGED <<server, page, me, mem, stores, guard, form>>

unlockIdentity(t, o) ==
  /\ o \in ops[t] /\ o.kind = "identity"
  /\ mem' = [mem EXCEPT ![t] = touch([@ EXCEPT !.idents = o.key])]
  /\ ops' = [ops EXCEPT ![t] = @ \ {o}]
  /\ UNCHANGED <<server, page, me, stores, guard, form, events>>

-----------------------------------------------------------------------------
Answer(t) ==
  \/ LoadMail(t) \/ LoginAnswer(t) \/ LoginFails(t) \/ FactorAnswer(t)
  \/ RegisterAnswer(t) \/ MeAnswer(t) \/ KeyAnswer(t) \/ BootAnswer(t)
  \/ IdsAnswer(t) \/ MintAnswer(t)
  \/ \E o \in ops[t] : HydrateRead(t, o) \/ HydratePub(t, o)
                        \/ unlockIdentity(t, o)

User(t) ==
  \/ OpenTab(t) \/ CloseTab(t) \/ Reload(t) \/ Lock(t) \/ CloseDialog(t)
  \/ handleLogout(t) \/ SubmitFactor(t) \/ BackFromFactor(t)
  \/ ensureIdentityUnlocked(t) \/ IdleTimeout(t) \/ RequestFails(t)
  \/ \E a \in Accounts : \/ submitRegister(t, a) \/ SubmitUnlock(t, a)
                          \/ \E b \in BOOLEAN : submitPrimaryLogin(t, a, b)

Next == \E t \in Tabs : Answer(t) \/ Tick(t) \/ User(t)

(* Requests are answered or time out, cryptography finishes, and the poll  *)
(* runs on; what the user does is not fair.                                *)
Spec == /\ Init /\ [][Next]_vars
        /\ \A t \in Tabs : WF_vars(Answer(t)) /\ WF_vars(Tick(t))

-----------------------------------------------------------------------------
(* Properties.                                                             *)

(* A vault is only ever unlocked with the key the server holds for that    *)
(* account, however many tabs make keys for it at the same time.           *)
UnlockedIsStored ==
  \A t \in Tabs : mem[t].priv # None => mem[t].priv = stored[mem[t].priv.owner]

(* An unlocked vault has its idle timer running (hydrateUnlockedAccount    *)
(* ends with touch, zero stops both).                                      *)
IdleArmed ==
  \A t \in Tabs : mem[t].priv # None =>
     mem[t].timer \/ \E o \in ops[t] : o.stage = "pub"

(* Between two polls aside, the guard agrees with the vault: a vault that  *)
(* was locked is soon shown as locked.                                     *)
GuardCatchesUp ==
  \A t \in Tabs : (page[t] = "mail" /\ mem[t].priv = None) ~>
     (page[t] # "mail" \/ mem[t].priv # None \/ ~guard[t].unlocked)

(* Every submitted login or unlock comes to an end.                        *)
FormEnds ==
  \A t \in Tabs : form[t].stage \notin {"idle", "mfa"} ~>
     form[t].stage \in {"idle", "mfa"}

(* unlock.js: the cache is restored "when it belongs to the current        *)
(* logged-in user".                                                        *)
RestoredIsOwn ==
  \A t \in Tabs : \A o \in ops[t] :
     o.kind \in {"mount", "tick"} => o.key.owner = me[t]

(* unlock.js: "Idle timeout clears memory; explicit lock clears memory".   *)
LockedIsEmpty ==
  \A t \in Tabs : mem[t].priv = None =>
     mem[t].armored = None /\ mem[t].idents = None

(* unlock.js: "logout clears that plus the trusted-device flag".           *)
LogoutForgets ==
  [][\A t \in Tabs : handleLogout(t) => ~session'[t].flag /\ ~local'.flag]_vars

(* unlock.js: "Trust this device" persists to localStorage.                *)
TrustIsPersistent ==
  [][\A t \in Tabs :
       (page[t] = "auth" /\ page'[t] = "loading" /\ form[t].trust)
         => local'.flag]_vars

=============================================================================
