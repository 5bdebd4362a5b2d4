---------------------------- MODULE SettingsAccount ----------------------------
(* The security and danger-zone sections of the settings panel                 *)
(* (static/mail/mail-settings.jsx): two-factor enrolment, recovery codes,      *)
(* changing the password, and deleting the account.  Their handlers may be     *)
(* refused with "recent 2fa verification required", verify and run again       *)
(* (runWithFreshTwoFactor), and one of them, the password change, is a chain   *)
(* of requests that the server finishes in two writes.                         *)
EXTENDS Naturals, FiniteSets

CONSTANTS
  Places,      \* the sections a behaviour may start in
  Factors,     \* authenticator apps and security keys the user may enrol
  SecKeys,     \* those of them that are security keys
  Passwords,   \* passwords the account may have
  MaxCodes,    \* bound on the sets of recovery codes generated
  MaxPresses,  \* bound on the handlers the user starts
  MaxUpsets,   \* bound on requests that fail, answers that are lost and sections left
  None

VARIABLES
  section,  \* the section shown
  server,   \* the account as the server stores it, and the session's freshness
  view,     \* the section component's React state
  calls,    \* handlers that have not finished
  spent     \* what has been used of the bounds, and what went unseen

vars == <<section, server, view, calls, spent>>

(* What a section's load returns. *)
Info == [factors : SUBSET Factors, codes : 0 .. MaxCodes,
         scheduled : BOOLEAN, policy : BOOLEAN]

InfoOf(s) == [factors |-> s.factors, codes |-> s.codes,
              scheduled |-> s.scheduled, policy |-> s.policy]

(* What a section shows when it is mounted. *)
Mounted ==
  [info |-> None, policy |-> FALSE, loading |-> TRUE, err |-> FALSE, modal |-> None,
   codes |-> None, busy |-> {}, form |-> 0]

Call(n, h, x, pc) ==
  [n |-> n, h |-> h, x |-> x, pc |-> pc, tries |-> 1, hits |-> 0, key |-> None,
   got |-> None, at |-> 0, known |-> None, live |-> TRUE]

(* Which flag a handler raises, whether it goes through runWithFreshTwoFactor, *)
(* what it knows of the enrolled factors then, whether it clears the error as  *)
(* it starts, and whether it reads the status again when it has succeeded.     *)
loadMFA == [flag |-> None, retries |-> FALSE, knows |-> FALSE, clears |-> FALSE, reload |-> FALSE]

handleBeginTOTP == [flag |-> "action", retries |-> FALSE, knows |-> FALSE, clears |-> TRUE, reload |-> FALSE]

handleConfirmTOTP == [flag |-> "action", retries |-> FALSE, knows |-> FALSE, clears |-> FALSE, reload |-> TRUE]

handleRegisterSecurityKey == [flag |-> "action", retries |-> FALSE, knows |-> FALSE, clears |-> TRUE, reload |-> TRUE]

handleRegenerateRecovery == [flag |-> "action", retries |-> TRUE, knows |-> TRUE, clears |-> TRUE, reload |-> TRUE]

handleDeleteFactor == [flag |-> "action", retries |-> TRUE, knows |-> TRUE, clears |-> FALSE, reload |-> TRUE]

changePassword == [flag |-> "password", retries |-> TRUE, knows |-> FALSE, clears |-> FALSE, reload |-> FALSE]

submitDelete == [flag |-> "action", retries |-> TRUE, knows |-> FALSE, clears |-> FALSE, reload |-> TRUE]

savePolicy == [flag |-> "policy", retries |-> FALSE, knows |-> FALSE, clears |-> TRUE, reload |-> FALSE]

cancelScheduledDeletion == [flag |-> "cancel", retries |-> FALSE, knows |-> FALSE, clears |-> TRUE, reload |-> TRUE]

Handlers == {"load", "begin", "confirm", "register", "regenerate", "deleteFactor",
             "changePassword", "submitDelete", "savePolicy", "cancel"}

Script(h) ==
  CASE h = "begin" -> handleBeginTOTP
    [] h = "confirm" -> handleConfirmTOTP
    [] h = "register" -> handleRegisterSecurityKey
    [] h = "regenerate" -> handleRegenerateRecovery
    [] h = "deleteFactor" -> handleDeleteFactor
    [] h = "changePassword" -> changePassword
    [] h = "submitDelete" -> submitDelete
    [] h = "savePolicy" -> savePolicy
    [] h = "cancel" -> cancelScheduledDeletion
    [] OTHER -> loadMFA

(* The password form is unmounted with its modal: only the call of the form on *)
(* screen holds its flag.                                                      *)
Raised(v, flag, n) ==
  IF flag = None THEN v
  ELSE [v EXCEPT !.busy = @ \cup {flag}, !.form = IF flag = "password" THEN n ELSE @]

Lowered(v, flag, n) ==
  IF flag = "password" /\ v.form # n THEN v ELSE [v EXCEPT !.busy = @ \ {flag}]

-------------------------------------------------------------------------------
Press(h, x) ==
  LET n == spent.presses + 1
      v == IF Script(h).clears THEN [view EXCEPT !.err = FALSE] ELSE view
  IN /\ spent.presses < MaxPresses
     /\ view' = Raised(v, Script(h).flag, n)
     /\ calls' = calls \cup
          {[Call(n, h, x, IF h = "changePassword" THEN "me" ELSE "sent") EXCEPT
             !.known = IF Script(h).knows THEN view.info ELSE None]}
     /\ spent' = [spent EXCEPT !.presses = n]
     /\ UNCHANGED <<section, server>>

(* The two-factor buttons: drawn once the status is known, disabled by one     *)
(* shared flag, covered by an open modal.                                      *)
Page == view.modal = None /\ view.codes = None

Offered ==
  /\ section = "security" /\ Page /\ ~view.loading /\ view.info # None
  /\ "action" \notin view.busy

BeginTOTP == Offered /\ Press("begin", None)

ConfirmTOTP(f) ==
  /\ view.modal = "totp" /\ "action" \notin view.busy
  /\ f \in Factors \ SecKeys
  /\ Press("confirm", f)

RegisterSecurityKey(f) == Offered /\ f \in SecKeys /\ Press("register", f)

RegenerateRecovery == Offered /\ view.info.factors # {} /\ Press("regenerate", None)

DeleteFactor(f) == Offered /\ f \in view.info.factors /\ Press("deleteFactor", f)

OpenModal(m) ==
  /\ Page /\ spent.presses < MaxPresses
  /\ view' = [view EXCEPT !.modal = m]
  /\ UNCHANGED <<section, server, calls, spent>>

OpenPassword == section = "security" /\ OpenModal("password")

(* The form's own checks: the new password, typed twice, is long enough. *)
ChangePassword(old, new) ==
  /\ view.modal = "password" /\ "password" \notin view.busy /\ old # new
  /\ Press("changePassword", <<old, new>>)

openDeleteModal == section = "danger" /\ OpenModal("delete")

SubmitDelete(mode) ==
  /\ view.modal = "delete" /\ "action" \notin view.busy
  /\ Press("submitDelete", mode)

EditPolicy ==
  /\ section = "danger" /\ Page /\ spent.presses < MaxPresses
  /\ view' = [view EXCEPT !.policy = ~@]
  /\ UNCHANGED <<section, server, calls, spent>>

SavePolicy ==
  /\ section = "danger" /\ Page /\ "policy" \notin view.busy
  /\ Press("savePolicy", view.policy)

CancelDeletion ==
  /\ section = "danger" /\ Page /\ "cancel" \notin view.busy
  /\ view.info # None /\ view.info.scheduled
  /\ Press("cancel", None)

(* Cancel, Escape: the enrolment and deletion modals stay while their handler  *)
(* runs; the password form closes at any time, its request running on.         *)
CloseModal ==
  /\ view.modal # None
  /\ view.modal \in {"totp", "delete"} => "action" \notin view.busy
  /\ view' = [view EXCEPT !.modal = None, !.busy = @ \ {"password"}, !.form = 0]
  /\ UNCHANGED <<section, server, calls, spent>>

CloseCodes ==
  /\ view.codes # None
  /\ view' = [view EXCEPT !.codes = None]
  /\ UNCHANGED <<section, server, calls, spent>>

-------------------------------------------------------------------------------
(* requireRecentMFA: with two-factor on, these need a recent verification.     *)
Refused(c) ==
  /\ c.h \in {"begin", "register", "regenerate", "deleteFactor", "changePassword", "submitDelete"}
  /\ server.factors # {} /\ ~server.fresh

Enrolled(s, f) ==
  [s EXCEPT !.factors = @ \cup {f}, !.fresh = TRUE,
            !.codes = IF s.factors = {} THEN @ + 1 ELSE @]

(* What a request does to the account; None when it cannot be carried out.     *)
Applied(c) ==
  CASE server.gone -> None
    [] c.h = "begin" -> server
    [] c.h \in {"confirm", "register"} ->
         IF c.x \in server.factors \/ server.codes = MaxCodes THEN None
         ELSE Enrolled(server, c.x)
    [] c.h = "regenerate" ->
         IF server.codes = MaxCodes THEN None
         ELSE [server EXCEPT !.codes = @ + 1, !.fresh = TRUE]
    [] c.h = "deleteFactor" ->
         IF c.x \in server.factors THEN [server EXCEPT !.factors = @ \ {c.x}] ELSE None
    [] c.h = "submitDelete" ->
         IF c.x = "now" THEN [server EXCEPT !.gone = TRUE] ELSE [server EXCEPT !.scheduled = TRUE]
    [] c.h = "savePolicy" -> [server EXCEPT !.policy = c.x]
    [] c.h = "cancel" -> [server EXCEPT !.scheduled = FALSE]

(* The request that makes the change: a security key is registered by a second *)
(* one, after the browser has made the credential.                             *)
Acts(c) == c.pc = (IF c.h = "register" THEN "finish" ELSE "sent") /\ c.h # "changePassword"

(* Fault: the answer carries the codes from before.                            *)
CodesBefore(c) ==
  IF c.h = "regenerate" \/ (c.h \in {"confirm", "register"} /\ server.factors = {})
  THEN server.codes ELSE None

(* The codes an answer carries: fresh ones, or none when two-factor was on.    *)
CodesIn(c) ==
  IF c.h = "regenerate" \/ (c.h \in {"confirm", "register"} /\ server.factors = {})
  THEN server.codes + 1 ELSE None

Moved(c, d) == calls' = (calls \ {c}) \cup {d}

To(c, pc) == Moved(c, [c EXCEPT !.pc = pc]) /\ UNCHANGED <<section, server, view, spent>>

(* The catch of runWithFreshTwoFactor sees the refusal once; a handler outside *)
(* it, or its second attempt, reports it.                                      *)
Turned(c) == IF Script(c.h).retries /\ c.tries = 1 THEN "stale" ELSE "failed"

Refuse(c) ==
  /\ c.pc = (IF c.h = "changePassword" THEN "finish" ELSE "sent")
  /\ Refused(c)
  /\ To(c, Turned(c))

Serve(c) ==
  /\ Acts(c) /\ (c.pc = "sent" => ~Refused(c))
  /\ IF Applied(c) = None
     THEN To(c, "failed")
     ELSE /\ server' = Applied(c)
          /\ Moved(c, [c EXCEPT !.pc = "ok", !.hits = @ + 1, !.key = CodesIn(c),
                                !.got = InfoOf(server'), !.at = spent.reads + 1])
          /\ spent' = [spent EXCEPT !.unseen = @ \/ ~c.live, !.reads = @ + 1]
          /\ UNCHANGED <<section, view>>

BeginRegister(c) == c.h = "register" /\ c.pc = "sent" /\ ~Refused(c) /\ To(c, "finish")

(* The requests of changePassword: the wrapped account key, which the current  *)
(* password must open; the login challenge, which it must answer; and the      *)
(* finish, where the server stores the re-wrapped key and then the verifier.   *)
FetchKey(c) ==
  c.pc = "me" /\ To(c, IF server.key = c.x[1] /\ ~server.gone THEN "begin" ELSE "failed")

BeginExchange(c) ==
  /\ c.pc = "begin"
  /\ Moved(c, [c EXCEPT !.pc = "finish", !.key = server.login])
  /\ UNCHANGED <<section, server, view, spent>>

UpdateAccountKey(c) ==
  /\ c.h = "changePassword" /\ c.pc = "finish" /\ ~Refused(c)
  /\ IF c.key # c.x[1] \/ server.gone
     THEN To(c, "failed")
     ELSE /\ server' = [server EXCEPT !.key = c.x[2]]
          /\ Moved(c, [c EXCEPT !.pc = "write"])
          /\ UNCHANGED <<section, view, spent>>

UpdateUserSRP(c) ==
  /\ c.pc = "write"
  /\ server' = [server EXCEPT !.login = c.x[2]]
  /\ Moved(c, [c EXCEPT !.pc = "ok", !.hits = @ + 1])
  /\ UNCHANGED <<section, view, spent>>

RequestFails(c) ==
  /\ c.pc \in {"sent", "me", "begin", "finish", "info", "verify", "again", "write"}
  /\ spent.upsets < MaxUpsets
  /\ Moved(c, [c EXCEPT !.pc = "failed"])
  /\ spent' = [spent EXCEPT !.upsets = @ + 1]
  /\ UNCHANGED <<section, server, view>>

(* Fault: runWithFreshTwoFactor takes any error for a refusal.                 *)
AnswerLostRetried(c) ==
  /\ Acts(c) /\ ~Refused(c) /\ spent.upsets < MaxUpsets
  /\ Applied(c) # None
  /\ server' = Applied(c)
  /\ Moved(c, [c EXCEPT !.pc = Turned(c), !.hits = @ + 1])
  /\ spent' = [spent EXCEPT !.upsets = @ + 1, !.unseen = TRUE]
  /\ UNCHANGED <<section, view>>

AnswerLost(c) ==
  /\ Acts(c) /\ ~Refused(c) /\ spent.upsets < MaxUpsets
  /\ Applied(c) # None
  /\ server' = Applied(c)
  /\ Moved(c, [c EXCEPT !.pc = "failed", !.hits = @ + 1])
  /\ spent' = [spent EXCEPT !.upsets = @ + 1, !.unseen = TRUE]
  /\ UNCHANGED <<section, view>>

-------------------------------------------------------------------------------
(* ensureFreshTwoFactor: nothing to verify when no factor is known to be       *)
(* enrolled; otherwise the prompt blocks the page until it is answered or      *)
(* cancelled, and the verification is sent.                                    *)
Resent(c) == [c EXCEPT !.pc = IF c.h = "changePassword" THEN "me" ELSE "sent", !.tries = 2]

ensureFreshTwoFactor(c, known) ==
  IF known.factors = {} THEN {Resent(c)}
  ELSE {[c EXCEPT !.pc = "verify"], [c EXCEPT !.pc = "failed"]}

Prompt(c) ==
  /\ c.pc = "stale"
  /\ IF c.known = None
     THEN Moved(c, [c EXCEPT !.pc = "info"])
     ELSE \E d \in ensureFreshTwoFactor(c, c.known) : Moved(c, d)
  /\ UNCHANGED <<section, server, view, spent>>

getTwoFactorInfo(c) ==
  /\ c.pc = "info"
  /\ \E d \in ensureFreshTwoFactor(c, InfoOf(server)) : Moved(c, d)
  /\ UNCHANGED <<section, server, view, spent>>

Verify(c) ==
  /\ c.pc = "verify"
  /\ server' = [server EXCEPT !.fresh = server.factors # {}]
  /\ Moved(c, [c EXCEPT !.pc = IF server.factors # {} THEN "again" ELSE "failed"])
  /\ UNCHANGED <<section, view, spent>>

Again(c) ==
  /\ c.pc = "again"
  /\ Moved(c, Resent(c))
  /\ UNCHANGED <<section, server, view, spent>>

(* The verification ages out of the window requireRecentMFA accepts. *)
Expire ==
  /\ server.fresh /\ spent.upsets < MaxUpsets
  /\ server' = [server EXCEPT !.fresh = FALSE]
  /\ spent' = [spent EXCEPT !.upsets = @ + 1]
  /\ UNCHANGED <<section, view, calls>>

-------------------------------------------------------------------------------
(* The catch branch.  The password form and the deletion modal have an error   *)
(* line of their own.                                                          *)
Failed(c) ==
  /\ c.pc = "failed"
  /\ view' = IF ~c.live THEN view
             ELSE Lowered([view EXCEPT !.err = @ \/ c.h \notin {"changePassword", "submitDelete"}],
                          Script(c.h).flag, c.n)
  /\ calls' = calls \ {c}
  /\ UNCHANGED <<section, server, spent>>

(* applyDeletePolicy sets the policy form and the status from one answer. *)
Showing(v, info) == [v EXCEPT !.info = info, !.policy = info.policy]

Closing(v, c) ==
  CASE c.h = "begin" -> [v EXCEPT !.modal = "totp"]
    [] c.h = "confirm" -> [v EXCEPT !.modal = None, !.codes = c.key]
    [] c.h \in {"register", "regenerate"} -> [v EXCEPT !.codes = c.key]
    [] c.h = "changePassword" ->
         IF v.modal = "password"
         THEN [v EXCEPT !.modal = None, !.busy = @ \ {"password"}, !.form = 0] ELSE v
    [] c.h = "submitDelete" -> [v EXCEPT !.modal = None]
    [] c.h = "savePolicy" -> Showing(v, c.got)
    [] OTHER -> v

loadStart(v) == [v EXCEPT !.loading = TRUE, !.err = @ /\ section = "security"]

Succeeded(c) ==
  LET v == Closing(view, c)
      s == Script(c.h)
  IN /\ c.pc = "ok" /\ c.live /\ ~(c.h = "submitDelete" /\ c.x = "now")
     /\ IF s.reload
        THEN view' = loadStart(v) /\ Moved(c, [c EXCEPT !.pc = "list"])
        ELSE view' = Lowered(v, s.flag, c.n) /\ calls' = calls \ {c}
     /\ spent' = IF c.h = "savePolicy"
                 THEN [spent EXCEPT !.last = c.at, !.unseen = @ \/ c.at < spent.last]
                 ELSE spent
     /\ UNCHANGED <<section, server>>

(* The account is deleted: the browser goes to the front page. *)
Gone(c) ==
  /\ c.pc = "ok" /\ c.live /\ c.h = "submitDelete" /\ c.x = "now"
  /\ section' = None
  /\ calls' = {}
  /\ UNCHANGED <<server, view, spent>>

(* Nobody waits for the answer of a section that was left. *)
Ignored(c) ==
  /\ c.pc = "ok" /\ ~c.live
  /\ calls' = calls \ {c}
  /\ UNCHANGED <<section, server, view, spent>>

ReadInfo(c) ==
  /\ c.pc = "list"
  /\ IF server.gone
     THEN Moved(c, [c EXCEPT !.pc = "unlisted"])
     ELSE Moved(c, [c EXCEPT !.pc = "listed", !.got = InfoOf(server), !.at = spent.reads + 1])
  /\ spent' = [spent EXCEPT !.reads = @ + 1, !.unseen = @ \/ server.gone]
  /\ UNCHANGED <<section, server, view>>

ReadFails(c) ==
  /\ c.pc = "list" /\ spent.upsets < MaxUpsets
  /\ Moved(c, [c EXCEPT !.pc = "unlisted"])
  /\ spent' = [spent EXCEPT !.upsets = @ + 1, !.unseen = TRUE]
  /\ UNCHANGED <<section, server, view>>

InfoArrives(c) ==
  /\ c.pc = "listed"
  /\ view' = Lowered(Showing([view EXCEPT !.loading = FALSE,
                                          !.err = @ /\ section = "danger"], c.got),
                     Script(c.h).flag, c.n)
  /\ calls' = calls \ {c}
  /\ spent' = [spent EXCEPT !.last = c.at, !.unseen = @ \/ c.at < spent.last]
  /\ UNCHANGED <<section, server>>

InfoFails(c) ==
  /\ c.pc = "unlisted"
  /\ view' = Lowered([view EXCEPT !.loading = FALSE, !.err = TRUE], Script(c.h).flag, c.n)
  /\ calls' = calls \ {c}
  /\ UNCHANGED <<section, server, spent>>

(* Another section is chosen and this one opened again: the component mounts   *)
(* afresh, and handlers already started run on without it.                     *)
Leave ==
  /\ Page /\ section # None /\ spent.upsets < MaxUpsets
  /\ view' = Mounted
  /\ calls' = {[c EXCEPT !.live = FALSE] :
                 c \in {d \in calls : d.pc \notin {"list", "listed", "unlisted"}}}
                \cup {Call(0, "load", None, "list")}
  /\ spent' = [spent EXCEPT !.upsets = @ + 1]
  /\ UNCHANGED <<section, server>>

-------------------------------------------------------------------------------
Init ==
  /\ section \in Places
  /\ \E F \in SUBSET Factors, fresh \in BOOLEAN :
       LET p == CHOOSE q \in Passwords : TRUE
       IN server = [factors |-> F, codes |-> IF F = {} THEN 0 ELSE 1, fresh |-> fresh /\ F # {},
                    key |-> p, login |-> p, scheduled |-> FALSE, policy |-> FALSE,
                    gone |-> FALSE]
  /\ view = Mounted
  /\ calls = {Call(0, "load", None, "list")}
  /\ spent = [presses |-> 0, upsets |-> 0, reads |-> 0, last |-> 0,
              unseen |-> FALSE]

Steps(c) ==
  \/ Refuse(c) \/ Serve(c) \/ BeginRegister(c)
  \/ FetchKey(c) \/ BeginExchange(c) \/ UpdateAccountKey(c) \/ UpdateUserSRP(c)
  \/ Prompt(c) \/ getTwoFactorInfo(c) \/ Verify(c) \/ Again(c)
  \/ Failed(c) \/ Succeeded(c) \/ Gone(c) \/ Ignored(c)
  \/ ReadInfo(c) \/ InfoArrives(c) \/ InfoFails(c)

Faults(c) == RequestFails(c) \/ AnswerLost(c) \/ ReadFails(c)

User ==
  \/ BeginTOTP
  \/ \E f \in Factors : ConfirmTOTP(f)
  \/ \E f \in Factors : RegisterSecurityKey(f)
  \/ RegenerateRecovery
  \/ \E f \in Factors : DeleteFactor(f)
  \/ OpenPassword
  \/ \E old, new \in Passwords : ChangePassword(old, new)
  \/ openDeleteModal
  \/ \E mode \in {"schedule", "now"} : SubmitDelete(mode)
  \/ EditPolicy
  \/ SavePolicy
  \/ CancelDeletion
  \/ CloseModal
  \/ CloseCodes
  \/ Leave

Next == User \/ Expire \/ \E c \in calls : Steps(c) \/ Faults(c)

(* Every request is served or fails and its continuation runs, and a prompt    *)
(* that blocks the page is answered or dismissed.                              *)
Spec == Init /\ [][Next]_vars /\ WF_vars(\E c \in calls : Steps(c))

-------------------------------------------------------------------------------
(* Every variable keeps its shape. *)
TypeOK ==
  /\ section \in Places \cup {None}
  /\ server \in [factors : SUBSET Factors, codes : 0 .. MaxCodes, fresh : BOOLEAN,
                 key : Passwords, login : Passwords, scheduled : BOOLEAN,
                 policy : BOOLEAN, gone : BOOLEAN]
  /\ view.info \in Info \cup {None}
  /\ view.modal \in {None, "totp", "password", "delete"}
  /\ view.codes \in 0 .. MaxCodes \cup {None}
  /\ view.busy \subseteq {"action", "password", "policy", "cancel"}
  /\ \A c \in calls : c.h \in Handlers /\ c.tries \in 1 .. 2

(* No spinner stays behind: a handler's flag is up exactly while the handler   *)
(* that raised it runs, through refusal, prompt, verification, second attempt, *)
(* reload and every way of failing; the loading note is up only while a read   *)
(* is out.                                                                     *)
BusyHasCall ==
  section # None =>
    /\ \A flag \in view.busy :
         \E c \in calls : c.live /\ Script(c.h).flag = flag
    /\ \A c \in calls :
         (c.live /\ Script(c.h).flag \notin {None, "password"}) => Script(c.h).flag \in view.busy
    /\ view.loading => \E c \in calls : c.pc \in {"list", "listed", "unlisted"}

(* Running an action again after a verification does not repeat it: one press  *)
(* changes the account at most once, also when an answer is lost or the        *)
(* verification window closes between the two attempts.                        *)
ActsOncePerPress == \A c \in calls : c.hits <= 1

(* The recovery codes on screen, which are shown once and never again, are the *)
(* ones the account now accepts.                                               *)
ShownCodesWork == section # None /\ view.codes # None => view.codes = server.codes

(* A section at rest agrees with the account: when no handler runs, no answer  *)
(* was lost, none went to a closed section and none arrived out of order, the  *)
(* factors and codes shown, or the scheduled deletion shown, are the stored    *)
(* ones.                                                                       *)
SettledViewAgrees ==
  (section # None /\ calls = {} /\ ~view.err /\ ~spent.unseen) =>
    IF section = "security"
    THEN view.info.factors = server.factors /\ view.info.codes = server.codes
    ELSE view.info.scheduled = server.scheduled

(* Every handler ends, and with it every spinner. *)
BusyEnds == (view.busy # {}) ~> (view.busy = {} \/ section = None)

(* When no password change runs, the password that logs in also unwraps the    *)
(* account key.                                                                *)
KeyMatchesLogin ==
  (\A c \in calls : c.h # "changePassword") => server.key = server.login
================================================================================
