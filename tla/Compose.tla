------------------------------- MODULE Compose -------------------------------
(***************************************************************************)
(* The composer of the mail client (static/mail/compose.jsx): one window   *)
(* that may be closed and opened again while what it began is still under  *)
(* way.  The key of the recipient is looked up 350 ms after the last key   *)
(* stroke, first in the address book, then in the directory; a lookup has  *)
(* a sequence number and its answer counts only while it is the latest.    *)
(* Sending works on the values the fields had when the button was pressed. *)
(*                                                                         *)
(* A field holds the set of its addresses.  The text is a flag: the writer *)
(* has typed something that is not yet sent.  Effects run before the next  *)
(* event, so an action includes the effects of the state it sets.          *)
(***************************************************************************)
EXTENDS Naturals, FiniteSets

CONSTANTS Addresses, Keys,
          Directory,    \* [Addresses -> [key, source] or None], the key directory
          KnownKeys,    \* the same for the address book at the start
          PastedKey,    \* the key the writer pastes or uploads
          Passwords, TooShort,    \* link passwords, and those under 12 characters
          MaxLookups,   \* bound on the key lookups in flight
          MaxDrafts,    \* bound on how often the window is opened
          MaxEvents,    \* bound on what the writer does in it
          None

KeyOrNone == Keys \cup {None}
AddressOrNone == Addresses \cup {None}
Found == [email: AddressOrNone, key: Keys, source: {"local", "wkd", "manual"}]
Entries == [key: Keys, source: {"local", "wkd", "manual"}]

ASSUME ComposeAssumption ==
  /\ TooShort \subseteq Passwords /\ PastedKey \in Keys
  /\ MaxEvents \in Nat /\ MaxDrafts \in Nat /\ MaxLookups \in Nat
  /\ IsFiniteSet(Addresses)
ASSUME DirectoryAssumption ==
  /\ Directory \in [Addresses -> Entries \cup {None}]
  /\ KnownKeys \in [Addresses -> Entries \cup {None}]
ASSUME NoneAssumption == None \notin Addresses \cup Keys \cup Found

VARIABLES
  open, mode, given, to, typed, draft,   \* the window; draft numbers its openings
  panel,     \* the recipient-key panel
  lookups,   \* key lookups in flight
  upload,    \* the key file being read, for whom it was chosen, or None
  pwd, pwdConfirm, link,      \* link mode, and the result on display
  sends, busy, err,           \* handleSend
  sent, links, book, events   \* what the server has

window == <<open, mode, given, to, typed, draft>>
options == <<pwd, pwdConfirm, link>>
sending == <<sends, busy, err>>
server == <<sent, links, book>>
vars == <<window, panel, lookups, upload, options, sending, server, events>>

-----------------------------------------------------------------------------
(* The panel: recipientArmored, recipientMeta, keyStatus, the manual key   *)
(* and its address, lookupBusy, lookupSeqRef and the pending timer.        *)
NoKey == [key |-> None, meta |-> None, status |-> "idle", manual |-> FALSE,
          manualFor |-> None, busy |-> FALSE, seq |-> 0, timer |-> FALSE]

toRecipientsForPGP(field) == field

singleComposeRecipient(field) ==
  IF Cardinality(toRecipientsForPGP(field)) = 1 THEN CHOOSE a \in field : TRUE ELSE None

(* The effect that watches To, the mode and the panel.                     *)
Watch(p, field, md) ==
  LET off == [p EXCEPT !.seq = @ + 1, !.busy = FALSE, !.timer = FALSE]
      blank(s) == IF p.manual THEN [off EXCEPT !.status = s]
                  ELSE [off EXCEPT !.status = s, !.key = None, !.meta = None]
      n == Cardinality(toRecipientsForPGP(field))
  IN CASE md # "pgp" -> off
       [] md = "pgp" /\ n = 0 -> blank("idle")
       [] md = "pgp" /\ n > 1 -> blank("needs-single")
       [] OTHER -> [p EXCEPT !.timer = TRUE]

(* It runs again when something detectRecipientKey depends on has changed. *)
Rewatch(p, field, md) ==
  IF <<p.key, p.manual, p.manualFor>> = <<panel.key, panel.manual, panel.manualFor>>
  THEN p ELSE Watch(p, field, md)

(* detectRecipientKey up to its first await.                               *)
Detecting(p) == [p EXCEPT !.seq = @ + 1, !.busy = TRUE, !.status = "checking",
                          !.timer = FALSE]

Lookup(p, target, by) ==
  [seq |-> p.seq + 1, target |-> target, by |-> by, stage |-> "contact",
   preserve |-> p.manual /\ p.manualFor = target /\ p.key # None]

(* Fault: the description changes even where the pasted key stays.         *)
KeyFoundRelabels(p, l, hit) ==
  [p EXCEPT !.status = "found", !.busy = FALSE, !.key = IF l.preserve THEN @ ELSE hit.key,
     !.meta = [email |-> l.target, key |-> hit.key, source |-> hit.source]]

(* ... and what its answer does to the panel.                              *)
KeyFound(p, l, hit) ==
  LET seen == [p EXCEPT !.status = "found", !.busy = FALSE]
  IN IF l.preserve THEN seen
     ELSE [seen EXCEPT !.key = hit.key, !.manual = FALSE, !.manualFor = None,
             !.meta = [email |-> l.target, key |-> hit.key, source |-> hit.source]]

KeyMissing(p, l) ==
  LET seen == [p EXCEPT !.status = "missing", !.busy = FALSE]
  IN IF l.preserve THEN seen ELSE [seen EXCEPT !.key = None, !.meta = None]

KeyError(p, l) ==
  LET seen == [p EXCEPT !.status = "error", !.busy = FALSE]
  IN IF l.preserve THEN seen ELSE [seen EXCEPT !.meta = None]

-----------------------------------------------------------------------------
(* The open effect: closing clears the window, opening fills it from the   *)
(* draft it was given.                                                     *)
Closed ==
  /\ open' = FALSE
  /\ mode' = "pgp" /\ given' = {} /\ to' = {} /\ typed' = FALSE /\ draft' = draft
  /\ panel' = Watch([NoKey EXCEPT !.seq = panel.seq], {}, "pgp")
  /\ pwd' = None /\ pwdConfirm' = None /\ link' = None
  /\ err' = FALSE

Event == events < MaxEvents /\ events' = events + 1

Init ==
  /\ open = FALSE /\ mode = "pgp" /\ given = {} /\ to = {} /\ typed = FALSE /\ draft = 0
  /\ panel = NoKey /\ lookups = {} /\ upload = None
  /\ pwd = None /\ pwdConfirm = None /\ link = None
  /\ sends = {} /\ busy = FALSE /\ err = FALSE
  /\ sent = {} /\ links = {} /\ book = KnownKeys
  /\ events = 0

(* A new message, or a reply with its recipient filled in.                 *)
OpenCompose(field) ==
  /\ ~open /\ draft < MaxDrafts
  /\ open' = TRUE /\ given' = field /\ to' = field /\ typed' = FALSE /\ draft' = draft + 1
  /\ panel' = Watch(panel, field, mode)
  /\ UNCHANGED <<mode, lookups, upload, options, sending, server, events>>

(* Fault: closing the window clears the busy flag.                         *)
CloseWhileSending ==
  /\ open
  /\ Closed
  /\ busy' = FALSE
  /\ UNCHANGED <<lookups, upload, sends, server, events>>

(* The cross in the corner, which a running send does not disable.         *)
CloseCompose ==
  /\ open
  /\ Closed
  /\ UNCHANGED <<lookups, upload, sends, busy, server, events>>

(* The identities arrive, or change, and with them defaultFrom: the open   *)
(* effect fills the fields from the draft once more.                       *)
DefaultFromChanges ==
  /\ Event
  /\ open
  /\ to' = given /\ typed' = FALSE
  /\ panel' = IF given = to THEN panel ELSE Watch(panel, given, mode)
  /\ UNCHANGED <<open, mode, given, draft, lookups, upload, options, sending, server>>

TypeTo(field) ==
  /\ Event
  /\ open /\ field # to
  /\ to' = field
  /\ panel' = Watch(panel, field, mode)
  /\ UNCHANGED <<open, mode, given, typed, draft, lookups, upload, options, sending, server>>

TypeBody ==
  /\ open /\ ~typed
  /\ typed' = TRUE
  /\ UNCHANGED <<open, mode, given, to, draft, panel, lookups, upload, options, sending,
                 server, events>>

SetMode(md) ==
  /\ Event
  /\ open /\ md # mode
  /\ mode' = md
  /\ panel' = Watch(panel, to, md)
  /\ UNCHANGED <<open, given, to, typed, draft, lookups, upload, options, sending, server>>

-----------------------------------------------------------------------------
(* The timer, and the button that asks again.                              *)
StartLookup ==
  /\ panel.timer /\ Cardinality(lookups) < MaxLookups
  /\ lookups' = lookups \cup {Lookup(panel, singleComposeRecipient(to), "timer")}
  /\ panel' = Detecting(panel)
  /\ UNCHANGED <<window, upload, options, sending, server, events>>

fetchRecipientKey ==
  /\ Event
  /\ open /\ mode = "pgp" /\ ~panel.busy
  /\ singleComposeRecipient(to) # None /\ Cardinality(lookups) < MaxLookups
  /\ lookups' = lookups \cup {Lookup(panel, singleComposeRecipient(to), "timer")}
  /\ panel' = [Detecting(panel) EXCEPT !.timer = panel.timer]
  /\ UNCHANGED <<window, upload, options, sending, server>>

current(l) == l.seq = panel.seq

(* The address book has no key: the directory is next.                     *)
NotInBook(l) ==
  /\ l.stage = "contact" /\ l.by = "timer"
  /\ book[l.target] = None
  /\ lookups' = (lookups \ {l}) \cup
                  (IF current(l) THEN {[l EXCEPT !.stage = "directory"]} ELSE {})
  /\ UNCHANGED <<window, panel, upload, options, sending, server, events>>

Hit(l) == IF l.stage = "contact" THEN book[l.target] ELSE Directory[l.target]

(* What the last answer makes of the panel: nothing if it is out of date.  *)
Answered(l, p) == IF current(l) THEN Rewatch(p, to, mode) ELSE panel

LookupAnswer(l) ==
  /\ l.by = "timer"
  /\ l.stage = "contact" => Hit(l) # None
  /\ panel' = Answered(l, IF Hit(l) # None THEN KeyFound(panel, l, Hit(l))
                          ELSE KeyMissing(panel, l))
  /\ lookups' = lookups \ {l}
  /\ UNCHANGED <<window, upload, options, sending, server, events>>

LookupFails(l) ==
  /\ l.by = "timer"
  /\ panel' = Answered(l, KeyError(panel, l))
  /\ lookups' = lookups \ {l}
  /\ UNCHANGED <<window, upload, options, sending, server, events>>

(* A key pasted for the recipient of the moment, or taken back.            *)
handleManualKeyChange(k) ==
  /\ Event
  /\ open /\ mode = "pgp"
  /\ LET target == singleComposeRecipient(to)
         p == IF k # None
              THEN [panel EXCEPT !.key = k, !.manual = TRUE, !.manualFor = target,
                      !.meta = [email |-> target, key |-> k, source |-> "manual"],
                      !.status = "manual"]
              ELSE [panel EXCEPT !.key = None, !.manual = FALSE, !.manualFor = None,
                      !.meta = None, !.status = "idle"]
     IN panel' = Rewatch(p, to, mode)
  /\ UNCHANGED <<window, lookups, upload, options, sending, server>>

(* A key file: read in the background, for the recipient of the moment the *)
(* file was chosen.                                                        *)
handleManualKeyUpload ==
  /\ Event
  /\ open /\ mode = "pgp" /\ upload = None
  /\ upload' = [email |-> singleComposeRecipient(to)]
  /\ UNCHANGED <<window, panel, lookups, options, sending, server>>

UploadRead ==
  /\ upload # None
  /\ upload' = None
  /\ panel' = Rewatch([panel EXCEPT !.key = PastedKey, !.manual = TRUE,
                         !.manualFor = upload.email, !.status = "manual",
                         !.meta = [email |-> upload.email, key |-> PastedKey,
                                   source |-> "manual"]], to, mode)
  /\ UNCHANGED <<window, lookups, options, sending, server, events>>

UploadRefused ==
  /\ upload # None
  /\ upload' = None
  /\ UNCHANGED <<window, panel, lookups, options, sending, server, events>>

-----------------------------------------------------------------------------
(* handleSend works on what the fields were when the button was pressed.   *)
Press(save) ==
  LET target == singleComposeRecipient(to)
  IN [draft |-> draft, mode |-> mode, to |-> target, save |-> save,
      key |-> panel.key, meta |-> panel.meta, seq |-> panel.seq + 1,
      manual |-> panel.manual /\ panel.manualFor = target /\ panel.key # None,
      pw |-> pwd, done |-> link # None, stage |-> "lookup", local |-> FALSE,
      asked |-> FALSE]

settled(s) == s.manual \/ (s.meta # None /\ s.meta.email = s.to)

(* Fault: a key left in the panel is taken for a local recipient too.      *)
RouteKeepsKey(s, found) ==
  [s EXCEPT !.stage = "post", !.key = IF s.key = None THEN found.key ELSE s.key,
     !.local = ~s.manual /\ found # None /\ found.source = "local" /\ found.email = s.to,
     !.meta = IF s.manual THEN [email |-> s.to, key |-> s.key, source |-> "manual"] ELSE found]

(* The route: which key, and whether the recipient is on this server.      *)
Route(s, found) ==
  LET local == /\ ~s.manual /\ found # None
               /\ found.source = "local" /\ found.email = s.to
      key == IF ~s.manual /\ (local \/ s.key = None) THEN found.key ELSE s.key
  IN [s EXCEPT !.key = key, !.local = local, !.stage = "post",
        !.meta = IF s.manual THEN [email |-> s.to, key |-> key, source |-> "manual"]
                 ELSE found]

Failed(s) == sends' = sends \ {s} /\ busy' = FALSE /\ err' = TRUE

(* The press: the checks of the mode, then the lookup if the panel's key   *)
(* is not this recipient's.                                                *)
handleSend(save) ==
  LET s == Press(save)
      valid == IF mode = "pgp" THEN s.to # None
               ELSE /\ pwd # None /\ pwd \notin TooShort
                    /\ pwd = pwdConfirm /\ typed
  IN /\ Event
     /\ open /\ ~busy
     /\ IF ~valid
        THEN err' = TRUE /\ UNCHANGED <<sends, busy, panel, lookups>>
        ELSE /\ err' = FALSE /\ busy' = TRUE
             /\ CASE mode = "link" ->
                       /\ sends' = sends \cup {[s EXCEPT !.stage = "link"]}
                       /\ UNCHANGED <<panel, lookups>>
                  [] mode = "pgp" /\ settled(s) ->
                       /\ sends' = sends \cup {Route(s, s.meta)}
                       /\ UNCHANGED <<panel, lookups>>
                  [] mode = "pgp" /\ ~settled(s) ->
                       /\ sends' = sends \cup {[s EXCEPT !.asked = TRUE]}
                       /\ lookups' = lookups \cup {Lookup(panel, s.to, "send")}
                       /\ panel' = [Detecting(panel) EXCEPT !.timer = panel.timer]
     /\ UNCHANGED <<window, upload, options, server>>

(* The answer to the lookup of a send: the panel takes it while it is      *)
(* current, and only then does the send; with no key at all it fails.      *)
Resume(s, l, p, found) ==
  LET f == IF current(l) THEN found ELSE None
  IN /\ panel' = Answered(l, p)
     /\ lookups' = lookups \ {l}
     /\ IF s.key = None /\ f = None THEN Failed(s)
        ELSE /\ sends' = (sends \ {s}) \cup {Route(s, f)}
             /\ UNCHANGED <<busy, err>>

SendNotInBook(s, l) ==
  /\ l.by = "send" /\ l.seq = s.seq /\ s.stage = "lookup"
  /\ l.stage = "contact" /\ book[l.target] = None
  /\ IF current(l)
     THEN /\ lookups' = (lookups \ {l}) \cup {[l EXCEPT !.stage = "directory"]}
          /\ UNCHANGED <<panel, sending>>
     ELSE Resume(s, l, panel, None)
  /\ UNCHANGED <<window, upload, options, server, events>>

SendLookupAnswer(s, l) ==
  /\ l.by = "send" /\ l.seq = s.seq /\ s.stage = "lookup"
  /\ l.stage = "contact" => Hit(l) # None
  /\ IF Hit(l) # None
     THEN Resume(s, l, KeyFound(panel, l, Hit(l)),
                 [email |-> l.target, key |-> Hit(l).key, source |-> Hit(l).source])
     ELSE Resume(s, l, KeyMissing(panel, l), None)
  /\ UNCHANGED <<window, upload, options, server, events>>

SendLookupFails(s, l) ==
  /\ l.by = "send" /\ l.seq = s.seq /\ s.stage = "lookup"
  /\ Resume(s, l, KeyError(panel, l), None)
  /\ UNCHANGED <<window, upload, options, server, events>>

(* onClose at the end of a send closes whatever window is open then.       *)
Finish(s) ==
  /\ sends' = sends \ {s}
  /\ busy' = FALSE
  /\ IF open THEN Closed
     ELSE UNCHANGED <<window, panel, options, err>>

(* What the server gets; "found" is the key the lookups gave for the       *)
(* recipient, and "asked" says the send had to look it up itself.          *)
Posted(s) == [draft |-> s.draft, to |-> s.to, key |-> s.key, local |-> s.local,
              asked |-> s.asked, found |-> IF s.meta = None THEN None ELSE s.meta.key]

(* sendPGPDirect: encrypted, signed and accepted by the server.            *)
sendPGPDirect(s) ==
  /\ s.stage = "post"
  /\ sent' = sent \cup {Posted(s)}
  /\ IF s.save /\ s.meta # None
     THEN /\ sends' = (sends \ {s}) \cup {[s EXCEPT !.stage = "book"]}
          /\ UNCHANGED <<window, panel, options, busy, err>>
     ELSE Finish(s)
  /\ UNCHANGED <<lookups, upload, links, book, events>>

(* The server's answer is lost on the way: an error is shown.              *)
AnswerLost(s) ==
  /\ s.stage \in {"post", "link"}
  /\ IF s.stage = "post"
     THEN sent' = sent \cup {Posted(s)} /\ UNCHANGED links
     ELSE links' = links \cup {[draft |-> s.draft, pw |-> s.pw]} /\ UNCHANGED sent
  /\ Failed(s)
  /\ UNCHANGED <<window, panel, lookups, upload, options, book, events>>

SendFails(s) ==
  /\ s.stage \in {"post", "link"}
  /\ Failed(s)
  /\ UNCHANGED <<window, panel, lookups, upload, options, server, events>>

(* The address book gets the key the message went out with, as trusted; a  *)
(* failure here is only logged.                                            *)
SaveContact(s) ==
  /\ s.stage = "book"
  /\ \/ book' = [book EXCEPT ![s.meta.email] = [key |-> s.key, source |-> s.meta.source]]
     \/ UNCHANGED book
  /\ Finish(s)
  /\ UNCHANGED <<lookups, upload, sent, links, events>>

TypePassword(p, q) ==
  /\ open /\ mode = "link"
  /\ <<p, q>> # <<pwd, pwdConfirm>>
  /\ pwd' = p /\ pwdConfirm' = q
  /\ UNCHANGED <<window, panel, lookups, upload, link, sending, server, events>>

(* sendProtectedLink: the link exists and is shown with its password.      *)
sendProtectedLink(s) ==
  /\ s.stage = "link"
  /\ links' = links \cup {[draft |-> s.draft, pw |-> s.pw]}
  /\ link' = [draft |-> s.draft, pw |-> s.pw]
  /\ sends' = sends \ {s} /\ busy' = FALSE
  /\ UNCHANGED <<window, panel, lookups, upload, pwd,
                 pwdConfirm, err, sent, book, events>>

-----------------------------------------------------------------------------
Fields == {f \in SUBSET Addresses : Cardinality(f) <= 2}

Writer ==
  \/ \E f \in Fields : OpenCompose(f) \/ TypeTo(f)
  \/ CloseCompose \/ DefaultFromChanges \/ TypeBody
  \/ \E md \in {"pgp", "link"} : SetMode(md)
  \/ fetchRecipientKey \/ handleManualKeyUpload
  \/ \E k \in {PastedKey, None} : handleManualKeyChange(k)
  \/ \E p, q \in Passwords : TypePassword(p, q)
  \/ \E save \in BOOLEAN : handleSend(save)

Answer ==
  \/ StartLookup \/ UploadRead \/ UploadRefused
  \/ \E l \in lookups : NotInBook(l) \/ LookupAnswer(l) \/ LookupFails(l)
  \/ \E s \in sends : \/ sendPGPDirect(s) \/ AnswerLost(s) \/ SendFails(s)
                      \/ SaveContact(s) \/ sendProtectedLink(s)
                      \/ \E l \in lookups : \/ SendNotInBook(s, l)
                                            \/ SendLookupAnswer(s, l)
                                            \/ SendLookupFails(s, l)

Next == Writer \/ Answer

(* Timers fire and requests are answered, or fail.                         *)
Spec == Init /\ [][Next]_vars /\ WF_vars(Answer)

-----------------------------------------------------------------------------
(* The shape of the window, its panel and what it has under way.           *)
TypeOK ==
  /\ open \in BOOLEAN /\ mode \in {"pgp", "link"} /\ typed \in BOOLEAN
  /\ to \subseteq Addresses /\ given \subseteq Addresses
  /\ panel.key \in KeyOrNone /\ panel.manualFor \in AddressOrNone
  /\ panel.meta = None \/ panel.meta \in Found
  /\ panel.status \in {"idle", "checking", "found", "missing", "error", "manual",
                       "needs-single"}
  /\ {panel.manual, panel.busy, panel.timer} \subseteq BOOLEAN
  /\ \A l \in lookups : l.seq \in 1..panel.seq /\ l.target \in Addresses
  /\ upload = None \/ upload \in [email : AddressOrNone]
  /\ {busy, err} \subseteq BOOLEAN
  /\ pwd \in Passwords \cup {None} /\ pwdConfirm \in Passwords \cup {None}
  /\ \A s \in sends : /\ s.stage \in {"lookup", "post", "book", "link"}
                      /\ s.mode = "pgp" => s.to \in Addresses
                      /\ s.stage \in {"post", "book"} => s.key \in Keys
  /\ \A m \in sent : m.to \in Addresses /\ m.key \in Keys
  /\ \A a \in Addresses : book[a] = None \/ book[a].key \in Keys

(* The panel says it is checking only while the latest lookup runs, and    *)
(* the timer runs only for one recipient of a PGP message: an older        *)
(* lookup, a change of mode or of To, or the closing of the window never   *)
(* leaves it spinning.                                                     *)
SpinnerHasLookup ==
  /\ panel.busy => \E l \in lookups : current(l)
  /\ panel.timer => mode = "pgp" /\ singleComposeRecipient(to) # None

(* The key in use is the one the panel describes: its address, source and  *)
(* fingerprint are never those of another key, however lookups, pasted     *)
(* keys and uploads overlap.                                               *)
KeyMatchesMeta ==
  (panel.meta # None /\ panel.key # None) => panel.meta.key = panel.key

(* A message goes out under the key found or pasted for its recipient      *)
(* whenever the panel had that key at the press of the button; a message   *)
(* delivered on this server always does.                                   *)
SettledKeyIsUsed ==
  \A m \in sent : (~m.asked \/ m.local) => m.key = m.found

(* The address book learns a key only from a message sent under it to that *)
(* address.                                                                *)
BookIsSent ==
  \A a \in Addresses : book[a] # KnownKeys[a] =>
    \E m \in sent : m.to = a /\ book[a].key = m.key

(* One send at a time, also across closing and opening the window again:   *)
(* the button is disabled exactly while one runs.                          *)
OneSend == Cardinality(sends) <= 1 /\ (busy <=> sends # {})

(* A send ends, with the window closed or an error or a link on display.   *)
SendSettles == busy ~> ~busy

(* The key panel comes to rest when the writer does.                       *)
LookupSettles == panel.busy ~> ~panel.busy

(* "payload is PGP-encrypted in the browser to that key", the pasted or    *)
(* fetched public key of the recipient.                                    *)
EncryptedToFoundKey == \A m \in sent : m.key = m.found

(* Once a link is on display the button says DONE - close: it makes no     *)
(* second link.                                                            *)
DoneMeansDone == \A s \in sends : s.stage = "link" => ~s.done

(* The password shown beside a link opens it.                              *)
LinkPasswordShown == (link # None /\ mode = "link") => link.pw = pwd

(* What the writer has typed goes when they close the window, or when the  *)
(* message itself has been sent.                                           *)
NoDraftLost ==
  [][(typed /\ ~typed') => \/ CloseCompose
                           \/ \E s \in sends : s \notin sends' /\ s.draft = draft]_vars

(* A pasted key stays until the writer changes it or the recipient.        *)
PastedKeyKept ==
  [][(panel.manual /\ ~panel'.manual /\ to' = to /\ open')
       => \E k \in {PastedKey, None} : handleManualKeyChange(k)]_vars

=============================================================================
