----------------------------- MODULE MessageView -----------------------------
(***************************************************************************)
(* Reading one message: the MessageDetail pane of static/mail/mail-app.jsx *)
(* with the encrypted browser cache behind it (static/mail/mail-cache.js)  *)
(* and the background recovery of list metadata that shares that cache.    *)
(*                                                                         *)
(* Everything here is asynchronous.  A decryption reads the cache, then    *)
(* fetches and decrypts the blob; a signature check fetches the sender's   *)
(* keys, decrypts once more and then looks at a nested signature; a        *)
(* recovery writes a header, an envelope and a re-encrypted header to the  *)
(* server.  The reader may open another message between any two of these.  *)
(* React runs the effects of a render before it delivers the next event,   *)
(* so the automatic decryption is part of the action that enables it.      *)
(***************************************************************************)
EXTENDS Integers, FiniteSets

CONSTANTS Messages,      \* the rows of the folder, 1..n in list order
          Mails,         \* the mails a row may stand for
          Envelope,      \* what the reader makes of each mail (see Mime)
          Addresses, Keys,
          Self,          \* the addresses of the reader's own identities
          LocalKey,      \* [Self -> Keys], the identities' own keys
          Directory,     \* [Addresses -> Keys \cup {None}], the key directory
          BACKGROUND_RECOVERY_CONCURRENCY,   \* 2 in the code
          MaxEvents,     \* bound on what the reader and other devices do
          None

ASSUME ViewAssumption ==
  /\ Self \subseteq Addresses /\ LocalKey \in [Self -> Keys]
  /\ Directory \in [Addresses -> Keys \cup {None}]
  /\ Messages \subseteq Nat /\ IsFiniteSet(Messages)
  /\ \A x \in Mails :
       /\ x.hdrs \in BOOLEAN /\ x.stub \in BOOLEAN /\ x.encrypted \in BOOLEAN
       /\ x.from \in Addresses /\ x.replyTo \in Addresses \cup {None}
       /\ x.to \subseteq Addresses /\ x.cc \subseteq Addresses
       /\ {x.outer, x.inner} \subseteq Keys \cup {None}
       /\ \A a \in DOMAIN x.keyOf : x.keyOf[a] \in Keys
  /\ None \notin Messages /\ None \notin Addresses /\ None \notin Keys
  /\ MaxEvents \in Nat /\ BACKGROUND_RECOVERY_CONCURRENCY \in Nat \ {0}

VARIABLES
  mail,      \* what each row's blob decrypts to
  server,    \* [ver, good]: the stored header, and whether it names the sender
  rows,      \* the same in the list on screen
  load,      \* the list an answer of the server brings, or None
  hdrCache,  \* [ver, good] or None, per message
  envCache,  \* [ver, of, env] or None, per message
  selected, body, bodyErr, busy, attempted,   \* the pane
  decrypts,  \* decryptions in flight
  run, sig, verifies, lastSig, trust,         \* the signature check
  contact,   \* the trusted key of each sender, or None
  earned,    \* history: the <<sender, key>> pairs ever saved as trusted
  saves,     \* writes of recovered metadata in flight
  recovering, tried,                          \* the background recovery
  draft,     \* the reply the composer was last opened with
  events

pane == <<selected, body, bodyErr, busy, attempted, decrypts>>
check == <<run, sig, verifies, lastSig, trust, contact, earned>>
store == <<server, rows, load, hdrCache, envCache, saves, recovering, tried>>
vars == <<mail, pane, check, store, draft, events>>

-----------------------------------------------------------------------------
(* The sender as the signature check sees them: the protected From of the  *)
(* decrypted message, or what the row shows.                               *)
SenderOf(m, good) == IF mail[m].hdrs \/ good THEN mail[m].from ELSE None

Attached(m) == LET atts == Envelope[mail[m]].atts IN {atts[i] : i \in DOMAIN atts}

extractPublicKeysFromMimeAttachments(m) ==
  {mail[m].keyOf[a] : a \in Attached(m) \cap DOMAIN mail[m].keyOf}

(* The keys a check uses.  For one of the reader's own addresses the       *)
(* contacts are not asked.                                                 *)
buildCombinedVerificationArmored(sender, contactKey, dirKey, attKeys) ==
  IF sender = None THEN {}
  ELSE ((IF sender \in Self THEN {LocalKey[sender]} ELSE {contactKey})
          \cup attKeys \cup {dirKey}) \ {None}

summarizeSignatureVerification(signer, keys) ==
  CASE signer = None -> [status |-> "unsigned", signer |-> None]
    [] signer # None /\ keys = {} -> [status |-> "missing_public_key", signer |-> None]
    [] signer # None /\ signer \in keys -> [status |-> "verified", signer |-> signer]
    [] OTHER -> [status |-> "bad_signature", signer |-> None]

(* A nested signature is looked at only with a key at hand.                *)
verifyNestedSignedPayloadAfterDecrypt(signer, keys) ==
  IF keys = {} THEN [status |-> "unsigned", signer |-> None]
  ELSE summarizeSignatureVerification(signer, keys)

mergeNestedSignatureVerification(outer, inner) ==
  IF inner.status # "unsigned" /\ (inner.status = "verified" \/ outer.status # "verified")
  THEN inner ELSE outer

(* Fault: a key of the directory counts as a trusted contact's.            *)
BadgeFromDirectory(v, merged) ==
  LET ok == merged.status = "verified"
      known == merged.signer \in {v.contact, v.dir}
  IN [status |-> merged.status, of |-> v.of, sender |-> v.sender, signer |-> merged.signer,
      trust |-> CASE ok /\ known -> "trusted" [] ok /\ ~known -> "untrusted" [] OTHER -> "na",
      import |-> None]

(* The badge: trusted for the reader's own identity or a trusted contact,  *)
(* untrusted for any other verified key; an untrusted key that came with   *)
(* the message or from the directory can be imported.                      *)
Badge(v, merged) ==
  LET own == v.sender \in Self /\ merged.signer = LocalKey[v.sender]
      known == v.sender \notin Self /\ v.contact # None /\ merged.signer = v.contact
      ok == merged.status = "verified"
      candidates == extractPublicKeysFromMimeAttachments(v.of) \cup {v.dir}
  IN [status |-> merged.status, of |-> v.of, sender |-> v.sender,
      signer |-> merged.signer,
      trust |-> CASE ok /\ (own \/ known) -> "trusted"
                  [] ok /\ ~(own \/ known) -> "untrusted"
                  [] OTHER -> "na",
      import |-> IF ok /\ ~own /\ ~known /\ merged.signer \in candidates
                 THEN merged.signer ELSE None]

Checking(m) == [status |-> "checking", of |-> m, sender |-> None, signer |-> None,
                trust |-> "na", import |-> None]
SigError(m) == [Checking(m) EXCEPT !.status = "error"]

(* verifyBodySignature up to its first await.                              *)
verifyBodySignature(m, sender) ==
  /\ run' = run + 1
  /\ sig' = Checking(m)
  /\ lastSig' = [of |-> m, sender |-> sender]
  /\ verifies' = verifies \cup
       {[of |-> m, run |-> run + 1, sender |-> sender, stage |-> "keys",
         contact |-> None, dir |-> None]}

NoCheck == UNCHANGED <<run, sig, lastSig, verifies>>

-----------------------------------------------------------------------------
extractVersion(m) == rows[m].ver

unwrapVersionedPayload(entry, version) == entry # None /\ entry.ver = version

(* An envelope from the cache has lost the bytes of its attachments and    *)
(* serves a reader only when it has none.                                  *)
CachedEnvelope(d) ==
  /\ unwrapVersionedPayload(envCache[d.of], d.ver)
  /\ envCache[d.of].env.atts = <<>>

(* recoverMessageMetadata: a recovered header goes into the row at once    *)
(* and its persistence starts.  A cache hit brings no key to re-encrypt    *)
(* the header with.                                                        *)
recoverMessageMetadata(m, ver, content, fromCache) ==
  /\ rows' = [rows EXCEPT ![m].good = @ \/ mail[content].hdrs]
  /\ saves' = saves \cup {[of |-> m, ver |-> ver, content |-> content,
                           stage |-> "header", refresh |-> ~fromCache]}

(* The two effects of the pane after a render, in the order they run: the  *)
(* reset belongs to OpenMessage; the automatic decryption starts when the  *)
(* pane is idle and empty and this message has not been tried.             *)
Render(sel, bod, err, bsy, att, dec) ==
  LET auto == sel # None /\ ~bsy /\ bod = None /\ att # sel
  IN /\ selected' = sel
     /\ body' = bod
     /\ bodyErr' = (err /\ ~auto)
     /\ busy' = (bsy \/ auto)
     /\ attempted' = IF auto THEN sel ELSE att
     /\ decrypts' = IF auto
                    THEN dec \cup {[of |-> sel, ver |-> rows'[sel].ver,
                                    good |-> rows'[sel].good, stage |-> "cache"]}
                    ELSE dec

(* The effect that starts recoveries after a change of the list: the first *)
(* candidates in list order, as many as there are free slots.              *)
shouldRecoverMetadataFromBody(m) == ~rows'[m].good /\ mail[m].encrypted

startRecoveries(inFlight) ==
  LET slots == BACKGROUND_RECOVERY_CONCURRENCY - Cardinality(inFlight)
      wanted == {m \in Messages : /\ shouldRecoverMetadataFromBody(m)
                                  /\ m \notin {r.of : r \in inFlight}
                                  /\ tried[m] # rows'[m].ver}
      chosen == {m \in wanted : Cardinality({n \in wanted : n < m}) < slots}
  IN /\ recovering' = inFlight \cup {[of |-> m, ver |-> rows'[m].ver, stage |-> "cache"]
                                      : m \in chosen}
     /\ tried' = [m \in Messages |-> IF m \in chosen THEN rows'[m].ver ELSE tried[m]]

-----------------------------------------------------------------------------
Init ==
  /\ mail \in {f \in [Messages -> Mails] : \A m, n \in Messages : f[m] = f[n] => m = n}
  /\ server = [m \in Messages |-> [ver |-> 1, good |-> mail[m].stub]]
  /\ rows = [m \in Messages |-> [ver |-> 0, good |-> FALSE]]
  /\ load = server
  /\ hdrCache = [m \in Messages |-> None]
  /\ envCache = [m \in Messages |-> None]
  /\ selected = None /\ body = None /\ bodyErr = FALSE /\ busy = FALSE
  /\ attempted = None /\ decrypts = {}
  /\ run = 0 /\ sig = None /\ verifies = {} /\ lastSig = None /\ trust = None
  /\ contact = [a \in Addresses |-> None]
  /\ earned = {}
  /\ saves = {} /\ recovering = {} /\ tried = [m \in Messages |-> 0]
  /\ draft = None
  /\ events = 0

Event == events < MaxEvents /\ events' = events + 1

(* loadFolder asks for the list: the answer is the server's state now.     *)
FetchList ==
  /\ Event
  /\ load = None
  /\ load' = server
  /\ UNCHANGED <<mail, pane, check, server, rows, hdrCache, envCache, saves,
                 recovering, tried, draft>>

(* ... and applies it: a cached header of the same version fills in what   *)
(* the stored one lacks, and what came out is cached again.                *)
ApplyList ==
  /\ load # None
  /\ LET good(m) == \/ load[m].good
                    \/ unwrapVersionedPayload(hdrCache[m], load[m].ver) /\ hdrCache[m].good
     IN /\ rows' = [m \in Messages |-> [ver |-> load[m].ver, good |-> good(m)]]
        /\ hdrCache' = [m \in Messages |-> [ver |-> load[m].ver, good |-> good(m)]]
  /\ load' = None
  /\ startRecoveries(recovering)
  /\ UNCHANGED <<mail, pane, check, server, envCache, saves, draft, events>>

(* Opening another message, or none: the reset effect clears the pane, but *)
(* not busy, and makes every running check out of date.                    *)
OpenMessage(m) ==
  /\ Event
  /\ m # selected
  /\ m # None => rows[m].ver > 0
  /\ run' = run + 1
  /\ sig' = None
  /\ UNCHANGED store
  /\ Render(m, None, FALSE, busy, None, decrypts)
  /\ UNCHANGED <<mail, verifies, lastSig, trust, contact, earned, draft>>

(* The RETRY button.                                                       *)
RetryDecrypt ==
  /\ Event
  /\ selected # None /\ ~busy /\ body = None
  /\ busy' = TRUE
  /\ bodyErr' = FALSE
  /\ decrypts' = decrypts \cup {[of |-> selected, ver |-> rows[selected].ver,
                                 good |-> rows[selected].good, stage |-> "cache"]}
  /\ UNCHANGED <<mail, selected, body, attempted, check, store, draft>>

(* decryptBody: the cache misses.                                          *)
CacheMiss(d) ==
  /\ d.stage = "cache" /\ ~CachedEnvelope(d)
  /\ decrypts' = (decrypts \ {d}) \cup {[d EXCEPT !.stage = "blob"]}
  /\ UNCHANGED <<mail, selected, body, bodyErr, busy, attempted, check, store,
                 draft, events>>

(* The cache hits: the envelope is shown whatever is selected by now, and  *)
(* the blob is fetched for the signature only.                             *)
CacheHit(d) ==
  /\ d.stage = "cache" /\ CachedEnvelope(d)
  /\ body' = [of |-> envCache[d.of].of, env |-> envCache[d.of].env]
  /\ decrypts' = (decrypts \ {d}) \cup {[d EXCEPT !.stage = "sigblob"]}
  /\ recoverMessageMetadata(d.of, d.ver, envCache[d.of].of, TRUE)
  /\ startRecoveries(recovering)
  /\ UNCHANGED <<mail, selected, bodyErr, busy, attempted, check, server, load,
                 hdrCache, envCache, draft, events>>

(* The blob is there and decrypts: it is taken apart and shown whatever is *)
(* selected by now, its metadata goes to the list, its signature is        *)
(* checked.                                                                *)
BlobDecrypted(d) ==
  /\ d.stage = "blob"
  /\ recoverMessageMetadata(d.of, d.ver, d.of, FALSE)
  /\ IF mail[d.of].hdrs THEN startRecoveries(recovering)
     ELSE UNCHANGED <<recovering, tried>>
  /\ Render(selected, [of |-> d.of, env |-> Envelope[mail[d.of]]],
            bodyErr, FALSE, attempted, decrypts \ {d})
  /\ verifyBodySignature(d.of, SenderOf(d.of, d.good))
  /\ UNCHANGED <<mail, trust, contact, earned, server, load, hdrCache, envCache,
                 draft, events>>

(* Fault: the error is swallowed.                                          *)
BlobFailsSilently(d) ==
  /\ d.stage = "blob"
  /\ sig' = None
  /\ UNCHANGED rows
  /\ Render(selected, body, bodyErr, FALSE, attempted, decrypts \ {d})
  /\ UNCHANGED <<mail, run, verifies, lastSig, trust, contact, earned, server, load,
                 hdrCache, envCache, saves, recovering, tried, draft, events>>

(* The fetch or the decryption fails.                                      *)
BlobFails(d) ==
  /\ d.stage = "blob"
  /\ sig' = None
  /\ UNCHANGED rows
  /\ Render(selected, body, TRUE, FALSE, attempted, decrypts \ {d})
  /\ UNCHANGED <<mail, run, verifies, lastSig, trust, contact, earned, server, load,
                 hdrCache, envCache, saves, recovering, tried, draft, events>>

(* After a cache hit the blob is there: the check starts.  Its failure is  *)
(* ignored.                                                                *)
SigBlob(d) ==
  /\ d.stage = "sigblob"
  /\ \/ verifyBodySignature(d.of, SenderOf(d.of, d.good))
     \/ NoCheck
  /\ UNCHANGED rows
  /\ Render(selected, body, bodyErr, FALSE, attempted, decrypts \ {d})
  /\ UNCHANGED <<mail, trust, contact, earned, server, load, hdrCache, envCache,
                 saves, recovering, tried, draft, events>>

-----------------------------------------------------------------------------
(* The key lookups of a check are back; a lookup that fails brings no key. *)
KeysFound(v) ==
  /\ v.stage = "keys"
  /\ \E c \in IF v.sender = None \/ v.sender \in Self THEN {None}
              ELSE {contact[v.sender], None},
        k \in IF v.sender = None THEN {None} ELSE {Directory[v.sender], None} :
       verifies' = (verifies \ {v}) \cup
                     {[v EXCEPT !.stage = "outer", !.contact = c, !.dir = k]}
  /\ UNCHANGED <<mail, pane, run, sig, lastSig, trust, contact, earned, store, draft,
                 events>>

(* The second decryption is done.  Only here is the run compared.          *)
OuterVerified(v) ==
  /\ v.stage = "outer"
  /\ verifies' = IF v.run = run THEN (verifies \ {v}) \cup {[v EXCEPT !.stage = "nested"]}
                 ELSE verifies \ {v}
  /\ UNCHANGED <<mail, pane, run, sig, lastSig, trust, contact, earned, store, draft,
                 events>>

(* ... or failed.                                                          *)
OuterFails(v) ==
  /\ v.stage = "outer"
  /\ verifies' = verifies \ {v}
  /\ sig' = IF v.run = run THEN SigError(v.of) ELSE sig
  /\ UNCHANGED <<mail, pane, run, lastSig, trust, contact, earned, store, draft,
                 events>>

(* The nested signature has been looked at: the badge is set, with no      *)
(* further look at the run.                                                *)
NestedVerified(v) ==
  /\ v.stage = "nested"
  /\ LET keys == buildCombinedVerificationArmored(v.sender, v.contact, v.dir,
                   extractPublicKeysFromMimeAttachments(v.of))
         outer == summarizeSignatureVerification(mail[v.of].outer, keys)
         inner == verifyNestedSignedPayloadAfterDecrypt(mail[v.of].inner, keys)
     IN sig' = Badge(v, mergeNestedSignatureVerification(outer, inner))
  /\ verifies' = verifies \ {v}
  /\ UNCHANGED <<mail, pane, run, lastSig, trust, contact, earned, store, draft,
                 events>>

(* The TRUST button saves the key on offer for the sender of the badge.    *)
onTrustSigner ==
  /\ Event
  /\ trust = None
  /\ sig # None /\ sig.import # None /\ sig.sender # None
  /\ trust' = [sender |-> sig.sender, key |-> sig.import]
  /\ UNCHANGED <<mail, pane, run, sig, verifies, lastSig, contact, earned, store, draft>>

(* ... and checks again what was checked last; if the save fails an error  *)
(* is shown.                                                               *)
TrustSaved ==
  /\ trust # None
  /\ contact' = [contact EXCEPT ![trust.sender] = trust.key]
  /\ earned' = earned \cup {<<trust.sender, trust.key>>}
  /\ verifyBodySignature(lastSig.of, lastSig.sender)
  /\ trust' = None
  /\ UNCHANGED <<mail, pane, store, draft, events>>

TrustFails ==
  /\ trust # None
  /\ trust' = None
  /\ UNCHANGED <<mail, pane, run, sig, verifies, lastSig, contact, earned, store, draft,
                 events>>

(* Trust withdrawn in the settings, here or on another device.             *)
Distrust(a) ==
  /\ contact[a] # None
  /\ contact' = [contact EXCEPT ![a] = None]
  /\ UNCHANGED <<mail, pane, run, sig, verifies, lastSig, trust, earned, store, draft,
                 events>>

-----------------------------------------------------------------------------
(* persistRecoveredArtifacts, one await at a time: the header cache,       *)
(* the envelope cache, then the header on the server, re-encrypted.  The   *)
(* new ciphertext is a new version of the message.                         *)
SaveHeader(w) ==
  /\ w.stage = "header"
  /\ hdrCache' = [hdrCache EXCEPT ![w.of] = [ver |-> w.ver, good |-> mail[w.content].hdrs]]
  /\ saves' = (saves \ {w}) \cup {[w EXCEPT !.stage = "envelope"]}
  /\ UNCHANGED <<mail, pane, check, server, rows, load, envCache, recovering, tried,
                 draft, events>>

(* Fault: the envelope on screen is stored.                                *)
SaveEnvelopeOnScreen(w) ==
  /\ w.stage = "envelope"
  /\ envCache' = [envCache EXCEPT ![w.of] =
                    IF body = None THEN @ ELSE [ver |-> w.ver, of |-> body.of, env |-> body.env]]
  /\ saves' = saves \ {w}
  /\ UNCHANGED <<mail, pane, check, server, rows, load, hdrCache, recovering, tried,
                 draft, events>>

SaveEnvelope(w) ==
  /\ w.stage = "envelope"
  /\ envCache' = [envCache EXCEPT ![w.of] =
                    [ver |-> w.ver, of |-> w.content,
                     env |-> Envelope[mail[w.content]]]]
  /\ saves' = (saves \ {w}) \cup
                (IF w.refresh /\ mail[w.content].hdrs
                 THEN {[w EXCEPT !.stage = "server"]} ELSE {})
  /\ UNCHANGED <<mail, pane, check, server, rows, load, hdrCache, recovering, tried,
                 draft, events>>

refreshMessageHeader(w) ==
  /\ w.stage = "server"
  /\ server' = [server EXCEPT ![w.of] = [ver |-> @.ver + 1, good |-> TRUE]]
  /\ saves' = saves \ {w}
  /\ UNCHANGED <<mail, pane, check, rows, load, hdrCache, envCache, recovering, tried,
                 draft, events>>

(* Any of the three may fail, and then the rest is left out.               *)
SaveFails(w) ==
  /\ saves' = saves \ {w}
  /\ UNCHANGED <<mail, pane, check, server, rows, load, hdrCache, envCache, recovering,
                 tried, draft, events>>

(* runBackgroundMetadataRecovery: a cached envelope is enough, else the    *)
(* blob is fetched.  The slot is given back before the list renders.       *)
RecoverFromCache(r) ==
  /\ r.stage = "cache"
  /\ IF unwrapVersionedPayload(envCache[r.of], r.ver)
     THEN /\ recoverMessageMetadata(r.of, r.ver, envCache[r.of].of, TRUE)
          /\ startRecoveries(recovering \ {r})
     ELSE /\ recovering' = (recovering \ {r}) \cup {[r EXCEPT !.stage = "blob"]}
          /\ UNCHANGED <<rows, saves, tried>>
  /\ UNCHANGED <<mail, pane, check, server, load, hdrCache, envCache, draft, events>>

RecoverFromBlob(r) ==
  /\ r.stage = "blob"
  /\ recoverMessageMetadata(r.of, r.ver, r.of, FALSE)
  /\ IF mail[r.of].hdrs THEN startRecoveries(recovering \ {r})
     ELSE recovering' = recovering \ {r} /\ UNCHANGED tried
  /\ UNCHANGED <<mail, pane, check, server, load, hdrCache, envCache, draft, events>>

(* A failure changes no row, so nothing looks for the next candidate.      *)
RecoveryFails(r) ==
  /\ r.stage = "blob"
  /\ recovering' = recovering \ {r}
  /\ UNCHANGED <<mail, pane, check, server, rows, load, hdrCache, envCache, saves, tried,
                 draft, events>>

-----------------------------------------------------------------------------
(* A reply: to the others when the message is the reader's own, else to    *)
(* Reply-To or From; a reply to all copies everybody else once.            *)
buildReplyComposeDraft(m, replyAll) ==
  LET f == mail[m]
      outgoing == f.from \in Self
      others == f.to \ Self
      to == IF outgoing THEN IF others = {} THEN {f.from} ELSE others
            ELSE {IF f.replyTo # None THEN f.replyTo ELSE f.from}
      copied == IF outgoing THEN f.cc ELSE f.to \cup f.cc
  IN [of |-> m, all |-> replyAll, to |-> to,
      cc |-> IF replyAll THEN (copied \ Self) \ to ELSE {},
      quotes |-> IF body = None THEN m ELSE body.of]

Reply(replyAll) ==
  /\ Event
  /\ selected # None /\ rows[selected].good
  /\ draft' = buildReplyComposeDraft(selected, replyAll)
  /\ UNCHANGED <<mail, pane, check, store>>

-----------------------------------------------------------------------------
Reader == \/ FetchList \/ RetryDecrypt \/ onTrustSigner
          \/ \E m \in Messages \cup {None} : OpenMessage(m)
          \/ \E a \in Addresses : Distrust(a)
          \/ \E all \in BOOLEAN : Reply(all)

Answer == \/ ApplyList \/ TrustSaved \/ TrustFails
          \/ \E d \in decrypts : \/ CacheMiss(d) \/ CacheHit(d) \/ BlobDecrypted(d)
                                 \/ BlobFails(d) \/ SigBlob(d)
          \/ \E v \in verifies : \/ KeysFound(v) \/ OuterVerified(v) \/ OuterFails(v)
                                 \/ NestedVerified(v)
          \/ \E w \in saves : \/ SaveHeader(w) \/ SaveEnvelope(w)
                              \/ refreshMessageHeader(w) \/ SaveFails(w)
          \/ \E r \in recovering : \/ RecoverFromCache(r) \/ RecoverFromBlob(r)
                                   \/ RecoveryFails(r)

Next == Reader \/ Answer

(* Promises settle: every pending answer arrives, as a result or a failure.*)
Spec == Init /\ [][Next]_vars /\ WF_vars(Answer)

-----------------------------------------------------------------------------
Versions == Nat
Entries == [ver: Versions, good: BOOLEAN]
Envelopes == {Envelope[x] : x \in Mails}
Statuses == {"checking", "error", "unsigned", "missing_public_key", "verified",
             "bad_signature"}

(* The shape of the state: what the pane, its requests and the two caches  *)
(* may hold.                                                               *)
TypeOK ==
  /\ mail \in [Messages -> Mails]
  /\ server \in [Messages -> Entries] /\ rows \in [Messages -> Entries]
  /\ load = None \/ load \in [Messages -> Entries]
  /\ \A m \in Messages : hdrCache[m] = None \/ hdrCache[m] \in Entries
  /\ \A m \in Messages : \/ envCache[m] = None
                         \/ envCache[m] \in [ver: Versions, of: Messages, env: Envelopes]
  /\ selected \in Messages \cup {None} /\ attempted \in Messages \cup {None}
  /\ body = None \/ body \in [of: Messages, env: Envelopes]
  /\ bodyErr \in BOOLEAN /\ busy \in BOOLEAN
  /\ \A d \in decrypts : d \in [of: Messages, ver: Versions, good: BOOLEAN,
                                stage: {"cache", "blob", "sigblob"}]
  /\ sig = None \/ sig \in [status: Statuses, of: Messages,
                            sender: Addresses \cup {None}, signer: Keys \cup {None},
                            trust: {"trusted", "untrusted", "na"},
                            import: Keys \cup {None}]
  /\ \A v \in verifies : v \in [of: Messages, run: 1..run, sender: Addresses \cup {None},
                                stage: {"keys", "outer", "nested"},
                                contact: Keys \cup {None}, dir: Keys \cup {None}]
  /\ lastSig = None \/ lastSig \in [of: Messages, sender: Addresses \cup {None}]
  /\ trust = None \/ trust \in [sender: Addresses, key: Keys]
  /\ contact \in [Addresses -> Keys \cup {None}] /\ earned \subseteq Addresses \X Keys
  /\ \A w \in saves : w \in [of: Messages, ver: Versions, content: Messages,
                             stage: {"header", "envelope", "server"}, refresh: BOOLEAN]
  /\ \A r \in recovering : r \in [of: Messages, ver: Versions, stage: {"cache", "blob"}]
  /\ draft = None \/ draft \in [of: Messages, all: BOOLEAN, to: SUBSET Addresses,
                                cc: SUBSET Addresses, quotes: Messages]

(* The pane says DECRYPTING exactly while one decryption runs, and never   *)
(* runs two: the busy flag survives a change of message (decryptBody and   *)
(* the automatic decryption share it).                                     *)
OneDecrypt ==
  /\ Cardinality(decrypts) <= 1
  /\ busy <=> decrypts # {}

(* What is on screen is what the reader makes of the message it came from, *)
(* by way of the cache or not (decryptBody).                               *)
ShownIsParsed == body # None => body.env = Envelope[mail[body.of]]

(* The envelope cache never mixes messages up: an entry holds the envelope *)
(* of the message it is filed under, however decryptions, recoveries and   *)
(* their writes overlap (persistRecoveredArtifacts, MailCache).            *)
CacheIsOwn ==
  \A m \in Messages : envCache[m] # None =>
    /\ envCache[m].of = m
    /\ envCache[m].env = Envelope[mail[m]]
    /\ envCache[m].ver <= server[m].ver

(* A row that names its sender has the name from somewhere: the stored     *)
(* header, or the protected headers of this very message.                  *)
RowIsEarned ==
  \A m \in Messages : rows[m].good => server[m].good \/ mail[m].hdrs

(* TRUSTED SIGNER is shown only for a key that made a signature on the     *)
(* message the badge is about, and that is the sender's own identity key   *)
(* here or a key this reader once saved as trusted for that sender.        *)
TrustIsEarned ==
  (sig # None /\ sig.trust = "trusted") =>
    /\ sig.signer \in {mail[sig.of].outer, mail[sig.of].inner}
    /\ sig.sender = mail[sig.of].from
    /\ \/ sig.sender \in Self /\ sig.signer = LocalKey[sig.sender]
       \/ <<sig.sender, sig.signer>> \in earned

(* Background recovery never holds more than its slots, and never works on *)
(* one message twice at a time (runBackgroundMetadataRecovery).            *)
RecoveryBounded ==
  /\ Cardinality(recovering) <= BACKGROUND_RECOVERY_CONCURRENCY
  /\ \A r, s \in recovering : r.of = s.of => r = s

(* A reply to all reaches everybody the message went to, copies nobody     *)
(* twice, and copies none of the reader's own addresses                    *)
(* (buildReplyComposeDraft).                                               *)
ReplyReachesAll ==
  draft # None =>
    /\ draft.cc \cap draft.to = {}
    /\ draft.cc \cap Self = {}
    /\ draft.to # {}
    /\ draft.all => (mail[draft.of].to \cup mail[draft.of].cc) \ Self
                      \subseteq draft.to \cup draft.cc

(* An opened message is shown, or an error is, unless the reader leaves    *)
(* it; the pane does not hang on a decryption another message began.       *)
OpenSettles == (selected # None) ~> (selected = None \/ body # None \/ bodyErr)

(* A signature under verification gets its verdict.                        *)
CheckSettles == (sig # None /\ sig.status = "checking")
                  ~> (sig = None \/ sig.status # "checking")

(* "Encrypted body - decryption runs locally when you open the message."   *)
(* The body under a message's header is that message's own.                *)
BodyIsOfMessage == body # None => body.of = selected

(* The signature badge under a message's header is about that message.     *)
SignatureIsOfMessage == sig # None => sig.of = selected

=============================================================================
