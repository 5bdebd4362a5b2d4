---------------------------- MODULE SmtpSession -----------------------------
(***************************************************************************)
(* The SMTP server (internal/smtp/server) with its backend in elvishserver *)
(* (cmd/elvishserver/smtp_backend.go), and the clients that talk to it.    *)
(* A client follows RFC 5321: it names recipients inside a mail            *)
(* transaction, which EHLO, STARTTLS, RSET and the final answer to DATA    *)
(* end.  What it has been told is its view; what the server has in its     *)
(* session struct is sess.  Replies without a change of state on either    *)
(* side (syntax errors, VRFY, NOOP, unknown commands) are left out.        *)
(***************************************************************************)
EXTENDS Integers, Sequences

CONSTANTS Sessions,        \* connections
          Mode,            \* "mx" or "submission"
          Recipients,      \* addresses clients name
          Local,           \* those with an identity at the start
          Messages,
          TLSConfig,       \* BOOLEAN: STARTTLS is configured
          AllowPlainAuth,  \* BOOLEAN
          MaxRecipients,
          RateMax,         \* messages per window and peer
          MaxFaults        \* bound: failures of stores and lookups

ASSUME ModeAssumption == Mode \in {"mx", "submission"}
ASSUME MessagesAssumption == Messages # {}
ASSUME LocalAssumption == Local \subseteq Recipients
ASSUME ConfigAssumption == TLSConfig \in BOOLEAN /\ AllowPlainAuth \in BOOLEAN
ASSUME LimitsAssumption == /\ MaxRecipients \in Nat \ {0} /\ RateMax \in Nat \ {0}
                           /\ MaxFaults \in Nat

VARIABLES sess,        \* the server's session structs
          view,        \* each client's transaction: open or not, recipients accepted
          identities,  \* addresses with a local identity
          hits,        \* the rate limiter's counter for the peer's window
          named,       \* history: recipients named for a message
          served,      \* recipients mailpipe stored the message for, or whose
                       \* filters dropped it
          believed,    \* history: recipients answered for with 250
          closing,     \* rootCtx is cancelled
          faults

vars == <<sess, view, identities, hits, named, served, believed, closing, faults>>

NoClient == [mail |-> FALSE, rcpts |-> {}]
NoMessage == CHOOSE m \in Messages : TRUE
NoSession(pc) ==
  [pc |-> pc, greeted |-> FALSE, tls |-> FALSE, authed |-> FALSE, from |-> FALSE,
   rcpt |-> <<>>, msg |-> NoMessage, next |-> 1, lost |-> FALSE]

\* Lists of recipients the server may hold.
RcptLists == UNION {[1 .. n -> Recipients] : n \in 0 .. MaxRecipients}

\* from: st.from is not the empty string.  lost: nobody reads the replies.
SessionType ==
  [pc : {"closed", "command", "data", "ingest", "cut"}, greeted : BOOLEAN, tls : BOOLEAN,
   authed : BOOLEAN, from : BOOLEAN, rcpt : RcptLists, msg : Messages,
   next : 1 .. MaxRecipients + 1, lost : BOOLEAN]

TypeOK ==
  /\ sess \in [Sessions -> SessionType]
  /\ view \in [Sessions -> [mail : BOOLEAN, rcpts : SUBSET Recipients]]
  /\ identities \subseteq Recipients
  /\ hits \in 0 .. RateMax + 1
  /\ named \in [Messages -> SUBSET Recipients]
  /\ served \in [Messages -> SUBSET Recipients]
  /\ believed \in [Messages -> SUBSET Recipients]
  /\ closing \in BOOLEAN
  /\ faults \in 0 .. MaxFaults

Init ==
  /\ sess = [s \in Sessions |-> NoSession("closed")]
  /\ view = [s \in Sessions |-> NoClient]
  /\ identities = Local
  /\ hits = 0
  /\ named = [m \in Messages |-> {}]
  /\ served = [m \in Messages |-> {}]
  /\ believed = [m \in Messages |-> {}]
  /\ closing = FALSE
  /\ faults = 0

mailboxes == <<identities, hits, named, served, believed>>

-----------------------------------------------------------------------------
(* Commands *)

Commanded(s) == sess[s].pc = "command"

Set(s, st) == sess' = [sess EXCEPT ![s] = st]
Forget(s)  == view' = [view EXCEPT ![s] = NoClient]

\* Serve and the greeting of handle.
Connect(s) ==
  /\ sess[s].pc = "closed" /\ ~closing
  /\ Set(s, NoSession("command"))
  /\ UNCHANGED <<view, mailboxes, closing, faults>>

\* cmdEHLO, cmdHELO: for the client a new start, for the server only a name.
Hello(s) ==
  /\ Commanded(s)
  /\ Set(s, [sess[s] EXCEPT !.greeted = TRUE])
  /\ Forget(s)
  /\ UNCHANGED <<mailboxes, closing, faults>>

\* cmdSTARTTLS and the swap of the connection in handle.
StartTLS(s) ==
  /\ Commanded(s) /\ sess[s].greeted /\ TLSConfig
  /\ Forget(s)
  /\ \/ Set(s, [sess[s] EXCEPT !.tls = TRUE, !.greeted = FALSE])
     \/ Set(s, NoSession("closed"))
  /\ UNCHANGED <<mailboxes, closing, faults>>

\* cmdAUTH with good credentials.
Auth(s) ==
  /\ Commanded(s) /\ sess[s].greeted /\ Mode = "submission"
  /\ sess[s].tls \/ AllowPlainAuth
  /\ Set(s, [sess[s] EXCEPT !.authed = TRUE])
  /\ UNCHANGED <<view, mailboxes, closing, faults>>

MailAllowed(st) == st.greeted /\ (Mode = "submission" => st.authed)

\* Fault: the recipients of the transaction before stay.
MailKeepsRcpts(s, null) ==
  /\ Commanded(s) /\ ~view[s].mail
  /\ MailAllowed(sess[s])
  /\ Set(s, [sess[s] EXCEPT !.from = ~null])
  /\ view' = [view EXCEPT ![s] = [mail |-> TRUE, rcpts |-> {}]]
  /\ UNCHANGED <<mailboxes, closing, faults>>

\* cmdMAIL; null: the reverse-path of a bounce, <>.
Mail(s, null) ==
  /\ Commanded(s) /\ ~view[s].mail
  /\ MailAllowed(sess[s])
  /\ Set(s, [sess[s] EXCEPT !.from = ~null, !.rcpt = <<>>])
  /\ view' = [view EXCEPT ![s] = [mail |-> TRUE, rcpts |-> {}]]
  /\ UNCHANGED <<mailboxes, closing, faults>>

HasRoom(st) == Len(st.rcpt) < MaxRecipients

\* cmdRCPT: LookupRecipient needs rootCtx.
Rcpt(s, r) ==
  /\ Commanded(s) /\ view[s].mail
  /\ sess[s].from /\ HasRoom(sess[s])
  /\ Mode = "mx" => (r \in identities /\ ~closing)
  /\ Set(s, [sess[s] EXCEPT !.rcpt = Append(@, r)])
  /\ view' = [view EXCEPT ![s].rcpts = @ \cup {r}]
  /\ UNCHANGED <<mailboxes, closing, faults>>

\* cmdDATA up to the 354.
Data(s, m) ==
  /\ Commanded(s) /\ view[s].mail /\ sess[s].rcpt # <<>>
  /\ Set(s, [sess[s] EXCEPT !.pc = "data", !.msg = m])
  /\ named' = [named EXCEPT ![m] = @ \cup view[s].rcpts]
  /\ UNCHANGED <<view, identities, hits, served, believed, closing, faults>>

Reset(st) == [st EXCEPT !.from = FALSE, !.rcpt = <<>>]

\* RSET.
Rset(s) ==
  /\ Commanded(s)
  /\ Set(s, Reset(sess[s]))
  /\ Forget(s)
  /\ UNCHANGED <<mailboxes, closing, faults>>

\* The client hangs up, or its line is lost, or the deadline passes.  A message
\* that was read is handled all the same.
HangUp(s) ==
  /\ sess[s].pc \in {"command", "data", "ingest"} /\ ~sess[s].lost
  /\ Set(s, IF sess[s].pc = "ingest" THEN [sess[s] EXCEPT !.lost = TRUE] ELSE NoSession("closed"))
  /\ Forget(s)
  /\ UNCHANGED <<mailboxes, closing, faults>>

-----------------------------------------------------------------------------
(* The message *)

\* The reply that ends cmdDATA, after which from and rcpt are cleared.
AfterReply(st) ==
  IF st.lost THEN NoSession("closed")
  ELSE Reset([st EXCEPT !.pc = "command", !.next = 1, !.msg = NoMessage])

Replied(s) == Set(s, AfterReply(sess[s])) /\ Forget(s)

\* ReadDATA fails: from and rcpt stay.
TooLarge(s) ==
  /\ sess[s].pc = "data"
  /\ Set(s, [sess[s] EXCEPT !.pc = "command", !.msg = NoMessage])
  /\ Forget(s)
  /\ UNCHANGED <<mailboxes, closing, faults>>

\* Limiter.Allow, with the counter cut off above the limit.
Hit == hits' = IF hits > RateMax THEN hits ELSE hits + 1

\* allowSMTP, then (MX) mailAuth.Enforce or (submission)
\* resolveSubmissionPrincipal: the message goes to mailpipe or is refused.
Handle(s) ==
  /\ sess[s].pc = "data"
  /\ \/ /\ ~closing
        /\ Hit
        /\ \/ /\ hits' <= RateMax
              /\ Set(s, [sess[s] EXCEPT !.pc = "ingest"])
              /\ UNCHANGED view
           \/ Replied(s)
     \/ /\ closing
        /\ UNCHANGED hits
        /\ Replied(s)
  /\ UNCHANGED <<identities, named, served, believed, closing, faults>>

More(st) == st.next <= Len(st.rcpt)

\* IngestExternal for one recipient of HandleInbound's loop: the message is
\* stored, or a filter of the recipient drops it; the loop goes on either way.
IngestExternal(s) ==
  LET st == sess[s]
      r  == st.rcpt[st.next]
  IN  /\ st.pc = "ingest" /\ Mode = "mx" /\ More(st)
      /\ r \in identities /\ ~closing
      /\ Set(s, [st EXCEPT !.next = @ + 1])
      /\ served' = [served EXCEPT ![st.msg] = @ \cup {r}]
      /\ UNCHANGED <<view, identities, hits, named, believed, closing, faults>>

\* Fault: the loop goes on after an error.
IngestErrorIgnored(s) ==
  LET st == sess[s]
  IN  /\ st.pc = "ingest" /\ Mode = "mx" /\ More(st)
      /\ st.rcpt[st.next] \notin identities
      /\ Set(s, [st EXCEPT !.next = @ + 1])
      /\ UNCHANGED <<view, mailboxes, closing, faults>>

\* IngestExternal fails: 451 for the whole message, whoever has it already.
IngestFails(s) ==
  LET st == sess[s]
  IN  /\ st.pc = "ingest"
      /\ Mode = "mx" => More(st)
      /\ \/ /\ closing \/ (Mode = "mx" /\ st.rcpt[st.next] \notin identities)
            /\ UNCHANGED faults
         \/ /\ faults < MaxFaults
            /\ faults' = faults + 1
      /\ Replied(s)
      /\ UNCHANGED <<mailboxes, closing>>

\* 250, after every recipient (MX), or after IngestSubmission stored the copy
\* for the sender's sent folder.
Accept(s) ==
  LET st == sess[s]
  IN  /\ st.pc = "ingest"
      /\ IF Mode = "mx" THEN ~More(st) ELSE ~closing
      /\ Replied(s)
      /\ believed' = IF st.lost THEN believed
                     ELSE [believed EXCEPT ![st.msg] = @ \cup view[s].rcpts]
      /\ UNCHANGED <<identities, hits, named, served, closing, faults>>

-----------------------------------------------------------------------------
(* Around the sessions *)

\* An identity is deleted, between RCPT and DATA too.
IdentityDeleted(r) ==
  /\ r \in identities
  /\ identities' = identities \ {r}
  /\ UNCHANGED <<sess, view, hits, named, served, believed, closing, faults>>

\* The next window of the rate limiter.
WindowPasses ==
  /\ hits # 0
  /\ hits' = 0
  /\ UNCHANGED <<sess, view, identities, named, served, believed, closing, faults>>

\* rootCtx is done: Close.
Shutdown ==
  /\ ~closing
  /\ closing' = TRUE
  /\ UNCHANGED <<sess, view, mailboxes, faults>>

\* main returns once HTTP is down and the loops it waits for have ended.
Exit ==
  /\ closing
  /\ sess' = [s \in Sessions |-> IF sess[s].pc = "closed" THEN sess[s] ELSE NoSession("cut")]
  /\ view' = [s \in Sessions |-> NoClient]
  /\ UNCHANGED <<mailboxes, closing, faults>>

Step(s) ==
  \/ Connect(s) \/ Hello(s) \/ StartTLS(s) \/ Auth(s)
  \/ \E null \in BOOLEAN : Mail(s, null)
  \/ \E r \in Recipients : Rcpt(s, r)
  \/ \E m \in Messages : Data(s, m)
  \/ Rset(s) \/ HangUp(s) \/ TooLarge(s) \/ Handle(s)
  \/ IngestExternal(s) \/ IngestFails(s) \/ Accept(s)

Next ==
  \/ \E s \in Sessions : Step(s)
  \/ \E r \in Recipients : IdentityDeleted(r)
  \/ WindowPasses \/ Shutdown \/ Exit

Spec == Init /\ [][Next]_vars

-----------------------------------------------------------------------------
(* Properties *)

(* A message reaches nobody the client did not name for it: recipients of  *)
(* a transaction that was reset, refused or broken off, or that EHLO or    *)
(* STARTTLS ended for the client, do not receive the next message.         *)
NamedOnly == \A m \in Messages : served[m] \subseteq named[m]

(* What the client was told: "Message accepted" means that every recipient *)
(* it was told "Recipient OK" for has the message, or a filter of that     *)
(* recipient dropped it, or (submission) it is queued for that recipient.  *)
AcceptedForAll == \A m \in Messages : believed[m] \subseteq served[m]

(* In submission mode only sessions that authenticated, and did so over    *)
(* TLS unless plain AUTH is configured, get a message to mailpipe.         *)
SubmittedByPrincipal ==
  \A s \in Sessions :
    (Mode = "submission" /\ sess[s].pc = "ingest") =>
      sess[s].authed /\ (sess[s].tls \/ AllowPlainAuth)

(* "Sender OK" opens a transaction: what follows is not a bad sequence of  *)
(* commands.                                                               *)
SenderOkOpens == \A s \in Sessions : (Commanded(s) /\ view[s].mail) => sess[s].from

(* "Close stops accepting new connections; in-flight sessions complete."   *)
InFlightComplete == \A s \in Sessions : sess[s].pc # "cut"
=============================================================================
