------------------------- MODULE SmtpSessionProofs --------------------------
(***************************************************************************)
(* For any number of connections, recipients and messages, any limits and  *)
(* any number of failures: sessions keep their types, a message reaches    *)
(* only recipients named for it, 250 from the MX means that every          *)
(* recipient was served, and submission needs a principal.                 *)
(*                                                                         *)
(* The inductive invariant ties each session struct to the client's view   *)
(* of its transaction: while a transaction is open they hold the same      *)
(* recipients, from DATA on these are named for the message, and those     *)
(* before next are served.                                                 *)
(***************************************************************************)
EXTENDS SmtpSession, SequenceTheorems, TLAPS

Elems(q) == {q[i] : i \in 1 .. Len(q)}

ViewType == [mail : BOOLEAN, rcpts : SUBSET Recipients]

\* The client's view agrees with the recipients the server holds.
Agrees(st, v) ==
  /\ v.rcpts = IF v.mail THEN Elems(st.rcpt) ELSE {}
  /\ v.mail => st.pc \in {"command", "data", "ingest"}
  /\ st.next # 1 => st.pc = "ingest"

\* From DATA on the recipients are named for the message, and those the loop
\* has passed are served.
Addressed(st, nm, sv) ==
  /\ st.pc \in {"data", "ingest"} => Elems(st.rcpt) \subseteq nm[st.msg]
  /\ (st.pc = "ingest" /\ Mode = "mx") =>
       \A i \in 1 .. Len(st.rcpt) : i < st.next => st.rcpt[i] \in sv[st.msg]

\* Who may submit.
Principal(st, v) ==
  Mode = "submission" =>
    /\ st.authed => (st.tls \/ AllowPlainAuth)
    /\ (v.mail \/ st.pc \in {"data", "ingest"}) => st.authed

Safe(st, v, nm, sv) == Agrees(st, v) /\ Addressed(st, nm, sv) /\ Principal(st, v)

\* The sessions, what was named, served and answered for, as one predicate of
\* their values.
Core(S, V, nm, sv, bl) ==
  /\ S \in [Sessions -> SessionType] /\ V \in [Sessions -> ViewType]
  /\ nm \in [Messages -> SUBSET Recipients]
  /\ sv \in [Messages -> SUBSET Recipients]
  /\ bl \in [Messages -> SUBSET Recipients]
  /\ \A s \in Sessions : Safe(S[s], V[s], nm, sv)
  /\ \A m \in Messages : sv[m] \subseteq nm[m]
  /\ Mode = "mx" => \A m \in Messages : bl[m] \subseteq sv[m]

Rest ==
  /\ identities \subseteq Recipients /\ hits \in 0 .. RateMax + 1
  /\ closing \in BOOLEAN /\ faults \in 0 .. MaxFaults

IInv == Core(sess, view, named, served, believed) /\ Rest

-----------------------------------------------------------------------------
(* Lists of recipients *)

(* What a list in RcptLists is, whatever the limit of cmdRCPT. *)
LEMMA ListFacts ==
  /\ <<>> \in RcptLists
  /\ \A q \in RcptLists : /\ q \in Seq(Recipients)
                          /\ Len(q) \in 0 .. MaxRecipients
                          /\ Elems(q) \subseteq Recipients
<1>1. <<>> \in RcptLists
  <2>1. <<>> \in [1 .. 0 -> Recipients]
    OBVIOUS
  <2> QED
    BY <2>1, LimitsAssumption DEF RcptLists
<1>2. ASSUME NEW q \in RcptLists
      PROVE  /\ q \in Seq(Recipients) /\ Len(q) \in 0 .. MaxRecipients
             /\ Elems(q) \subseteq Recipients
  <2>1. PICK n \in 0 .. MaxRecipients : q \in [1 .. n -> Recipients]
    BY DEF RcptLists
  <2>2. q \in Seq(Recipients) /\ Len(q) = n
    BY <2>1, LimitsAssumption
  <2> QED
    BY <2>1, <2>2, LimitsAssumption DEF Elems
<1> QED
  BY <1>1, <1>2

(* Appending a recipient while HasRoom keeps the limit and adds exactly it. *)
LEMMA AppendFacts ==
  ASSUME NEW q \in RcptLists, NEW r \in Recipients, Len(q) < MaxRecipients
  PROVE  /\ Append(q, r) \in RcptLists
         /\ Elems(Append(q, r)) = Elems(q) \cup {r}
<1>1. q \in Seq(Recipients) /\ Len(q) \in Nat
  BY ListFacts
<1> DEFINE n == Len(q) + 1
           a == Append(q, r)
<1>2. /\ a \in Seq(Recipients) /\ Len(a) = n /\ a[n] = r
      /\ \A i \in 1 .. Len(q) : a[i] = q[i]
  BY <1>1
<1>3. a \in [1 .. n -> Recipients]
  <2> HIDE DEF a, n
  <2> QED
    BY <1>1, <1>2, LenProperties
<1>4. n \in 0 .. MaxRecipients
  BY <1>1, LimitsAssumption
<1>5. a \in RcptLists
  BY <1>3, <1>4 DEF RcptLists
<1>6. Elems(a) = Elems(q) \cup {r}
  <2>1. \A i : i \in 1 .. n <=> (i \in 1 .. Len(q) \/ i = n)
    BY <1>1
  <2> QED
    BY <1>2, <2>1 DEF Elems
<1> QED
  BY <1>5, <1>6

(* The empty list names nobody. *)
LEMMA EmptyElems == Elems(<<>>) = {}
BY DEF Elems

(* Names and deliveries only grow, and growth keeps a session safe. *)
LEMMA SafeGrows ==
  ASSUME NEW st \in SessionType, NEW v, NEW nm, NEW sv, NEW nm2, NEW sv2,
         \A m \in Messages : nm[m] \subseteq nm2[m] /\ sv[m] \subseteq sv2[m],
         Safe(st, v, nm, sv)
  PROVE  Safe(st, v, nm2, sv2)
<1>1. st.msg \in Messages
  BY DEF SessionType
<1>2. nm[st.msg] \subseteq nm2[st.msg] /\ sv[st.msg] \subseteq sv2[st.msg]
  BY <1>1
<1>3. Addressed(st, nm2, sv2)
  BY <1>2 DEF Safe, Addressed
<1> QED
  BY <1>3 DEF Safe

(* A session that moves to a safe state leaves the others safe. *)
LEMMA OneMoves ==
  ASSUME NEW S, NEW V, NEW nm, NEW sv, NEW bl, Core(S, V, nm, sv, bl),
         NEW s \in Sessions, NEW st \in SessionType, NEW v \in ViewType,
         Safe(st, v, nm, sv)
  PROVE  Core([S EXCEPT ![s] = st], [V EXCEPT ![s] = v], nm, sv, bl)
<1> DEFINE S2 == [S EXCEPT ![s] = st]
           V2 == [V EXCEPT ![s] = v]
<1>1. S2 \in [Sessions -> SessionType] /\ V2 \in [Sessions -> ViewType]
  BY DEF Core
<1>2. ASSUME NEW t \in Sessions
      PROVE  Safe(S2[t], V2[t], nm, sv)
  <2>1. CASE t = s
    BY <2>1 DEF Core
  <2>2. CASE t # s
    BY <2>2 DEF Core
  <2> QED
    BY <2>1, <2>2
<1> QED
  BY <1>1, <1>2 DEF Core

(* The same when the client's view does not change. *)
LEMMA OneMovesUnseen ==
  ASSUME NEW S, NEW V, NEW nm, NEW sv, NEW bl, Core(S, V, nm, sv, bl),
         NEW s \in Sessions, NEW st \in SessionType, Safe(st, V[s], nm, sv)
  PROVE  Core([S EXCEPT ![s] = st], V, nm, sv, bl)
<1>1. V[s] \in ViewType /\ [V EXCEPT ![s] = V[s]] = V
  BY DEF Core
<1> QED
  BY <1>1, OneMoves

(* Names and deliveries may grow for a message, as long as what is         *)
(* delivered is named.                                                     *)
LEMMA LogsGrow ==
  ASSUME NEW S, NEW V, NEW nm, NEW sv, NEW bl, Core(S, V, nm, sv, bl),
         NEW m \in Messages, NEW A \in SUBSET Recipients, NEW B \in SUBSET Recipients,
         B \subseteq nm[m] \cup A
  PROVE  Core(S, V, [nm EXCEPT ![m] = @ \cup A], [sv EXCEPT ![m] = @ \cup B], bl)
<1> DEFINE nm2 == [nm EXCEPT ![m] = @ \cup A]
           sv2 == [sv EXCEPT ![m] = @ \cup B]
<1>1. nm2 \in [Messages -> SUBSET Recipients] /\ sv2 \in [Messages -> SUBSET Recipients]
  BY DEF Core
<1>2. \A k \in Messages : nm[k] \subseteq nm2[k] /\ sv[k] \subseteq sv2[k]
  BY DEF Core
<1>3. \A k \in Messages : sv2[k] \subseteq nm2[k]
  BY DEF Core
<1>4. Mode = "mx" => \A k \in Messages : bl[k] \subseteq sv2[k]
  BY <1>2 DEF Core
<1> HIDE DEF nm2, sv2
<1>5. \A t \in Sessions : Safe(S[t], V[t], nm2, sv2)
  BY <1>2, SafeGrows DEF Core
<1>6. Core(S, V, nm2, sv2, bl)
  BY <1>1, <1>3, <1>4, <1>5 DEF Core
<1> QED
  BY <1>6 DEF nm2, sv2

(* A session struct fresh from Serve, or closed, is safe with no client. *)
LEMMA FreshSafe ==
  ASSUME NEW pc \in {"closed", "command", "cut"}, NEW nm, NEW sv
  PROVE  /\ NoSession(pc) \in SessionType /\ NoClient \in ViewType
         /\ Safe(NoSession(pc), NoClient, nm, sv)
<1>1. NoMessage \in Messages
  BY MessagesAssumption DEF NoMessage
<1>2. NoSession(pc) \in SessionType
  BY <1>1, ListFacts, LimitsAssumption DEF NoSession, SessionType
<1>3. NoClient \in ViewType
  BY DEF NoClient, ViewType
<1>4. Safe(NoSession(pc), NoClient, nm, sv)
  BY EmptyElems DEF NoSession, NoClient, Safe, Agrees, Addressed, Principal
<1> QED
  BY <1>2, <1>3, <1>4

-----------------------------------------------------------------------------
(* Preservation, one lemma per action *)

(* The reply to DATA leaves a session without transaction. *)
LEMMA ReplySafe ==
  ASSUME NEW st \in SessionType, NEW v, NEW nm, NEW sv, Safe(st, v, nm, sv)
  PROVE  AfterReply(st) \in SessionType /\ Safe(AfterReply(st), NoClient, nm, sv)
<1>1. CASE st.lost
  BY <1>1, FreshSafe DEF AfterReply
<1>2. CASE ~st.lost
  <2> DEFINE a == [st EXCEPT !.pc = "command", !.next = 1, !.msg = NoMessage,
                             !.from = FALSE, !.rcpt = <<>>]
  <2>1. AfterReply(st) = a
    BY <1>2 DEF AfterReply, Reset, SessionType
  <2>2. a \in SessionType
    <3>1. NoMessage \in Messages
      BY MessagesAssumption DEF NoMessage
    <3>2. 1 \in 1 .. MaxRecipients + 1
      BY LimitsAssumption
    <3>3. <<>> \in RcptLists
      BY ListFacts
    <3> QED
      BY <3>1, <3>2, <3>3 DEF SessionType
  <2>3. Safe(a, NoClient, nm, sv)
    BY EmptyElems DEF Safe, Agrees, Addressed, Principal, NoClient, SessionType
  <2> QED
    BY <2>1, <2>2, <2>3
<1> QED
  BY <1>1, <1>2

(* Serve hands over a fresh session. *)
LEMMA ConnectPreserves ==
  ASSUME IInv, NEW s \in Sessions, Connect(s)
  PROVE  IInv'
<1> DEFINE st == NoSession("command")
<1>1. /\ view[s] \in ViewType /\ Safe(sess[s], view[s], named, served)
      /\ sess[s].pc = "closed"
  BY DEF IInv, Core, Connect
<1>2. view[s] = NoClient
  BY <1>1 DEF Safe, Agrees, ViewType, NoClient
<1>3. st \in SessionType /\ Safe(st, view[s], named, served)
  BY <1>2, FreshSafe
<1>4. Core([sess EXCEPT ![s] = st], view, named, served, believed)
  BY <1>3, OneMovesUnseen DEF IInv
<1> QED
  BY <1>4 DEF IInv, Rest, Connect, Set, mailboxes

(* EHLO and HELO end the client's transaction, not the server's. *)
LEMMA HelloPreserves ==
  ASSUME IInv, NEW s \in Sessions, Hello(s)
  PROVE  IInv'
<1> DEFINE st == [sess[s] EXCEPT !.greeted = TRUE]
           v  == NoClient
<1>1. /\ sess[s] \in SessionType /\ view[s] \in ViewType
      /\ Safe(sess[s], view[s], named, served)
      /\ sess[s].pc = "command"
  BY DEF IInv, Core, Hello, Commanded
<1>2. st \in SessionType
  BY <1>1 DEF SessionType
<1>3. v \in ViewType
  BY <1>1, FreshSafe DEF ViewType
<1>4. Safe(st, v, named, served)
  BY <1>1 DEF Safe, Agrees, Addressed, Principal, NoClient, SessionType
<1>5. Core([sess EXCEPT ![s] = st], [view EXCEPT ![s] = v], named, served, believed)
  BY <1>2, <1>3, <1>4, OneMoves DEF IInv
<1> QED
  BY <1>5 DEF IInv, Rest, Hello, Set, Forget, mailboxes

(* STARTTLS, and a handshake that fails. *)
LEMMA StartTLSPreserves ==
  ASSUME IInv, NEW s \in Sessions, StartTLS(s)
  PROVE  IInv'
<1> DEFINE st == [sess[s] EXCEPT !.tls = TRUE, !.greeted = FALSE]
<1>1. /\ sess[s] \in SessionType /\ Safe(sess[s], view[s], named, served)
      /\ sess[s].pc = "command"
  BY DEF IInv, Core, StartTLS, Commanded
<1>2. st \in SessionType
  BY <1>1 DEF SessionType
<1>3. Safe(st, NoClient, named, served)
  BY <1>1 DEF Safe, Agrees, Addressed, Principal, NoClient, SessionType
<1>4. Core([sess EXCEPT ![s] = st], [view EXCEPT ![s] = NoClient], named, served, believed)
  BY <1>2, <1>3, FreshSafe, OneMoves DEF IInv
<1>5. Core([sess EXCEPT ![s] = NoSession("closed")], [view EXCEPT ![s] = NoClient],
           named, served, believed)
  BY FreshSafe, OneMoves DEF IInv
<1> QED
  BY <1>4, <1>5 DEF IInv, Rest, StartTLS, Set, Forget, mailboxes

(* AUTH needs TLS or AllowPlainAuth. *)
LEMMA AuthPreserves ==
  ASSUME IInv, NEW s \in Sessions, Auth(s)
  PROVE  IInv'
<1> DEFINE st == [sess[s] EXCEPT !.authed = TRUE]
<1>1. /\ sess[s] \in SessionType /\ view[s] \in ViewType
      /\ Safe(sess[s], view[s], named, served)
      /\ sess[s].pc = "command" /\ (sess[s].tls \/ AllowPlainAuth)
  BY DEF IInv, Core, Auth, Commanded
<1>2. st \in SessionType
  BY <1>1 DEF SessionType
<1>3. Safe(st, view[s], named, served)
  BY <1>1 DEF Safe, Agrees, Addressed, Principal, NoClient, SessionType
<1>4. Core([sess EXCEPT ![s] = st], view, named, served, believed)
  BY <1>2, <1>3, OneMovesUnseen DEF IInv
<1> QED
  BY <1>4 DEF IInv, Rest, Auth, Set, mailboxes

(* MAIL starts both transactions without recipients. *)
LEMMA MailPreserves ==
  ASSUME IInv, NEW s \in Sessions, NEW null \in BOOLEAN, Mail(s, null)
  PROVE  IInv'
<1> DEFINE st == [sess[s] EXCEPT !.from = ~null, !.rcpt = <<>>]
           v  == [mail |-> TRUE, rcpts |-> {}]
<1>1. /\ sess[s] \in SessionType /\ view[s] \in ViewType
      /\ Safe(sess[s], view[s], named, served)
      /\ sess[s].pc = "command" /\ (Mode = "submission" => sess[s].authed)
  BY DEF IInv, Core, Mail, MailAllowed, Commanded
<1>2. st \in SessionType
  BY <1>1, ListFacts DEF SessionType
<1>3. v \in ViewType
  BY <1>1, FreshSafe DEF ViewType
<1>4. Safe(st, v, named, served)
  BY <1>1, EmptyElems DEF Safe, Agrees, Addressed, Principal, NoClient, SessionType
<1>5. Core([sess EXCEPT ![s] = st], [view EXCEPT ![s] = v], named, served, believed)
  BY <1>2, <1>3, <1>4, OneMoves DEF IInv
<1> QED
  BY <1>5 DEF IInv, Rest, Mail, Set, Forget, mailboxes

(* RCPT adds the same recipient on both sides. *)
LEMMA RcptPreserves ==
  ASSUME IInv, NEW s \in Sessions, NEW r \in Recipients, Rcpt(s, r)
  PROVE  IInv'
<1> DEFINE q  == Append(sess[s].rcpt, r)
           st == [sess[s] EXCEPT !.rcpt = q]
           v  == [view[s] EXCEPT !.rcpts = @ \cup {r}]
<1>1. /\ sess[s] \in SessionType /\ view[s] \in ViewType
      /\ Safe(sess[s], view[s], named, served)
      /\ sess[s].pc = "command" /\ view[s].mail
      /\ sess[s].rcpt \in RcptLists /\ Len(sess[s].rcpt) < MaxRecipients
  BY DEF IInv, Core, Rcpt, Commanded, HasRoom, SessionType
<1>2. q \in RcptLists /\ Elems(q) = Elems(sess[s].rcpt) \cup {r}
  BY <1>1, AppendFacts
<1> HIDE DEF q
<1>3. st \in SessionType
  BY <1>1, <1>2 DEF SessionType
<1>4. v \in ViewType
  BY <1>1 DEF ViewType
<1>5. Safe(st, v, named, served)
  BY <1>1, <1>2 DEF Safe, Agrees, Addressed, Principal, SessionType, ViewType
<1>6. Core([sess EXCEPT ![s] = st], [view EXCEPT ![s] = v], named, served, believed)
  BY <1>3, <1>4, <1>5, OneMoves DEF IInv
<1> QED
  BY <1>6 DEF IInv, Rest, Rcpt, Set, mailboxes, q

(* DATA names the client's recipients for the message. *)
LEMMA DataPreserves ==
  ASSUME IInv, NEW s \in Sessions, NEW m \in Messages, Data(s, m)
  PROVE  IInv'
<1> DEFINE st == [sess[s] EXCEPT !.pc = "data", !.msg = m]
           A  == view[s].rcpts
           nm == [named EXCEPT ![m] = @ \cup A]
<1>1. /\ sess[s] \in SessionType /\ view[s] \in ViewType
      /\ Safe(sess[s], view[s], named, served)
      /\ sess[s].pc = "command" /\ view[s].mail
      /\ named \in [Messages -> SUBSET Recipients]
      /\ served \in [Messages -> SUBSET Recipients]
  BY DEF IInv, Core, Data, Commanded
<1>2. A \in SUBSET Recipients /\ [served EXCEPT ![m] = @ \cup {}] = served
  BY <1>1 DEF ViewType
<1>3. Core(sess, view, nm, [served EXCEPT ![m] = @ \cup {}], believed)
  BY <1>2, LogsGrow DEF IInv
<1>4. Core(sess, view, nm, served, believed)
  BY <1>2, <1>3
<1>5. st \in SessionType
  BY <1>1 DEF SessionType
<1>6. Elems(st.rcpt) \subseteq nm[m] /\ st.msg = m
  BY <1>1 DEF Safe, Agrees, SessionType
<1> HIDE DEF nm
<1>7. Safe(st, view[s], nm, served)
  BY <1>1, <1>6 DEF Safe, Agrees, Addressed, Principal, SessionType
<1>8. Core([sess EXCEPT ![s] = st], view, nm, served, believed)
  BY <1>4, <1>5, <1>7, OneMovesUnseen
<1> QED
  BY <1>8 DEF IInv, Rest, Data, Set, nm

(* RSET ends both transactions. *)
LEMMA RsetPreserves ==
  ASSUME IInv, NEW s \in Sessions, Rset(s)
  PROVE  IInv'
<1> DEFINE st == [sess[s] EXCEPT !.from = FALSE, !.rcpt = <<>>]
           v  == NoClient
<1>1. /\ sess[s] \in SessionType /\ view[s] \in ViewType
      /\ Safe(sess[s], view[s], named, served)
      /\ sess[s].pc = "command"
  BY DEF IInv, Core, Rset, Commanded
<1>2. st \in SessionType
  BY <1>1, ListFacts DEF SessionType
<1>3. v \in ViewType
  BY <1>1, FreshSafe DEF ViewType
<1>4. Safe(st, v, named, served)
  BY <1>1, EmptyElems DEF Safe, Agrees, Addressed, Principal, NoClient, SessionType
<1>5. Core([sess EXCEPT ![s] = st], [view EXCEPT ![s] = v], named, served, believed)
  BY <1>2, <1>3, <1>4, OneMoves DEF IInv
<1> QED
  BY <1>5 DEF IInv, Rest, Rset, Set, Forget, mailboxes, Reset

(* A client that hangs up: the session closes, or goes on unheard. *)
LEMMA HangUpPreserves ==
  ASSUME IInv, NEW s \in Sessions, HangUp(s)
  PROVE  IInv'
<1> DEFINE st == [sess[s] EXCEPT !.lost = TRUE]
<1>1. sess[s] \in SessionType /\ Safe(sess[s], view[s], named, served)
  BY DEF IInv, Core
<1>2. st \in SessionType
  BY <1>1 DEF SessionType
<1>3. Safe(st, NoClient, named, served)
  <2>1. /\ st.pc = sess[s].pc /\ st.rcpt = sess[s].rcpt /\ st.msg = sess[s].msg
        /\ st.next = sess[s].next /\ st.authed = sess[s].authed /\ st.tls = sess[s].tls
    BY <1>1 DEF SessionType
  <2> HIDE DEF st
  <2> QED
    BY <1>1, <2>1 DEF Safe, Agrees, Addressed, Principal, NoClient
<1>4. Core([sess EXCEPT ![s] = st], [view EXCEPT ![s] = NoClient], named, served, believed)
  BY <1>2, <1>3, FreshSafe, OneMoves DEF IInv
<1>5. Core([sess EXCEPT ![s] = NoSession("closed")], [view EXCEPT ![s] = NoClient],
           named, served, believed)
  BY FreshSafe, OneMoves DEF IInv
<1>6. CASE sess[s].pc = "ingest"
  BY <1>4, <1>6 DEF IInv, Rest, HangUp, Set, Forget, mailboxes
<1>7. CASE sess[s].pc # "ingest"
  BY <1>5, <1>7 DEF IInv, Rest, HangUp, Set, Forget, mailboxes
<1> QED
  BY <1>6, <1>7

(* A message that could not be read ends only the client's transaction. *)
LEMMA TooLargePreserves ==
  ASSUME IInv, NEW s \in Sessions, TooLarge(s)
  PROVE  IInv'
<1> DEFINE st == [sess[s] EXCEPT !.pc = "command", !.msg = NoMessage]
<1>1. /\ sess[s] \in SessionType /\ Safe(sess[s], view[s], named, served)
      /\ sess[s].pc = "data"
  BY DEF IInv, Core, TooLarge
<1>2. NoMessage \in Messages
  BY MessagesAssumption DEF NoMessage
<1>3. st \in SessionType
  BY <1>1, <1>2 DEF SessionType
<1>4. Safe(st, NoClient, named, served)
  BY <1>1 DEF Safe, Agrees, Addressed, Principal, NoClient, SessionType
<1>5. Core([sess EXCEPT ![s] = st], [view EXCEPT ![s] = NoClient], named, served, believed)
  BY <1>3, <1>4, FreshSafe, OneMoves DEF IInv
<1> QED
  BY <1>5 DEF IInv, Rest, TooLarge, Set, Forget, mailboxes

(* Every reply to DATA. *)
LEMMA RepliedCore ==
  ASSUME NEW S, NEW V, NEW nm, NEW sv, NEW bl, Core(S, V, nm, sv, bl), NEW s \in Sessions
  PROVE  Core([S EXCEPT ![s] = AfterReply(S[s])], [V EXCEPT ![s] = NoClient], nm, sv, bl)
<1>1. S[s] \in SessionType /\ Safe(S[s], V[s], nm, sv)
  BY DEF Core
<1>2. AfterReply(S[s]) \in SessionType /\ Safe(AfterReply(S[s]), NoClient, nm, sv)
  BY <1>1, ReplySafe
<1> QED
  BY <1>2, FreshSafe, OneMoves

(* The rate limit and the checks before mailpipe. *)
LEMMA HandlePreserves ==
  ASSUME IInv, NEW s \in Sessions, Handle(s)
  PROVE  IInv'
<1> DEFINE st == [sess[s] EXCEPT !.pc = "ingest"]
<1>1. /\ sess[s] \in SessionType /\ Safe(sess[s], view[s], named, served)
      /\ sess[s].pc = "data"
  BY DEF IInv, Core, Handle
<1>2. st \in SessionType
  BY <1>1 DEF SessionType
<1>3. Safe(st, view[s], named, served)
  BY <1>1 DEF Safe, Agrees, Addressed, Principal, SessionType
<1>4. Core([sess EXCEPT ![s] = st], view, named, served, believed)
  BY <1>2, <1>3, OneMovesUnseen DEF IInv
<1>5. Core([sess EXCEPT ![s] = AfterReply(sess[s])], [view EXCEPT ![s] = NoClient],
           named, served, believed)
  BY RepliedCore DEF IInv
<1>6. Core(sess', view', named', served', believed')
  BY <1>4, <1>5 DEF Handle, Set, Replied, Forget
<1>7. hits' \in 0 .. RateMax + 1
  BY LimitsAssumption DEF IInv, Rest, Handle, Hit
<1> QED
  BY <1>6, <1>7 DEF IInv, Rest, Handle

(* One recipient of the loop is served. *)
LEMMA IngestExternalPreserves ==
  ASSUME IInv, NEW s \in Sessions, IngestExternal(s)
  PROVE  IInv'
<1> DEFINE q  == sess[s].rcpt
           n  == sess[s].next
           m  == sess[s].msg
           st == [sess[s] EXCEPT !.next = n + 1]
           sv == [served EXCEPT ![m] = @ \cup {q[n]}]
<1>1. /\ sess[s] \in SessionType /\ Safe(sess[s], view[s], named, served)
      /\ sess[s].pc = "ingest" /\ n <= Len(q)
      /\ named \in [Messages -> SUBSET Recipients]
      /\ served \in [Messages -> SUBSET Recipients]
  BY DEF IInv, Core, IngestExternal, More
<1>2. m \in Messages /\ q \in RcptLists /\ n \in 1 .. MaxRecipients + 1
  BY <1>1 DEF SessionType
<1>3. Len(q) \in 0 .. MaxRecipients /\ Elems(q) \subseteq Recipients
  BY <1>2, ListFacts
<1>4. q[n] \in Elems(q) /\ n + 1 \in 1 .. MaxRecipients + 1
  BY <1>1, <1>2, <1>3, LimitsAssumption DEF Elems
<1>5. q[n] \in named[m] /\ q[n] \in Recipients
  BY <1>1, <1>3, <1>4 DEF Safe, Addressed
<1>6. [named EXCEPT ![m] = @ \cup {}] = named
  BY <1>1, <1>2
<1>7. Core(sess, view, [named EXCEPT ![m] = @ \cup {}], sv, believed)
  <2>1. {} \in SUBSET Recipients /\ {q[n]} \in SUBSET Recipients /\ {q[n]} \subseteq named[m] \cup {}
    BY <1>5
  <2> QED
    BY <2>1, <1>2, LogsGrow DEF IInv
<1>8. Core(sess, view, named, sv, believed)
  BY <1>6, <1>7
<1>9. st \in SessionType
  BY <1>1, <1>4 DEF SessionType
<1>10. Safe(st, view[s], named, sv)
  <2>1. /\ st.pc = sess[s].pc /\ st.rcpt = q /\ st.msg = m /\ st.next = n + 1
        /\ st.authed = sess[s].authed /\ st.tls = sess[s].tls
    BY <1>1 DEF SessionType
  <2>2. q[n] \in sv[m] /\ served[m] \subseteq sv[m]
    BY <1>1, <1>2
  <2>3. Mode = "mx" => \A i \in 1 .. Len(q) : i < n + 1 => q[i] \in sv[m]
    <3>1. \A i \in 1 .. Len(q) : i < n + 1 => (i < n \/ i = n)
      BY <1>2, <1>3
    <3>2. Mode = "mx" => \A i \in 1 .. Len(q) : i < n => q[i] \in served[m]
      BY <1>1 DEF Safe, Addressed
    <3> HIDE DEF q, n, m, sv
    <3> QED
      BY <2>2, <3>1, <3>2
  <2> HIDE DEF st, sv
  <2>4. Addressed(st, named, sv)
    BY <1>1, <2>1, <2>3 DEF Safe, Addressed
  <2>5. Agrees(st, view[s]) /\ Principal(st, view[s])
    BY <1>1, <2>1 DEF Safe, Agrees, Principal
  <2> QED
    BY <2>4, <2>5 DEF Safe
<1>11. Core([sess EXCEPT ![s] = st], view, named, sv, believed)
  BY <1>8, <1>9, <1>10, OneMovesUnseen
<1> QED
  BY <1>11 DEF IInv, Rest, IngestExternal, Set

(* 451. *)
LEMMA IngestFailsPreserves ==
  ASSUME IInv, NEW s \in Sessions, IngestFails(s)
  PROVE  IInv'
<1>1. Core([sess EXCEPT ![s] = AfterReply(sess[s])], [view EXCEPT ![s] = NoClient],
           named, served, believed)
  BY RepliedCore DEF IInv
<1>2. faults' \in 0 .. MaxFaults
  BY LimitsAssumption DEF IInv, Rest, IngestFails
<1> QED
  BY <1>1, <1>2 DEF IInv, Rest, IngestFails, Replied, Set, Forget, mailboxes

(* 250: every recipient the client counts on is behind next. *)
LEMMA AcceptPreserves ==
  ASSUME IInv, NEW s \in Sessions, Accept(s)
  PROVE  IInv'
<1> DEFINE m  == sess[s].msg
           A  == view[s].rcpts
           bl == [believed EXCEPT ![m] = @ \cup A]
<1>1. /\ sess[s] \in SessionType /\ view[s] \in ViewType
      /\ Safe(sess[s], view[s], named, served)
      /\ sess[s].pc = "ingest" /\ (Mode = "mx" => ~(sess[s].next <= Len(sess[s].rcpt)))
      /\ believed \in [Messages -> SUBSET Recipients]
  BY DEF IInv, Core, Accept, More
<1>2. m \in Messages /\ A \subseteq Recipients
  BY <1>1 DEF SessionType, ViewType
<1>3. Mode = "mx" => A \subseteq served[m]
  <2>1. sess[s].next \in Int /\ Len(sess[s].rcpt) \in Int
    BY <1>1, ListFacts, LimitsAssumption DEF SessionType
  <2>2. Mode = "mx" => \A i \in 1 .. Len(sess[s].rcpt) : i < sess[s].next
    BY <1>1, <2>1
  <2>3. Mode = "mx" => Elems(sess[s].rcpt) \subseteq served[m]
    BY <1>1, <2>2 DEF Safe, Addressed, Elems
  <2> QED
    BY <1>1, <2>3 DEF Safe, Agrees, ViewType
<1>4. bl \in [Messages -> SUBSET Recipients]
  BY <1>1, <1>2
<1>5. Mode = "mx" => \A k \in Messages : bl[k] \subseteq served[k]
  BY <1>1, <1>2, <1>3 DEF IInv, Core
<1> HIDE DEF bl
<1>6. Core(sess, view, named, served, bl)
  BY <1>4, <1>5 DEF IInv, Core
<1>7. Core([sess EXCEPT ![s] = AfterReply(sess[s])], [view EXCEPT ![s] = NoClient],
           named, served, bl)
  BY <1>6, RepliedCore
<1>8. Core([sess EXCEPT ![s] = AfterReply(sess[s])], [view EXCEPT ![s] = NoClient],
           named, served, believed)
  BY RepliedCore DEF IInv
<1> QED
  BY <1>7, <1>8 DEF IInv, Rest, Accept, Replied, Set, Forget, bl

(* The process exits: no session goes on. *)
LEMMA ExitPreserves ==
  ASSUME IInv, Exit
  PROVE  IInv'
<1>1. ASSUME NEW t \in Sessions
      PROVE  /\ sess'[t] \in SessionType /\ view'[t] = NoClient
             /\ Safe(sess'[t], NoClient, named, served)
  <2>1. /\ view'[t] = NoClient
        /\ sess'[t] = IF sess[t].pc = "closed" THEN sess[t] ELSE NoSession("cut")
    BY DEF Exit
  <2>2. CASE sess[t].pc = "closed"
    <3>1. sess[t] \in SessionType /\ Safe(sess[t], view[t], named, served)
      BY DEF IInv, Core
    <3>2. Safe(sess[t], NoClient, named, served)
      BY <2>2, <3>1 DEF Safe, Agrees, Addressed, Principal, NoClient
    <3> QED
      BY <2>1, <2>2, <3>1, <3>2
  <2>3. CASE sess[t].pc # "closed"
    BY <2>1, <2>3, FreshSafe
  <2> QED
    BY <2>2, <2>3
<1>2. NoClient \in ViewType
  BY FreshSafe
<1>3. sess' \in [Sessions -> SessionType] /\ view' \in [Sessions -> ViewType]
  BY <1>1, <1>2 DEF Exit
<1>4. UNCHANGED <<named, served, believed>>
  BY DEF Exit, mailboxes
<1>5. Core(sess', view', named', served', believed')
  BY <1>1, <1>3, <1>4 DEF IInv, Core
<1> QED
  BY <1>5 DEF IInv, Rest, Exit, mailboxes

(* What happens around the sessions touches none of them. *)
LEMMA AroundPreserves ==
  ASSUME IInv, (\E r \in Recipients : IdentityDeleted(r)) \/ WindowPasses \/ Shutdown
  PROVE  IInv'
<1>1. UNCHANGED <<sess, view, named, served, believed>>
  BY DEF IdentityDeleted, WindowPasses, Shutdown, mailboxes
<1>2. Rest'
  <2>1. CASE \E r \in Recipients : IdentityDeleted(r)
    BY <2>1 DEF IInv, Rest, IdentityDeleted
  <2>2. CASE WindowPasses
    <3>1. 0 \in 0 .. RateMax + 1
      BY LimitsAssumption
    <3> QED
      BY <2>2, <3>1 DEF IInv, Rest, WindowPasses
  <2>3. CASE Shutdown
    BY <2>3, Zenon DEF IInv, Rest, Shutdown, mailboxes
  <2> QED
    BY <2>1, <2>2, <2>3
<1> QED
  BY <1>1, <1>2 DEF IInv

-----------------------------------------------------------------------------
(* Theorems *)

(* The inductive invariant holds in every reachable state of the server.   *)
THEOREM Invariance == Spec => []IInv
<1>1. Init => IInv
  <2> SUFFICES ASSUME Init PROVE IInv
    OBVIOUS
  <2>1. \A s \in Sessions : /\ sess[s] \in SessionType /\ view[s] \in ViewType
                            /\ Safe(sess[s], view[s], named, served)
    BY FreshSafe DEF Init
  <2>2. sess \in [Sessions -> SessionType] /\ view \in [Sessions -> ViewType]
    BY FreshSafe DEF Init
  <2>3. Core(sess, view, named, served, believed)
    BY <2>1, <2>2 DEF Core, Init
  <2>4. 0 \in 0 .. RateMax + 1 /\ 0 \in 0 .. MaxFaults
    BY LimitsAssumption
  <2>5. Rest
    BY <2>4, LocalAssumption, Zenon DEF Rest, Init
  <2> QED
    BY <2>3, <2>5 DEF IInv
<1>2. IInv /\ [Next]_vars => IInv'
  <2> SUFFICES ASSUME IInv, [Next]_vars PROVE IInv'
    OBVIOUS
  <2>1. ASSUME NEW s \in Sessions, Step(s) PROVE IInv'
    BY <2>1, ConnectPreserves, HelloPreserves, StartTLSPreserves, AuthPreserves,
       MailPreserves, RcptPreserves, DataPreserves, RsetPreserves, HangUpPreserves,
       TooLargePreserves, HandlePreserves, IngestExternalPreserves,
       IngestFailsPreserves, AcceptPreserves DEF Step
  <2>2. CASE UNCHANGED vars
    BY <2>2 DEF vars, IInv, Rest
  <2> QED
    BY <2>1, <2>2, AroundPreserves, ExitPreserves DEF Next
<1> QED
  BY <1>1, <1>2, PTL DEF Spec

(* Sessions keep their types: no list is longer than MaxRecipients.        *)
THEOREM SessionTypeCorrect == Spec => []TypeOK
<1>1. IInv => TypeOK
  BY DEF IInv, Core, Rest, TypeOK, ViewType
<1> QED
  BY <1>1, Invariance, PTL

(* Recipients of a transaction that was reset, refused or broken off do    *)
(* not receive a later message.                                            *)
THEOREM OnlyNamedAreServed == Spec => []NamedOnly
<1>1. IInv => NamedOnly
  BY DEF IInv, Core, NamedOnly
<1> QED
  BY <1>1, Invariance, PTL

(* "Message accepted" from the MX means that HandleInbound served every    *)
(* recipient it had said "Recipient OK" for.                               *)
THEOREM AcceptedAreServed == ASSUME Mode = "mx" PROVE Spec => []AcceptedForAll
<1>1. IInv => AcceptedForAll
  BY DEF IInv, Core, AcceptedForAll
<1> QED
  BY <1>1, Invariance, PTL

(* On the submission port only authenticated sessions reach mailpipe, and  *)
(* AUTH needs TLS unless plain AUTH is configured.                         *)
THEOREM SubmissionNeedsPrincipal == Spec => []SubmittedByPrincipal
<1>1. IInv => SubmittedByPrincipal
  BY DEF IInv, Core, Safe, Principal, SubmittedByPrincipal
<1> QED
  BY <1>1, Invariance, PTL
=============================================================================
