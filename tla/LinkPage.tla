-------------------------------- MODULE LinkPage --------------------------------
(* The page a recipient opens a protected link with                            *)
(* (static/protected/open.js), in several browsers at once: it reads the       *)
(* link's state, asks for the password, takes one view from the server and     *)
(* only then finds out whether the password is right.                          *)
EXTENDS Mime, FiniteSets

CONSTANTS
  Letters,       \* the messages a link may hold, as MIME entities
  Visitors,      \* browsers the link is open in
  MaxLinkViews,  \* the view limits a link may have; 0 is no limit
  MaxTries,      \* bound on passwords entered, over all visitors
  MaxLost,       \* bound on requests or answers lost
  None

VARIABLES
  section,  \* "link"
  server,   \* the row of the link
  view,     \* what each visitor's page shows
  calls,    \* requests that have not finished
  spent     \* what has been used of the bounds, and the messages read

vars == <<section, server, view, calls, spent>>

Limited == server.max > 0

(* protectedLinkMeta's "expired" is also what ConsumeView refuses on. *)
Expired == server.past \/ (Limited /\ server.views >= server.max)

Remaining(views) == IF Limited THEN server.max - views ELSE 0

Move(c, d) == calls' = (calls \ {c}) \cup {d}

Meta == [left |-> IF Limited THEN Remaining(server.views) ELSE None, expired |-> Expired]

LoadMeta(c) ==
  /\ c.h = "meta" /\ c.pc = "sent"
  /\ Move(c, [c EXCEPT !.pc = "answered", !.got = Meta])
  /\ UNCHANGED <<section, server, view, spent>>

(* renderMeta; a failed read shows the burned panel with the error. *)
RenderMeta(c) ==
  /\ c.h = "meta" /\ c.pc \in {"answered", "failed"}
  /\ view' = [view EXCEPT ![c.v] =
       IF c.pc = "answered" /\ ~c.got.expired
       THEN [@ EXCEPT !.phase = "locked", !.left = c.got.left]
       ELSE [@ EXCEPT !.phase = "burned"]]
  /\ calls' = calls \ {c}
  /\ UNCHANGED <<section, server, spent>>

Submit(v, right) ==
  /\ view[v].phase = "locked" /\ ~view[v].busy /\ spent.tries < MaxTries
  /\ view' = [view EXCEPT ![v].busy = TRUE]
  /\ calls' = calls \cup {[v |-> v, h |-> "open", right |-> right, pc |-> "sent", got |-> None]}
  /\ spent' = [spent EXCEPT !.tries = @ + 1]
  /\ UNCHANGED <<section, server>>

(* Fault: the limit is not looked at.                                          *)
ConsumeViewUnchecked(c) ==
  /\ c.h = "open" /\ c.pc = "sent"
  /\ server' = [server EXCEPT !.views = IF Limited THEN @ + 1 ELSE @]
  /\ Move(c, [c EXCEPT !.pc = "answered",
       !.got = [left |-> Remaining(server.views + 1),
                expired |-> Limited /\ server.views + 1 >= server.max]])
  /\ UNCHANGED <<section, view, spent>>

(* One statement takes the view and decides whether it was the last.  The      *)
(* count of an unlimited link decides nothing and is not kept.                 *)
ConsumeView(c) ==
  /\ c.h = "open" /\ c.pc = "sent"
  /\ IF Expired
     THEN /\ Move(c, [c EXCEPT !.pc = "failed"])
          /\ UNCHANGED server
     ELSE /\ server' = [server EXCEPT !.views = IF Limited THEN @ + 1 ELSE @]
          /\ Move(c, [c EXCEPT !.pc = "answered",
               !.got = [left |-> Remaining(server.views + 1),
                        expired |-> Limited /\ server.views + 1 >= server.max]])
  /\ UNCHANGED <<section, view, spent>>

(* The page's own copy of the reader's parser, and what it puts on screen: the *)
(* HTML in a frame when there is any, the text otherwise, and the attachments. *)
parseMimeEnvelope == [e \in Letters |-> extractDisplayEnvelope(e)]

renderDecryptedBody(env) ==
  IF env.html # 0 THEN [frame |-> env.html, text |-> 0] ELSE [frame |-> 0, text |-> env.text]

renderAttachments(list) == [hidden |-> list = <<>>, rows |-> list]

Opened(w, got) ==
  LET env == parseMimeEnvelope[server.letter]
  IN [w EXCEPT !.phase = "decrypted", !.left = got.left, !.last = got.expired,
               !.shown = renderDecryptedBody(env), !.files = renderAttachments(env.atts)]

(* The key is derived and the message opened, or the password was wrong.       *)
unlockAndDecrypt(c) ==
  /\ c.h = "open" /\ c.pc \in {"answered", "failed"}
  /\ view' = [view EXCEPT ![c.v] =
       LET w == [@ EXCEPT !.busy = FALSE]
       IN IF c.pc = "answered" /\ c.right THEN Opened(w, c.got) ELSE w]
  /\ calls' = calls \ {c}
  /\ UNCHANGED <<section, server, spent>>

(* A request is lost before or after the server acted on it; or the blob of    *)
(* the message could not be read after the view was taken.                     *)
RequestLost(c) ==
  /\ c.pc \in {"sent", "answered"} /\ spent.lost < MaxLost
  /\ Move(c, [c EXCEPT !.pc = "failed", !.got = None])
  /\ spent' = [spent EXCEPT !.lost = @ + 1]
  /\ UNCHANGED <<section, server, view>>

(* expires_at passes. *)
Expire ==
  /\ section = "link" /\ ~server.past
  /\ server' = [server EXCEPT !.past = TRUE]
  /\ UNCHANGED <<section, view, calls, spent>>

Init ==
  /\ section = "link"
  /\ \E n \in MaxLinkViews, e \in Letters :
       server = [max |-> n, views |-> 0, past |-> FALSE, letter |-> e]
  /\ view = [v \in Visitors |->
               [phase |-> "loading", busy |-> FALSE, left |-> None, last |-> FALSE,
                shown |-> None, files |-> None]]
  /\ calls = {[v |-> v, h |-> "meta", right |-> FALSE, pc |-> "sent", got |-> None] : v \in Visitors}
  /\ spent = [tries |-> 0, lost |-> 0]

Steps(c) == LoadMeta(c) \/ RenderMeta(c) \/ ConsumeView(c) \/ unlockAndDecrypt(c)

Next ==
  \/ \E v \in Visitors, right \in BOOLEAN : Submit(v, right)
  \/ \E c \in calls : Steps(c) \/ RequestLost(c)
  \/ Expire

(* Every request is answered or fails and its continuation runs. *)
Spec == Init /\ [][Next]_vars /\ WF_vars(\E c \in calls : Steps(c))

-------------------------------------------------------------------------------
Readers == {v \in Visitors : view[v].phase = "decrypted"}

Consumed == {c \in calls : c.h = "open" /\ c.pc = "answered"}

(* Every variable keeps its shape. *)
TypeOK ==
  /\ server \in [max : MaxLinkViews, views : Nat, past : BOOLEAN, letter : Letters]
  /\ \A v \in Visitors : view[v].phase \in {"loading", "locked", "burned", "decrypted"}
  /\ \A c \in calls : c.v \in Visitors

(* A limited link is read at most as often as its limit allows, whatever the   *)
(* browsers do at the same time and whatever is lost: the messages on screen   *)
(* and those about to be are paid for by views taken.                          *)
ReadsArePaid ==
  Limited => Cardinality(Readers) + Cardinality(Consumed) <= server.views /\ server.views <= server.max

(* "Last view" is shown only on a link that nobody can open again.             *)
LastIsLast == \A v \in Readers : view[v].last => Expired

(* A page that opened the link shows the message whole: the last HTML part, or *)
(* for want of one the best text, and every attachment in order, as a walk     *)
(* over the leaves of the message finds them.                                  *)
OpenedIsWhole ==
  \A v \in Readers :
    LET best == BestEnvelope(server.letter)
    IN /\ ~view[v].files.hidden \/ best.atts = <<>>
       /\ view[v].files.rows = best.atts
       /\ view[v].shown = IF best.html # 0 THEN [frame |-> best.html, text |-> 0]
                          ELSE [frame |-> 0, text |-> best.text]

(* The unlock button comes back. *)
UnlockEnds == \A v \in Visitors : view[v].busy ~> ~view[v].busy

(* "Burn after read": a link that used up its views was read. Violated: the    *)
(* view is taken before the password is tried.                                 *)
BurntIsRead ==
  (calls = {} /\ Limited /\ server.views = server.max) => Readers # {}
================================================================================
