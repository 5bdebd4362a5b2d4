---------------------------- MODULE MCMessageView ----------------------------
(* Two messages out of three mails: a plain one signed by its sender, one  *)
(* with alternatives, a nested container and the sender's key attached,    *)
(* and one the reader wrote, signed inside the encryption.                 *)
EXTENDS MessageView, Mime

Leaf(i, k) == [id |-> i, kind |-> k, attach |-> FALSE, named |-> FALSE,
               blank |-> FALSE, parts |-> <<>>]
Box(k, ps) == [id |-> 99, kind |-> k, attach |-> FALSE, named |-> FALSE,
               blank |-> FALSE, parts |-> ps]

PlainMail ==
  [tree |-> Leaf(1, "plain"), keyOf |-> <<>>, hdrs |-> TRUE, encrypted |-> TRUE,
   stub |-> FALSE, from |-> "ann", replyTo |-> "bob", to |-> {"me", "bob"}, cc |-> {"ann"},
   outer |-> "kAnn", inner |-> None]

RichMail ==
  [tree |-> Box("mixed", <<Box("mixed", <<[Leaf(2, "csv") EXCEPT !.blank = TRUE],
                                           Leaf(3, "html"), Leaf(4, "plain"),
                                           Leaf(5, "plain"), Leaf(6, "html")>>),
                           [Leaf(7, "key") EXCEPT !.named = TRUE],
                           Leaf(8, "bare"),
                           Box("mixed", <<Box("mixed", <<Leaf(9, "plain")>>)>>)>>),
   keyOf |-> [a \in {7} |-> "kBob"], hdrs |-> FALSE, encrypted |-> TRUE,
   stub |-> FALSE, from |-> "bob", replyTo |-> None, to |-> {"me"}, cc |-> {"ann", "bob"},
   outer |-> None, inner |-> "kBob"]

SentMail ==
  [tree |-> Box("signed", <<Leaf(10, "html"), Leaf(11, "pgpsig")>>), keyOf |-> <<>>,
   hdrs |-> TRUE, encrypted |-> FALSE, stub |-> TRUE, from |-> "me", replyTo |-> None,
   to |-> {"ann", "me"}, cc |-> {"bob"}, outer |-> "kAnn", inner |-> "kMe"]

MCMails == {PlainMail, RichMail, SentMail}
(* A definition of its own, which TLC works out once.                     *)
Displayed == [x \in MCMails |-> extractDisplayEnvelope(x.tree)]
MCEnvelope == Displayed
MCLocalKey == [a \in {"me"} |-> "kMe"]
MCDirectory == [a \in Addresses |-> IF a = "ann" THEN "kAnn" ELSE None]

(* What is on screen is the best text of the message it came from: the     *)
(* first leaf with the highest score, the last HTML and all attachments in *)
(* order, as a walk over the leaves finds them (parseMimeEntity); a single *)
(* text with nothing to score is shown as it is.                           *)
BestTextShown == body # None => body.env = BestEnvelope(mail[body.of].tree)
=============================================================================
