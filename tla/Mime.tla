-------------------------------- MODULE Mime --------------------------------
(***************************************************************************)
(* How the reader takes a decrypted message apart (parseMimeEntity and     *)
(* extractDisplayEnvelope of static/mail/mail-app.jsx).  A MIME entity is  *)
(* a record: its content type, its Content-Disposition, whether it names a *)
(* file, whether it decodes to blank text, the public key its text holds,  *)
(* and, for a multipart type, its parts.  A leaf has an id that stands for *)
(* its decoded content.  A part with no header block of its own, which the *)
(* parser skips, has the kind "bare"; "key" is application/pgp-keys.       *)
(***************************************************************************)
EXTENDS Naturals, Sequences, SequencesExt

CONSTANT MaxMimeDepth   \* nesting the parser follows (8 in the code)

Nothing == [text |-> 0, html |-> 0, score |-> 0, atts |-> <<>>]

isMultipart(e) == e.kind \in {"mixed", "signed"}

isText(e) == e.kind \in {"plain", "html", "csv"}

(* A part is an attachment when it says so, or when it names a file and is *)
(* neither a container nor a plain or HTML text; never a PGP signature.    *)
isAttachment(e) ==
  /\ e.kind # "pgpsig"
  /\ e.attach \/ (e.named /\ ~isMultipart(e) /\ e.kind \notin {"plain", "html"})

scoreBodyText(kind, blank) ==
  CASE blank -> 0
    [] ~blank /\ kind = "plain" -> 3
    [] ~blank /\ kind = "html"  -> 2
    [] ~blank /\ kind = "csv"   -> 1
    [] OTHER -> 0

(* Fault: of two texts with the same score the later one is taken.         *)
withLaterPart(acc, child) ==
  [text  |-> IF child.score >= acc.score THEN child.text ELSE acc.text,
   html  |-> IF child.html # 0 THEN child.html ELSE acc.html,
   score |-> IF child.score >= acc.score THEN child.score ELSE acc.score,
   atts  |-> acc.atts \o child.atts]

(* One part more: attachments are appended, a later HTML replaces an       *)
(* earlier one, and the text changes only for a better score.              *)
withPart(acc, child) ==
  [text  |-> IF child.score > acc.score THEN child.text ELSE acc.text,
   html  |-> IF child.html # 0 THEN child.html ELSE acc.html,
   score |-> IF child.score > acc.score THEN child.score ELSE acc.score,
   atts  |-> acc.atts \o child.atts]

RECURSIVE parseMimeEntity(_, _)
parseMimeEntity(e, depth) ==
  CASE isAttachment(e) -> [Nothing EXCEPT !.atts = <<e.id>>]
    [] ~isAttachment(e) /\ isMultipart(e) /\ depth < MaxMimeDepth ->
         IF e.kind = "signed"
         THEN IF e.parts = <<>> THEN Nothing
              ELSE parseMimeEntity(Head(e.parts), depth + 1)
         ELSE FoldLeft(withPart, Nothing,
                [i \in DOMAIN e.parts |-> parseMimeEntity(e.parts[i], depth + 1)])
    [] ~isAttachment(e) /\ isText(e) ->
         [text |-> e.id, html |-> IF e.kind = "html" THEN e.id ELSE 0,
          score |-> scoreBodyText(e.kind, e.blank), atts |-> <<>>]
    [] OTHER -> Nothing

(* The envelope on display: what the parser found, or the raw text when    *)
(* it found nothing in a message that is not multipart.                    *)
extractDisplayEnvelope(e) ==
  LET p == parseMimeEntity(e, 0)
  IN  IF p.score > 0 \/ p.atts # <<>> \/ isMultipart(e)
      THEN [text |-> p.text, html |-> p.html, atts |-> p.atts]
      ELSE [text |-> e.id, html |-> 0, atts |-> <<>>]

(* The leaves the reader may take from, in the order of the message, by    *)
(* going down the paths: of a signed container only the first part counts, *)
(* and nothing is taken out of an attachment or from too deep.             *)
RECURSIVE LeavesOf(_, _)
LeavesOf(e, depth) ==
  IF isMultipart(e) /\ ~isAttachment(e)
  THEN IF depth >= MaxMimeDepth THEN <<>>
       ELSE FlattenSeq([i \in 1..(IF e.kind = "signed"
                                  THEN IF e.parts = <<>> THEN 0 ELSE 1
                                  ELSE Len(e.parts))
                          |-> LeavesOf(e.parts[i], depth + 1)])
  ELSE <<e>>

(* What a walk over the leaves finds: the first text with the highest      *)
(* score, the last HTML and all attachments in order; a single text with   *)
(* nothing to score is shown as it is.                                     *)
BestEnvelope(tree) ==
  LET leaves == LeavesOf(tree, 0)
      texts == SelectSeq(leaves, LAMBDA e : isText(e) /\ ~isAttachment(e))
      atts == SelectSeq(leaves, isAttachment)
      htmls == SelectSeq(texts, LAMBDA e : e.kind = "html")
      score(e) == scoreBodyText(e.kind, e.blank)
      best == SelectSeq(texts, LAMBDA e : /\ score(e) > 0
                                          /\ \A o \in ToSet(texts) : score(o) <= score(e))
  IN IF best # <<>> \/ atts # <<>> \/ isMultipart(tree)
     THEN [text |-> IF best = <<>> THEN 0 ELSE Head(best).id,
           html |-> IF htmls = <<>> THEN 0 ELSE Last(htmls).id,
           atts |-> [i \in DOMAIN atts |-> atts[i].id]]
     ELSE [text |-> tree.id, html |-> 0, atts |-> <<>>]
=============================================================================
