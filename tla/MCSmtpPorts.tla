---------------------------- MODULE MCSmtpPorts -----------------------------
(***************************************************************************)
(* The two listeners, checked side by side: port 25 with two local         *)
(* recipients, and the submission port with one.                           *)
(***************************************************************************)
EXTENDS SmtpSession

CONSTANT SubmissionRecipients

VARIABLES port,
          promised   \* believed of the submission port: recipients answered for
                     \* with 250 when the message is only queued for them

Submission == INSTANCE SmtpSession
  WITH Mode <- "submission", Recipients <- SubmissionRecipients, Local <- SubmissionRecipients,
       believed <- promised

PortsInit ==
  \/ port = "mx" /\ Init /\ promised = believed
  \/ port = "submission" /\ Submission!Init /\ believed = promised

PortsNext ==
  /\ \/ port = "mx" /\ Next /\ UNCHANGED promised
     \/ port = "submission" /\ Submission!Next /\ UNCHANGED believed
  /\ UNCHANGED port

PortsSpec == PortsInit /\ [][PortsNext]_<<vars, port, promised>>

(* On the submission port only sessions that authenticated, and did so     *)
(* over TLS unless plain AUTH is configured, get a message to mailpipe.    *)
SubmittedByPrincipals == port = "submission" => Submission!SubmittedByPrincipal
=============================================================================
