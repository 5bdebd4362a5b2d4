------------------------------ MODULE MCDrains ------------------------------
(***************************************************************************)
(* What the server gets done when nothing disturbs it, in three parts that *)
(* are checked side by side: one mailbox with one request at a time, the   *)
(* retention sweeper on two messages, and the mail worker on one row in    *)
(* two processes.  A behaviour is one of a single part.                    *)
(***************************************************************************)
EXTENDS Integers

CONSTANTS m1, m2, a1, Sweeper, r1, w1, w2, d1, None

VARIABLES part,
          store, ingest, deleted, ops, batch, moves, faults,
          rows, dest, submit, payload, staging, bounces, workers, accepted, lost,
          copies, leases, overrun

mailbox == <<store, ingest, deleted, ops, batch, moves, faults>>
outbox == <<rows, dest, submit, payload, staging, bounces, workers, accepted, lost,
            copies, leases, overrun>>
vars == <<part, mailbox, outbox>>

OneByOne == INSTANCE Mailbox
  WITH Messages <- {m1}, Actors <- {a1}, SweepLimit <- 1,
       Requests <- {"ingest", "patch", "delete", "permanent"},
       Sources <- {"IngestExternal", "IngestSubmission", "IngestInternal", "IngestClientSent",
                   "IngestInternalPlaintext"},
       Targets <- {"inbox", "archive", "trash", "own"}, Retained <- {}, MaxMoves <- 3,
       FaultKinds <- {"refused"}, MaxFaults <- 1

Swept == {m1, m2}

Sweeping == INSTANCE Mailbox
  WITH Messages <- Swept, Actors <- {a1}, SweepLimit <- 1, Requests <- {"ingest"},
       Sources <- {"IngestExternal"}, Targets <- {"archive", "trash"},
       Retained <- {"trash", "archive"}, MaxMoves <- 0, FaultKinds <- {}, MaxFaults <- 0

Worker == INSTANCE MailWorker
  WITH Rows <- {r1}, Workers <- {w1, w2}, Domains <- {d1}, BatchSize <- 1, MaxHosts <- 2,
       LeaseBound <- 2

OneRequest == part = "requests"
SweepOnly == part = "sweeper"
SendOnly == part = "worker"

(* The part that is not at work stays as it starts. *)
Init ==
  \/ OneRequest /\ OneByOne!Init /\ Worker!Init /\ dest = [r \in {r1} |-> {}]
  \/ SweepOnly /\ Sweeping!Init /\ Worker!Init /\ dest = [r \in {r1} |-> {}]
  \/ SendOnly /\ Sweeping!Init /\ Worker!Init

Next ==
  \/ OneRequest /\ OneByOne!Next /\ UNCHANGED <<part, outbox>>
  \/ SweepOnly /\ Sweeping!Next /\ UNCHANGED <<part, outbox>>
  \/ SendOnly /\ Worker!Next /\ UNCHANGED <<part, mailbox>>

(* The fairness of Mailbox for the sweeper, and of MailWorker. *)
Fairness ==
  /\ \A o \in {a1, Sweeper} : WF_vars(SweepOnly /\ Sweeping!Step(o) /\ UNCHANGED <<part, outbox>>)
  /\ WF_vars(SweepOnly /\ Sweeping!BeginSweep /\ UNCHANGED <<part, outbox>>)
  /\ WF_vars(SweepOnly /\ Sweeping!SweepNext /\ UNCHANGED <<part, outbox>>)
  /\ \A m \in Swept : WF_vars(SweepOnly /\ Sweeping!RetentionElapses(m) /\ UNCHANGED <<part, outbox>>)
  /\ \A w \in {w1, w2} :
       /\ WF_vars(SendOnly /\ Worker!WorkerStep(w) /\ UNCHANGED <<part, mailbox>>)
       /\ SF_vars(SendOnly /\ Worker!RunOnceRecover(w) /\ UNCHANGED <<part, mailbox>>)
       /\ SF_vars(SendOnly /\ Worker!RunOnceLease(w) /\ UNCHANGED <<part, mailbox>>)
  /\ WF_vars(SendOnly /\ Worker!BackoffElapses(r1) /\ UNCHANGED <<part, mailbox>>)
  /\ WF_vars(SendOnly /\ Worker!LeaseAges(r1) /\ UNCHANGED <<part, mailbox>>)

Spec == Init /\ [][Next]_vars /\ Fairness

-----------------------------------------------------------------------------
(* With one request at a time, listing, manifest and lifecycle row of an   *)
(* accepted message agree on where it is whenever none is in progress,     *)
(* also after a statement failed and the move was undone.                  *)
FolderAgrees == OneRequest => OneByOne!FolderAgrees

(* Once DeletePermanent has succeeded, and nobody works on the message, no *)
(* row and no body is left but the ledger's.                               *)
DeletedIsGone == OneRequest => OneByOne!DeletedIsGone

(* A message whose retention period is over does not stay over it: sweeps  *)
(* of limited size get to every one of them.                               *)
ExpiredArePurged ==
  \A m \in Swept : (SweepOnly /\ Sweeping!Expired(m)) ~> (SweepOnly /\ ~Sweeping!Expired(m))

(* No queued row is forgotten, through crashes of its holder at any point: *)
(* it is settled, or attempted as often as the instance allows, unless     *)
(* every worker is waiting for a remote server's answer.                   *)
QueueDrains == Worker!QueueDrains
=============================================================================
