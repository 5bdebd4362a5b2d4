--------------------------- MODULE MCMailboxPairs ---------------------------
(***************************************************************************)
(* Two requests at a time on one message, in two parts checked side by     *)
(* side: moves against moves and deletions, and deletions and the sweeper  *)
(* with more faults, statements that report an error after they took       *)
(* effect among them.                                                      *)
(***************************************************************************)
EXTENDS Mailbox, TLC

VARIABLE part

Moving == INSTANCE Mailbox
  WITH Requests <- {"ingest", "patch", "permanent"}, Retained <- {},
       FaultKinds <- {"unread", "refused", "crash"}, MaxFaults <- 1

Deleting == INSTANCE Mailbox
  WITH Requests <- {"ingest", "delete", "permanent"}, MaxMoves <- 1

PairsInit == part \in {"moves", "deletions"} /\ Init

PairsNext ==
  /\ \/ part = "moves" /\ Moving!Next
     \/ part = "deletions" /\ Deleting!Next
  /\ UNCHANGED part

PairsSpec == PairsInit /\ [][PairsNext]_<<vars, part>>

Symmetric == Permutations(Actors)

(* An accepted message that has its manifest is listed in some folder at   *)
(* every moment of a move, unless a statement took effect and reported an  *)
(* error: MoveMessage adds the new row before it removes the old one, and  *)
(* a failed move puts back what it removed.                                *)
MovedIsListed == part = "moves" => NeverUnlisted
=============================================================================
