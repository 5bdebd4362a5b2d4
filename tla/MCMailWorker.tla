---------------------------- MODULE MCMailWorker ----------------------------
(* Small instances of MailWorker for TLC. *)
EXTENDS MailWorker, TLC

RowSymmetry == Permutations(Rows)
=============================================================================
