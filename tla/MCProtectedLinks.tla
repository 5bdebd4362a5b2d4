-------------------------- MODULE MCProtectedLinks --------------------------
(* ProtectedLinks on small sets of links and readers. *)
EXTENDS ProtectedLinks, TLC

Symmetric == Permutations(Links) \cup Permutations(Readers)
=============================================================================
