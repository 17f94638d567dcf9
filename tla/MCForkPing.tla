------------------------------- MODULE MCForkPing -------------------------------
(* Small instances of ForkPing for TLC. *)
EXTENDS ForkPing, TLC

Symmetry == Permutations(Nodes) \cup Permutations(Accounts)
===============================================================================
