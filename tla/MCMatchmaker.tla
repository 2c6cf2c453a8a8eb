----------------------------- MODULE MCMatchmaker -----------------------------
(* Symmetry for the bounded instances of Matchmaker. *)
EXTENDS Matchmaker, TLC

Symm == Permutations(Players) \cup Permutations(Replicas) \cup Permutations(Modes)
================================================================================
