----------------------------- MODULE MCWorkers -----------------------------
(* Instances of Workers for TLC.                                             *)
EXTENDS Workers, TLC

Symmetry == Permutations(Threads)

=============================================================================
