-------------------------- MODULE MCActionLifecycle --------------------------
(* Instances of ActionLifecycle for TLC.                                      *)
EXTENDS ActionContract, TLC

Symmetry == Permutations(Ids)

=============================================================================
