---------------------------- MODULE MCOpsWorker ----------------------------
(* Instances of OpsWorker for TLC.                                           *)
EXTENDS OpsWorker, TLC

Symmetry == Permutations(Jobs)

=============================================================================
