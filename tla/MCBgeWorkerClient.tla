------------------------- MODULE MCBgeWorkerClient -------------------------
(* Symmetry for model checking BgeWorkerClient.                             *)
EXTENDS BgeWorkerClient, TLC

Identical == Permutations(Caller) \cup Permutations(Worker)
=============================================================================
