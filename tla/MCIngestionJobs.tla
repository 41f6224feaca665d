--------------------------- MODULE MCIngestionJobs ---------------------------
(* Two callers that are alike, and units and ordinals that are.            *)
EXTENDS IngestionJobs, TLC

Symmetry == Permutations(Threads) \cup Permutations(Units) \cup Permutations(Ordinals)
=============================================================================
