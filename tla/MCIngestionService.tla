------------------------- MODULE MCIngestionService -------------------------
(* Threads, callers of start and files that are alike.                     *)
EXTENDS IngestionService, TLC

Identical == Permutations(Loops) \cup Permutations(Starters) \cup Permutations(Files)
=============================================================================
