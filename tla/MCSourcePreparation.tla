---------------------- MODULE MCSourcePreparation ----------------------
(* Instances of SourcePreparation for TLC: each source has its own text.   *)
EXTENDS SourcePreparation

CONSTANTS s1, d1, d2

DistinctTexts == [s \in Sources |-> IF s = s1 THEN d1 ELSE d2]
============================================================================
