------------------------- MODULE MCControlledKnowledge -------------------------
(* Tabs are alike, and so are the texts a person may write and the places   *)
(* of a library.                                                            *)
EXTENDS ControlledKnowledge, TLC

Identical == Permutations(Tabs) \cup Permutations(Texts) \cup Permutations(Places)
=============================================================================
