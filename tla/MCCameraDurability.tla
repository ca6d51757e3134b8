------------------------- MODULE MCCameraDurability -------------------------
(* CameraDurability on small instances; the task slots are interchangeable, *)
(* and so are the fences.                                                   *)
EXTENDS CameraDurability, TLC

SlotSymmetry == Permutations(Save) \cup Permutations(Fence)
=============================================================================
