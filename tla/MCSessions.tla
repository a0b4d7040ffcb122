------------------------------ MODULE MCSessions ------------------------------
(***************************************************************************)
(* Sessions, whose slots are interchangeable.                              *)
(***************************************************************************)
EXTENDS Sessions, TLC

SlotSymmetry == Permutations(Slots)
===============================================================================
