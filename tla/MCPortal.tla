------------------------------ MODULE MCPortal ------------------------------
(* Portal for TLC: the items are alike. *)
EXTENDS Portal, TLC

Items == Permutations(Item)
=============================================================================
