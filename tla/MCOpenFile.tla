------------------------------ MODULE MCOpenFile ------------------------------
(* The OpenFile objects are alike. *)
EXTENDS OpenFile, TLC

Alike == Permutations(Handles)
==============================================================================
