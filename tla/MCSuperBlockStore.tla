---------------------------- MODULE MCSuperBlockStore ----------------------------
(* Instances of SuperBlockStore for TLC. *)
EXTENDS SuperBlockStore, TLC

(* The allocator may hand out any free block, so the blocks of the pool are *)
(* interchangeable.                                                         *)
PoolSymmetry == Permutations(Pool)
=============================================================================
