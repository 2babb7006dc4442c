---------------------------- MODULE MCSuperBlock ----------------------------
(* Instances of SuperBlock for TLC. *)
EXTENDS SuperBlock, TLC

(* The allocator may hand out any free block, so the blocks of the pool are *)
(* interchangeable.                                                         *)
PoolSymmetry == Permutations(Pool)
=============================================================================
