----------------------------- MODULE Addressing -----------------------------
(***************************************************************************)
(* Addresses on the device (phylum/addressing.h): a block and a position   *)
(* in it.  A block is SectorsPerBlock sectors of SectorSize units; what is *)
(* stored lies within one sector.                                          *)
(***************************************************************************)
EXTENDS Integers

CONSTANTS SectorSize, SectorsPerBlock

ASSUME GeometryAssumption ==
    SectorSize \in Nat \ {0} /\ SectorsPerBlock \in Nat \ {0, 1}

BlockSize == SectorSize * SectorsPerBlock

NoBlock == 0 - 1   \* BLOCK_INDEX_INVALID

Address(block, position) == [block |-> block, position |-> position]
NoAddress == Address(NoBlock, 0)
IsValid(a) == a.block # NoBlock

\* is_valid_block: block 0 holds the anchor and is never linked to.
IsValidBlock(block) == block # NoBlock /\ block # 0

RemainingInSector(a) == SectorSize - (a.position % SectorSize)
RemainingInBlock(a)  == BlockSize - a.position

Advanced(a, n) == [a EXCEPT !.position = @ + n]

\* find_room: the address, or the start of the next sector, where n units fit.
HasRoom(a, n)  == n <= RemainingInBlock(a)
FindRoom(a, n) ==
    IF RemainingInSector(a) >= n THEN a ELSE Advanced(a, RemainingInSector(a))
=============================================================================
