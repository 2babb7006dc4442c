-------------------------- MODULE FilePreallocator --------------------------
(***************************************************************************)
(* How a volume of preallocated files is divided (file_preallocator.cpp,   *)
(* file_allocation.h): each file in turn is given an extent of blocks for  *)
(* its index and, behind it, one for its data.  A file that asks for no    *)
(* size is given what is left.                                             *)
(*                                                                         *)
(* Sizes are counted in what one sector holds.  Blocks are counted in      *)
(* uint32_t, which wraps at Width.                                         *)
(***************************************************************************)
EXTENDS Integers, Sequences

CONSTANTS
    NumberOfBlocks,   \* geometry().number_of_blocks
    Width,            \* 2^32
    BlockRoom,        \* effective_file_block_size()
    RecordsPerBlock,  \* index records that fit in a block
    IndexFrequency,   \* BlockedFile::IndexFrequency
    MaximumSizes      \* of the files, in the order of their descriptors

Wrapped(n) == n % Width

\* blocks_required_for_index, of which twice as many are set aside.
IndexBlocks(nblocks) ==
    LET full == ((nblocks \div IndexFrequency) + 1) \div RecordsPerBlock
    IN  IF full > 1 THEN full ELSE 1

DataBlocks(size) == Wrapped((size \div BlockRoom) + 1)

ASSUME DivisionAssumption ==
    /\ NumberOfBlocks \in Nat /\ NumberOfBlocks > 2 /\ Width \in Nat \ {0}
    /\ BlockRoom \in Nat \ {0} /\ RecordsPerBlock \in Nat \ {0}
    /\ IndexFrequency \in Nat \ {0}
    /\ MaximumSizes \in Seq(Nat)

\* No file asks for so much that the count of its blocks wraps.
ASSUME WidthAssumption ==
    /\ \A n \in 0..NumberOfBlocks : NumberOfBlocks + 2 * IndexBlocks(n) < Width
    /\ \A i \in DOMAIN MaximumSizes :
           LET n == DataBlocks(MaximumSizes[i])
           IN  NumberOfBlocks + 2 * IndexBlocks(n) + n < Width

VARIABLES head, allocations   \* head_, and the files that have been placed

divided == <<head, allocations>>

-----------------------------------------------------------------------------
(* Extent.  With an odd number of blocks neither half has the last one.    *)

Extent(start, nblocks) == [start |-> start, nblocks |-> nblocks]
End(e)         == e.start + e.nblocks
Within(e, b) == b >= e.start /\ b < End(e)
MiddleBlock(e) == e.start + (e.nblocks \div 2)
FirstHalf(e)   == Extent(e.start, e.nblocks \div 2)
SecondHalf(e)  == Extent(MiddleBlock(e), e.nblocks \div 2)

-----------------------------------------------------------------------------
(* How many blocks a file takes when the ones before `from' are taken.     *)
Required(from, size) ==
    IF size > 0
    THEN [index |-> 2 * IndexBlocks(DataBlocks(size)), data |-> DataBlocks(size)]
    ELSE LET rest  == NumberOfBlocks - from - 1
             index == 2 * IndexBlocks(rest)
         IN  [index |-> index, data |-> Wrapped(rest - index)]

m_Allocation(from, n) ==   \* the data over the index
    [index |-> Extent(from, n.index), data |-> Extent(from, n.data)]
Allocation(from, n) ==
    [index |-> Extent(from, n.index), data |-> Extent(Wrapped(from + n.index), n.data)]

Init == head = 2 /\ allocations = <<>>

\* allocate() for the next file; when it fails the layout gives up.
Allocate ==
    LET size  == MaximumSizes[Len(allocations) + 1]
        n     == Required(head, size)
        data  == Wrapped(head + n.index)
        after == Wrapped(data + n.data)
    IN  /\ Len(allocations) < Len(MaximumSizes)
        /\ n.data # 0
        /\ data < NumberOfBlocks
        /\ after < NumberOfBlocks
        /\ head' = after
        /\ allocations' = Append(allocations, Allocation(head, n))

Spec == Init /\ [][Allocate]_divided

-----------------------------------------------------------------------------
(* Each file has blocks of its own, none of which is the file table's or   *)
(* lies past the end of the device: what one file writes, or erases when   *)
(* it is formatted, is never another's.                                    *)
Blocks(e) == e.start .. (End(e) - 1)
Held(a)   == Blocks(a.index) \union Blocks(a.data)
FilesAreApart ==
    \A i \in DOMAIN allocations :
        /\ Held(allocations[i]) \subseteq 1..(NumberOfBlocks - 1)
        /\ Blocks(allocations[i].index) \intersect Blocks(allocations[i].data) = {}
        /\ \A j \in DOMAIN allocations :
               i # j => Held(allocations[i]) \intersect Held(allocations[j]) = {}
=============================================================================
