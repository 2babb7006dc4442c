----------------------- MODULE FilePreallocatorProofs -----------------------
(***************************************************************************)
(* The files of a volume are kept apart, whatever sizes they ask for and   *)
(* however many blocks the device has.                                     *)
(*                                                                         *)
(* The counts of blocks wrap, and the test that an extent lies on the      *)
(* device looks at its end only: an extent whose count had wrapped could   *)
(* pass.  The invariant says that what was handed out is in order, below   *)
(* head; the step is that no sum that passes the tests has wrapped.        *)
(***************************************************************************)
EXTENDS FilePreallocator, TLAPS

Place    == [start : Nat, nblocks : Nat]
PlacedAt == [index : Place, data : Place]

(* A file lies between block 2 and block n, its data behind its index.     *)
Placed(a, n) ==
    /\ a.index.start >= 2
    /\ a.data.start = End(a.index)
    /\ End(a.data) <= n

Ordered ==
    \A i, j \in DOMAIN allocations :
        i < j => End(allocations[i].data) <= allocations[j].index.start

PlacedBelowHead ==
    /\ head \in Nat /\ head >= 2 /\ head < NumberOfBlocks
    /\ allocations \in Seq(PlacedAt)
    /\ \A i \in DOMAIN allocations : Placed(allocations[i], head)
    /\ Ordered

(* What does not reach Width does not wrap.                                *)
LEMMA NoWrap ==
    ASSUME NEW n \in Nat, n < Width
    PROVE  Wrapped(n) = n
  BY DivisionAssumption DEF Wrapped

LEMMA WrapInRange ==
    ASSUME NEW n \in Int
    PROVE  Wrapped(n) \in Nat /\ Wrapped(n) < Width
  BY DivisionAssumption DEF Wrapped

LEMMA DivIsNat ==
    ASSUME NEW a \in Nat, NEW b \in Nat \ {0}
    PROVE  a \div b \in Nat
  OBVIOUS

LEMMA IndexBlocksPositive ==
    ASSUME NEW n \in Nat
    PROVE  IndexBlocks(n) \in Nat /\ IndexBlocks(n) >= 1
<1>1. n \div IndexFrequency \in Nat
  BY DivisionAssumption
<1>2. ((n \div IndexFrequency) + 1) \div RecordsPerBlock \in Nat
  BY <1>1, DivisionAssumption
<1> QED
  BY <1>2 DEF IndexBlocks

(* What a file is given when the tests pass: nothing has wrapped.          *)
LEMMA RequiredFits ==
    ASSUME NEW from \in Nat, from < NumberOfBlocks,
           NEW i \in DOMAIN MaximumSizes,
           NEW n, n = Required(from, MaximumSizes[i]),
           Wrapped(from + n.index) < NumberOfBlocks
    PROVE  /\ n.index \in Nat /\ n.data \in Nat
           /\ Wrapped(from + n.index) = from + n.index
           /\ Wrapped(from + n.index + n.data) = from + n.index + n.data
<1> DEFINE size == MaximumSizes[i]
<1>1. size \in Nat
  BY DivisionAssumption
<1>2. CASE size > 0
  <2> DEFINE d == DataBlocks(size)
             k == IndexBlocks(d)
  <2>1. size \div BlockRoom \in Nat
    BY <1>1, DivIsNat, DivisionAssumption
  <2>2. d \in Nat
    BY <2>1, WrapInRange DEF DataBlocks
  <2>3. k \in Nat
    BY <2>2, IndexBlocksPositive
  <2>4. NumberOfBlocks + 2 * k + d < Width
    BY WidthAssumption
  <2>5. n = [index |-> 2 * k, data |-> d]
    BY <1>2 DEF Required
  <2> HIDE DEF d, k
  <2>6. Wrapped(from + 2 * k) = from + 2 * k
    BY <2>2, <2>3, <2>4, NoWrap, DivisionAssumption
  <2>7. Wrapped(from + 2 * k + d) = from + 2 * k + d
    BY <2>2, <2>3, <2>4, NoWrap, DivisionAssumption
  <2> QED
    BY <2>2, <2>3, <2>5, <2>6, <2>7
<1>3. CASE ~(size > 0)
  <2> DEFINE rest == NumberOfBlocks - from - 1
             k    == IndexBlocks(rest)
  <2>1. rest \in 0..NumberOfBlocks
    BY DivisionAssumption
  <2>2. k \in Nat
    BY <2>1, IndexBlocksPositive
  <2>3. NumberOfBlocks + 2 * k < Width
    BY <2>1, WidthAssumption
  <2>4. n = [index |-> 2 * k, data |-> Wrapped(rest - 2 * k)]
    BY <1>3 DEF Required
  <2> HIDE DEF k
  <2>5. Wrapped(from + 2 * k) = from + 2 * k
    BY <2>2, <2>3, NoWrap, DivisionAssumption
  <2>6. from + 2 * k < NumberOfBlocks
    BY <2>4, <2>5
  <2>7. Wrapped(rest - 2 * k) = rest - 2 * k /\ rest - 2 * k \in Nat
    BY <2>2, <2>3, <2>6, NoWrap, DivisionAssumption
  <2>8. Wrapped(from + 2 * k + (rest - 2 * k)) = from + 2 * k + (rest - 2 * k)
    BY <2>2, <2>3, <2>6, NoWrap, DivisionAssumption
  <2> QED
    BY <2>2, <2>4, <2>5, <2>7, <2>8
<1> QED
  BY <1>2, <1>3

LEMMA PlacedInitially == Init => PlacedBelowHead
  BY DivisionAssumption DEF Init, PlacedBelowHead, Ordered

LEMMA AllocateKeepsOrder == PlacedBelowHead /\ Allocate => PlacedBelowHead'
<1> SUFFICES ASSUME PlacedBelowHead, Allocate
             PROVE  PlacedBelowHead'
  OBVIOUS
<1> DEFINE len  == Len(allocations)
           n    == Required(head, MaximumSizes[len + 1])
           new  == Allocation(head, n)
<1>1. len \in Nat /\ DOMAIN allocations = 1..len
  BY DEF PlacedBelowHead
<1>2. len + 1 \in DOMAIN MaximumSizes
  BY <1>1, DivisionAssumption DEF Allocate
<1>3. /\ Wrapped(head + n.index) < NumberOfBlocks
      /\ Wrapped(Wrapped(head + n.index) + n.data) < NumberOfBlocks
      /\ head' = Wrapped(Wrapped(head + n.index) + n.data)
      /\ allocations' = Append(allocations, new)
  BY DEF Allocate
<1>4. head \in Nat /\ head >= 2 /\ head < NumberOfBlocks
  BY DEF PlacedBelowHead
<1> HIDE DEF n
<1>5. /\ n.index \in Nat /\ n.data \in Nat
      /\ Wrapped(head + n.index) = head + n.index
      /\ Wrapped(head + n.index + n.data) = head + n.index + n.data
  BY <1>2, <1>3, <1>4, RequiredFits DEF n
<1>6. head' = head + n.index + n.data /\ head' \in Nat /\ head <= head'
  BY <1>3, <1>4, <1>5
<1>7. new = [index |-> [start |-> head, nblocks |-> n.index],
             data  |-> [start |-> head + n.index, nblocks |-> n.data]]
  BY <1>5 DEF Allocation, Extent
<1> HIDE DEF new
<1>8. new \in PlacedAt
  BY <1>4, <1>5, <1>7 DEF PlacedAt, Place
<1>9. Placed(new, head')
  BY <1>4, <1>5, <1>6, <1>7 DEF Placed, End
<1>10. /\ allocations' \in Seq(PlacedAt)
       /\ DOMAIN allocations' = 1..(len + 1)
       /\ \A i \in 1..len : allocations'[i] = allocations[i]
       /\ allocations'[len + 1] = new
  BY <1>1, <1>3, <1>8 DEF PlacedBelowHead
<1>11. ASSUME NEW i \in 1..len
       PROVE  /\ Placed(allocations[i], head)
              /\ allocations[i].data.start \in Nat /\ allocations[i].data.nblocks \in Nat
  <2>1. Placed(allocations[i], head) /\ allocations[i] \in PlacedAt
    BY <1>1 DEF PlacedBelowHead
  <2> QED
    BY <2>1 DEF PlacedAt, Place
<1>12. \A i \in DOMAIN allocations' : Placed(allocations'[i], head')
  <2> SUFFICES ASSUME NEW i \in 1..(len + 1)
               PROVE  Placed(allocations'[i], head')
    BY <1>10
  <2>1. CASE i = len + 1
    BY <2>1, <1>9, <1>10
  <2>2. CASE i \in 1..len
    BY <2>2, <1>4, <1>6, <1>10, <1>11 DEF Placed, End
  <2> QED
    BY <1>1, <2>1, <2>2
<1>13. Ordered'
  <2> SUFFICES ASSUME NEW i \in 1..(len + 1), NEW j \in 1..(len + 1), i < j
               PROVE  End(allocations'[i].data) <= allocations'[j].index.start
    BY <1>10 DEF Ordered, End
  <2>1. i \in 1..len
    BY <1>1
  <2>2. CASE j = len + 1
    <3>1. allocations'[i] = allocations[i] /\ allocations'[j] = new
      BY <2>1, <2>2, <1>10
    <3>2. End(allocations[i].data) <= head
      BY <2>1, <1>11 DEF Placed
    <3>3. new.index.start = head
      BY <1>7
    <3> QED
      BY <3>1, <3>2, <3>3
  <2>3. CASE j \in 1..len
    BY <2>1, <2>3, <1>1, <1>10 DEF PlacedBelowHead, Ordered
  <2> QED
    BY <1>1, <2>2, <2>3
<1> QED
  BY <1>3, <1>4, <1>6, <1>10, <1>12, <1>13 DEF PlacedBelowHead

(* Files that are placed in order have no block in common.                 *)
LEMMA OrderIsEnough == PlacedBelowHead => FilesAreApart
<1> SUFFICES ASSUME PlacedBelowHead, NEW i \in DOMAIN allocations
             PROVE  /\ Held(allocations[i]) \subseteq 1..(NumberOfBlocks - 1)
                    /\ Blocks(allocations[i].index) \intersect Blocks(allocations[i].data) = {}
                    /\ \A j \in DOMAIN allocations :
                           i # j => Held(allocations[i]) \intersect Held(allocations[j]) = {}
  BY DEF FilesAreApart
<1>1. ASSUME NEW k \in DOMAIN allocations
      PROVE  /\ allocations[k] \in PlacedAt
             /\ Placed(allocations[k], head)
  BY DEF PlacedBelowHead
<1>2. head \in Nat /\ head < NumberOfBlocks /\ NumberOfBlocks \in Nat
  BY DivisionAssumption DEF PlacedBelowHead
<1>3. ASSUME NEW k \in DOMAIN allocations, NEW b \in Held(allocations[k])
      PROVE  /\ b \in Int
             /\ b >= allocations[k].index.start
             /\ b < End(allocations[k].data)
  BY <1>1 DEF Held, Blocks, End, Placed, PlacedAt, Place
<1>4. Held(allocations[i]) \subseteq 1..(NumberOfBlocks - 1)
  BY <1>1, <1>2, <1>3 DEF Placed, End, PlacedAt, Place
<1>5. Blocks(allocations[i].index) \intersect Blocks(allocations[i].data) = {}
  BY <1>1 DEF Blocks, End, Placed, PlacedAt, Place
<1>6. ASSUME NEW j \in DOMAIN allocations, i # j,
             NEW b \in Held(allocations[i]), b \in Held(allocations[j])
      PROVE  FALSE
  <2>1. i \in Int /\ j \in Int
    BY DEF PlacedBelowHead
  <2>2. i < j \/ j < i
    BY <1>6, <2>1
  <2>3. \/ End(allocations[i].data) <= allocations[j].index.start
        \/ End(allocations[j].data) <= allocations[i].index.start
    BY <2>2 DEF PlacedBelowHead, Ordered
  <2>4. /\ End(allocations[i].data) \in Int /\ allocations[i].index.start \in Int
        /\ End(allocations[j].data) \in Int /\ allocations[j].index.start \in Int
    BY <1>1 DEF End, PlacedAt, Place
  <2>5. /\ b \in Int
        /\ b >= allocations[i].index.start /\ b < End(allocations[i].data)
        /\ b >= allocations[j].index.start /\ b < End(allocations[j].data)
    BY <1>3, <1>6
  <2> QED
    BY <2>3, <2>4, <2>5
<1> QED
  BY <1>4, <1>5, <1>6

(* FilePreallocator::allocate, called for one file after the other, gives  *)
(* each file blocks of its own, within the device and past the file table. *)
THEOREM FilesKeptApart == Spec => []FilesAreApart
<1>1. PlacedBelowHead /\ [Allocate]_divided => PlacedBelowHead'
  <2>1. PlacedBelowHead /\ UNCHANGED divided => PlacedBelowHead'
    BY DEF divided, PlacedBelowHead, Ordered
  <2> QED
    BY <2>1, AllocateKeepsOrder
<1> QED
  BY <1>1, PlacedInitially, OrderIsEnough, PTL DEF Spec
=============================================================================
