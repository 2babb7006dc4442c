----------------------------- MODULE TreeNodes -----------------------------
(***************************************************************************)
(* The nodes of the two B+ trees of phylum and what an insertion does to   *)
(* one node: PersistedTree (phylum/persisted_tree.h), whose nodes live on  *)
(* a device, and BPlusTree (phylum/tree.h), whose nodes live in memory,    *)
(* come from the same algorithm and differ in what a child is.  A child is *)
(* therefore an opaque value here.                                         *)
(*                                                                         *)
(* Positions count from 0 as in the code.  A leaf keeps the whole array of *)
(* keys: splitting a leaf only lowers its number of keys, so the slots     *)
(* past it hold the keys that moved to the sibling, and an insertion       *)
(* compares its key with the slot at its position before it looks at the   *)
(* number of keys.  The slots of an inner node past its number of keys are *)
(* never read and are left out.                                            *)
(***************************************************************************)
EXTENDS Naturals, FiniteSetsExt

CONSTANT Width   \* N = M of the template: keys of an inner node and of a leaf

\* "N must be greater than two to make the split of two inner nodes sensible";
\* the node serializer asserts that leaves and inner nodes are equally wide.
ASSUME WidthAssumption == Width \in Nat /\ Width >= 3

EmptyLeaf == [depth |-> 0, n |-> 0,
              keys |-> [i \in 0..(Width - 1) |-> 0],
              vals |-> [i \in 0..(Width - 1) |-> 0]]

\* The first key that is not smaller, the first key that is greater.
LeafPosition(key, node) ==
    Min({node.n} \cup {i \in 0..(node.n - 1) : node.keys[i] >= key})
m_InnerPosition(key, node) == LeafPosition(key, node)   \* equal keys to the left
InnerPosition(key, node) ==
    Min({node.n} \cup {i \in 0..(node.n - 1) : node.keys[i] > key})

\* find_less_then goes left of a separator equal to the key.
m_RewindPosition(key, node) == InnerPosition(key, node)   \* not rewound
RewindPosition(key, node) ==
    LET i == InnerPosition(key, node)
    IN  IF i > 0 /\ node.keys[i - 1] = key THEN i - 1 ELSE i

\* The value a leaf holds for a key; 0 stands for a key that is not there.
ValueIn(leaf, key) ==
    LET i == LeafPosition(key, leaf)
    IN  IF i < leaf.n /\ leaf.keys[i] = key THEN leaf.vals[i] ELSE 0

\* The position of the last key of a leaf below the key, -1 as {}: the code
\* decrements an unsigned index, which leaves the array when it was 0.
LastBelow(leaf, key) ==
    LET i == LeafPosition(key, leaf) IN IF i = 0 THEN {} ELSE {i - 1}

\* f with x at position i and what stood at i .. n - 1 moved up by one.
Shifted(f, i, n, x) ==
    [j \in DOMAIN f |-> IF j = i THEN x
                        ELSE IF i < j /\ j <= n THEN f[j - 1] ELSE f[j]]

LeafInsertNonfull(leaf, i, key, value) ==
    IF leaf.keys[i] = key
    THEN [leaf EXCEPT !.vals[i] = value]
    ELSE [leaf EXCEPT !.n = @ + 1,
                      !.keys = Shifted(@, i, leaf.n, key),
                      !.vals = Shifted(@, i, leaf.n, value)]

Threshold == (Width + 1) \div 2

\* The halves of a full leaf with the key put into the one it belongs to.
SplitLeaf(leaf, key, value) ==
    LET i     == LeafPosition(key, leaf)
        moved == Width - Threshold
        left  == [leaf EXCEPT !.n = Threshold]
        right == [EmptyLeaf EXCEPT
                    !.n    = moved,
                    !.keys = [j \in DOMAIN @ |-> IF j < moved THEN leaf.keys[Threshold + j] ELSE 0],
                    !.vals = [j \in DOMAIN @ |-> IF j < moved THEN leaf.vals[Threshold + j] ELSE 0]]
    IN  IF i < Threshold
        THEN <<LeafInsertNonfull(left, i, key, value), right>>
        ELSE <<left, LeafInsertNonfull(right, i - Threshold, key, value)>>

\* The halves of a full inner node; the key between them moves up.
SplitInner(node) ==
    [left  |-> [node EXCEPT !.n = Threshold - 1,
                            !.keys = [j \in 0..(Threshold - 2) |-> @[j]],
                            !.kids = [j \in 0..(Threshold - 1) |-> @[j]]],
     key   |-> node.keys[Threshold - 1],
     right |-> [node EXCEPT !.n = Width - Threshold,
                            !.keys = [j \in 0..(Width - Threshold - 1) |-> @[Threshold + j]],
                            !.kids = [j \in 0..(Width - Threshold) |-> @[Threshold + j]]]]

\* An inner node after its child at i was split into left and right.
LinkSplit(node, i, key, left, right) ==
    [node EXCEPT
        !.n    = @ + 1,
        !.keys = [j \in 0..node.n |->
                    IF j < i THEN @[j] ELSE IF j = i THEN key ELSE @[j - 1]],
        !.kids = [j \in 0..(node.n + 1) |->
                    IF j < i THEN @[j]
                    ELSE IF j = i THEN left
                    ELSE IF j = i + 1 THEN right ELSE @[j - 1]]]

NewRoot(depth, key, left, right) ==
    [depth |-> depth, n |-> 1, keys |-> [j \in {0} |-> key],
     kids |-> [j \in 0..1 |-> IF j = 0 THEN left ELSE right]]
=============================================================================
