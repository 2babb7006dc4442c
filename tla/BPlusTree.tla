------------------------------ MODULE BPlusTree ------------------------------
(***************************************************************************)
(* BPlusTree (phylum/tree.h), the search tree in memory that the persisted *)
(* one was made from.  A node is changed where it is; a pointer is an      *)
(* index into heap, in the order of allocation (nothing is freed).  Leaves *)
(* are chained left to right by nl, 0 standing for nullptr, and            *)
(* find_last_less_then steps over deleted keys, which the persisted tree   *)
(* gives up on.                                                            *)
(***************************************************************************)
EXTENDS TreeNodes, Sequences, TLC

CONSTANTS Keys, Values

VARIABLE tree   \* [heap |-> the nodes allocated so far, top |-> root]

heap == tree.heap
top  == tree.top

NewLeaf == EmptyLeaf @@ [nl |-> 0]

RECURSIVE LeafFor(_, _, _)
LeafFor(h, p, key) ==
    IF h[p].depth = 0 THEN p
    ELSE LeafFor(h, h[p].kids[InnerPosition(key, h[p])], key)

\* find(): the value of a key, 0 when it is absent or deleted.
Lookup(key) == ValueIn(heap[LeafFor(heap, top, key)], key)

\* m_Deleted: a key that was removed counts
m_Deleted(key) == FALSE
Deleted(key) == Lookup(key) = 0

\* find_last_less_then: the greatest key below that is not deleted, as a set.
RECURSIVE LeafBefore(_, _), LastLessThen(_)
LeafBefore(p, key) ==
    IF heap[p].depth = 0 THEN p
    ELSE LeafBefore(heap[p].kids[RewindPosition(key, heap[p])], key)
LastLessThen(key) ==
    LET leaf  == heap[LeafBefore(top, key)]
        below == LastBelow(leaf, key)
    IN  IF below = {} THEN {}
        ELSE LET k == leaf.keys[Max(below)]
             IN  IF Deleted(k) THEN LastLessThen(k) ELSE {k}

-----------------------------------------------------------------------------
NoSplit == [key |-> 0]

\* What follows the right half of a leaf that was split.
AfterHalf(leaf) == leaf.nl

LeafInsert(h, p, key, value) ==
    IF h[p].n < Width
    THEN [heap |-> [h EXCEPT ![p] =
                       LeafInsertNonfull(@, LeafPosition(key, @), key, value)],
          split |-> NoSplit]
    ELSE LET halves == SplitLeaf(h[p], key, value)
             new    == Len(h) + 1
         IN  [heap  |-> Append([h EXCEPT ![p] = [halves[1] EXCEPT !.nl = new]],
                               halves[2] @@ [nl |-> AfterHalf(h[p])]),
              split |-> [key |-> halves[2].keys[0], left |-> p, right |-> new]]

RECURSIVE Insert(_, _, _, _), InsertBelow(_, _, _, _)

\* inner_insert: a full node is split before its child is looked at.
InnerInsert(h, p, key, value) ==
    IF h[p].n < Width
    THEN [heap |-> InsertBelow(h, p, key, value), split |-> NoSplit]
    ELSE LET halves == SplitInner(h[p])
             new    == Len(h) + 1
         IN  [heap  |-> InsertBelow(Append([h EXCEPT ![p] = halves.left], halves.right),
                                    IF key < halves.key THEN p ELSE new, key, value),
              split |-> [key |-> halves.key, left |-> p, right |-> new]]

Insert(h, p, key, value) ==
    IF h[p].depth = 0 THEN LeafInsert(h, p, key, value)
                      ELSE InnerInsert(h, p, key, value)

InsertBelow(h, p, key, value) ==
    LET i == InnerPosition(key, h[p])
        r == Insert(h, h[p].kids[i], key, value)
    IN  IF r.split = NoSplit THEN r.heap
        ELSE [r.heap EXCEPT ![p] =
                LinkSplit(@, i, r.split.key, r.split.left, r.split.right)]

-----------------------------------------------------------------------------
Empty == [heap |-> <<NewLeaf>>, top |-> 1]

Added(t, key, value) ==
    LET r == Insert(t.heap, t.top, key, value)
    IN  IF r.split = NoSplit THEN [t EXCEPT !.heap = r.heap]
        ELSE [heap |-> Append(r.heap, NewRoot(t.heap[t.top].depth + 1, r.split.key,
                                              r.split.left, r.split.right)),
              top  |-> Len(r.heap) + 1]

\* remove() leaves the key in its leaf with the value 0.
Removed(t, key) ==
    LET p == LeafFor(t.heap, t.top, key)
        i == LeafPosition(key, t.heap[p])
    IN  IF i < Width /\ t.heap[p].keys[i] = key
        THEN [t EXCEPT !.heap[p].vals[i] = 0] ELSE t

Init == tree = Empty
Add(key, value) == tree' = Added(tree, key, value)
Remove(key) == tree' = Removed(tree, key)

-----------------------------------------------------------------------------
\* The leaves from left to right, following the chain and following the tree.
RECURSIVE Chained(_), Ordered(_)
Chained(p) == IF p = 0 THEN <<>> ELSE <<p>> \o Chained(heap[p].nl)
Ordered(p) ==
    IF heap[p].depth = 0 THEN <<p>>
    ELSE LET from[i \in 0..heap[p].n] ==
                IF i = heap[p].n THEN Ordered(heap[p].kids[i])
                ELSE Ordered(heap[p].kids[i]) \o from[i + 1]
         IN  from[0]
=============================================================================
