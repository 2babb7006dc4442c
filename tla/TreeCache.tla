----------------------------- MODULE TreeCache -----------------------------
(***************************************************************************)
(* One call of PersistedTree (phylum/persisted_tree.h) as it works through *)
(* MemoryConstrainedNodeCache (phylum/stack_node_cache.h).  A change loads *)
(* the nodes on the path to a leaf into the cache, changes them there, and *)
(* writes the changed nodes at new addresses, children before parents, the *)
(* new root last; nothing already written changes.  An address is          *)
(* therefore modelled by the node that was written there, its image, with  *)
(* images as its children.                                                 *)
(*                                                                         *)
(* The cache is a stack of slots that is empty between two calls.  A       *)
(* reference (NodeRef) is a slot or an image, [slot |-> i] or [at |-> m]:  *)
(* the code's index_ is 0xff in the second case.                           *)
(***************************************************************************)
EXTENDS TreeNodes, Sequences, SequencesExt

NoTree == [depth |-> 0, n |-> 0]

Slot(i)  == [slot |-> i]
Image(m) == [at |-> m]
IsSlot(ref) == "slot" \in DOMAIN ref

-----------------------------------------------------------------------------
(* The node cache.  allocate() and load() take the next slot; flush()      *)
(* writes the slot of the deepest node and all it refers to.               *)

\* m_LoadChild: a slot is allocated before load() allocates its own
m_LoadChild(c, parent, i) ==
    LET image == c[parent].kids[i].at
    IN  [c EXCEPT ![parent].kids[i] = Slot(Len(c) + 1)] \o <<image, image>>

LoadChild(c, parent, i) ==
    LET image == c[parent].kids[i].at
    IN  Append([c EXCEPT ![parent].kids[i] = Slot(Len(c) + 1)], image)

RECURSIVE FlushSlot(_, _)
FlushSlot(c, s) ==
    IF c[s].depth = 0 THEN c[s]
    ELSE [c[s] EXCEPT !.kids = [i \in DOMAIN @ |->
            IF IsSlot(@[i]) THEN Image(FlushSlot(c, @[i].slot)) ELSE @[i]]]

\* The first slot of the greatest depth: after a split of the root, the new root.
HeadSlot(c) ==
    CHOOSE s \in DOMAIN c :
        \A t \in DOMAIN c : c[t].depth < c[s].depth \/ (c[t].depth = c[s].depth /\ s <= t)

FlushCache(c) == FlushSlot(c, HeadSlot(c))

-----------------------------------------------------------------------------
(* The tree.                                                               *)

NoSplit == [key |-> 0]

\* Inserting below slot s: the cache after it, and the split that went up.
RECURSIVE Insert(_, _, _, _), InsertBelow(_, _, _, _)

LeafInsert(c, s, key, value) ==
    IF c[s].n < Width
    THEN [cache |-> [c EXCEPT ![s] =
                        LeafInsertNonfull(@, LeafPosition(key, @), key, value)],
          split |-> NoSplit]
    ELSE LET halves == SplitLeaf(c[s], key, value)
         IN  [cache |-> Append([c EXCEPT ![s] = halves[1]], halves[2]),
              split |-> [key   |-> halves[2].keys[0],
                         left  |-> Slot(s), right |-> Slot(Len(c) + 1)]]

InnerInsert(c, s, key, value) ==
    IF c[s].n < Width
    THEN [cache |-> InsertBelow(c, s, key, value), split |-> NoSplit]
    ELSE LET halves == SplitInner(c[s])
             other  == Len(c) + 1
             target == IF key < halves.key THEN s ELSE other
         IN  [cache |-> InsertBelow(Append([c EXCEPT ![s] = halves.left], halves.right),
                                    target, key, value),
              split |-> [key |-> halves.key, left |-> Slot(s), right |-> Slot(other)]]

Insert(c, s, key, value) ==
    IF c[s].depth = 0 THEN LeafInsert(c, s, key, value)
                      ELSE InnerInsert(c, s, key, value)

InsertBelow(c, s, key, value) ==
    LET i == InnerPosition(key, c[s])
        r == Insert(LoadChild(c, s, i), Len(c) + 1, key, value)
    IN  IF r.split = NoSplit THEN r.cache
        ELSE [r.cache EXCEPT ![s] =
                LinkSplit(@, i, r.split.key, r.split.left, r.split.right)]

\* create_if_necessary: an empty leaf when there is no tree.
Created(tree) == IF tree = NoTree THEN EmptyLeaf ELSE tree

\* The cache add() leaves to flush().
AddCache(tree, key, value) ==
    LET r == Insert(<<Created(tree)>>, 1, key, value)
    IN  IF r.split = NoSplit THEN r.cache
        ELSE Append(r.cache, NewRoot(tree.depth + 1, r.split.key,
                                     r.split.left, r.split.right))

Added(tree, key, value) == FlushCache(AddCache(tree, key, value))

\* find and remove walk down the same way; the slots of the path, root first.
RECURSIVE Path(_, _, _)
Path(c, s, key) ==
    IF c[s].depth = 0 THEN c
    ELSE Path(LoadChild(c, s, InnerPosition(key, c[s])), Len(c) + 1, key)

PathTo(tree, key) == Path(<<Created(tree)>>, 1, key)

Find(tree, key) == ValueIn(Last(PathTo(tree, key)), key)

\* The key find_less_then returns, as a set of at most one; it takes no
\* account of deleted keys ("does *not* work when values are deleted").
RECURSIVE FindLessThen(_, _)
FindLessThen(tree, key) ==
    IF tree.depth = 0 THEN {tree.keys[i] : i \in LastBelow(tree, key)}
    ELSE FindLessThen(tree.kids[RewindPosition(key, tree)].at, key)

\* remove() leaves the key in its leaf, with the value 0.
Removed(tree, key) ==
    LET c    == PathTo(tree, key)
        leaf == Last(c)
        i    == LeafPosition(key, leaf)
    IN  IF i < Width /\ leaf.keys[i] = key
        THEN FlushCache([c EXCEPT ![Len(c)].vals[i] = 0])
        ELSE tree

\* recreate() writes every node again, each child before its parent.
RECURSIVE Recreated(_)
Recreated(tree) ==
    IF tree.depth = 0 THEN tree
    ELSE [tree EXCEPT !.kids = [i \in DOMAIN @ |-> Image(Recreated(@[i].at))]]
=============================================================================
