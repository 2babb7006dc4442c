---------------------------- MODULE PersistedTree ----------------------------
(***************************************************************************)
(* PersistedTree (phylum/persisted_tree.h): the search tree of the file    *)
(* system, one call at a time.  TreeCache has what a call does to the      *)
(* nodes; where they are stored is left to TreeStore.                      *)
(***************************************************************************)
EXTENDS TreeCache

CONSTANTS Keys,       \* a set of positive numbers: key 0 is an empty SplitOutcome
          Values,     \* a set of positive numbers: value 0 marks a deleted key
          Starts,     \* sequences of keys the tree was filled with before
          MaxOps      \* bound of the model: calls after that

ASSUME TreeAssumption ==
    /\ Keys \subseteq Nat \ {0} /\ Values \subseteq Nat \ {0} /\ Values # {}
    /\ MaxOps \in Nat
    /\ Starts \subseteq Seq(Keys)

VARIABLES root,     \* ref_: the image of the root, NoTree before the first call
          slots,    \* the most slots of the cache the last call had in use
          calls,    \* calls made
          answers   \* what find() returns for every key; follows from root

vars == <<root, slots, calls, answers>>

-----------------------------------------------------------------------------
(* The calls.                                                              *)

FilledWith(keys) ==
    LET fill[i \in 0..Len(keys)] ==
            IF i = 0 THEN NoTree
            ELSE Added(fill[i - 1], keys[i], CHOOSE v \in Values : TRUE)
    IN  fill[Len(keys)]

Answers(tree) == [k \in Keys |-> Find(tree, k)]

Init ==
    /\ root \in {FilledWith(keys) : keys \in Starts}
    /\ slots = 0
    /\ calls = 0
    /\ answers = Answers(root)

AddKey(key, value) ==
    /\ root' = Added(root, key, value)
    /\ slots' = Len(AddCache(root, key, value))

\* remove() does not create the tree: it asserts that there is one.
RemoveKey(key) ==
    /\ root # NoTree
    /\ root' = Removed(root, key)
    /\ slots' = Len(PathTo(root, key))

\* recreate() gives each slot back before it loads the next child.
Recreate ==
    /\ root' = Recreated(Created(root))
    /\ slots' = root.depth + 1

Next ==
    /\ calls < MaxOps
    /\ calls' = calls + 1
    /\ \/ \E key \in Keys : RemoveKey(key) \/ \E value \in Values : AddKey(key, value)
       \/ Recreate
    /\ answers' = Answers(root')

Spec == Init /\ [][Next]_vars

-----------------------------------------------------------------------------
(* Properties.                                                             *)

Present == {k \in Keys : answers[k] # 0}

\* The tree is a dictionary as find() sees it: add() changes the value of its
\* key and of no other, whatever splits on the way and whatever keys the
\* unused slots of a leaf still hold; remove() erases its key only.
Abstract == INSTANCE Dictionary WITH dict <- [k \in Present |-> answers[k]]
ActsAsDictionary == Abstract!Spec

\* The keys of the leaves from left to right, deleted ones included.
RECURSIVE LeafKeys(_)
LeafKeys(tree) ==
    IF tree.depth = 0 THEN [i \in 1..tree.n |-> tree.keys[i - 1]]
    ELSE FoldLeft(LAMBDA s, i : s \o LeafKeys(tree.kids[i].at), <<>>,
                  [i \in 1..(tree.n + 1) |-> i - 1])

\* find_less_then returns the greatest key below its argument: the leaf it
\* walks to holds that key, also when it is the last one of the leaf to the
\* left of a separator.  OpenFile::seek() relies on it to find the saved
\* position of its file.
SeekFindsPredecessor ==
    root # NoTree =>
        \A k \in Keys \cup {Max(Keys) + 1} :
            FindLessThen(root, k) =
                LET below == {j \in Range(LeafKeys(root)) : j < k}
                IN  IF below = {} THEN {} ELSE {Max(below)}

\* What a call needs of the node cache: the path, a sibling for every node of
\* it that is full, and a new root only when the root is among them.  The 12
\* slots of TreeContext are therefore enough until a tree has a root of depth
\* 6; allocate() asserts that there is one more (assert(index_ != SIZE)).
CacheHasRoom == slots <= 2 * root.depth + 1
=============================================================================
