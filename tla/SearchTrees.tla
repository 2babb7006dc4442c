----------------------------- MODULE SearchTrees -----------------------------
(***************************************************************************)
(* The persisted tree and the tree in memory given the same calls.  They   *)
(* come from one algorithm, were changed apart from each other, and must   *)
(* still give the same answers.                                            *)
(***************************************************************************)
EXTENDS PersistedTree

VARIABLE tree   \* the tree in memory

Memory == INSTANCE BPlusTree

MemoryFilledWith(keys) ==
    FoldLeft(LAMBDA t, key : Memory!Added(t, key, CHOOSE v \in Values : TRUE),
             Memory!Empty, keys)

BothInit ==
    \E keys \in Starts :
        /\ root = FilledWith(keys)
        /\ tree = MemoryFilledWith(keys)
        /\ answers = Answers(root)
        /\ slots = 0 /\ calls = 0

BothNext ==
    /\ calls < MaxOps
    /\ calls' = calls + 1
    /\ \/ \E key \in Keys, value \in Values :
             AddKey(key, value) /\ Memory!Add(key, value)
       \/ \E key \in Keys : RemoveKey(key) /\ Memory!Remove(key)
       \/ Recreate /\ UNCHANGED tree
    /\ answers' = Answers(root')

BothSpec == BothInit /\ [][BothNext]_<<vars, tree>>

-----------------------------------------------------------------------------
\* The tree in memory finds what the persisted tree finds, and its
\* find_last_less_then the greatest key below its argument that was not
\* removed, however many removed keys and leaves of removed keys lie between.
TreesAgree ==
    /\ \A k \in Keys : Memory!Lookup(k) = answers[k]
    /\ \A k \in Keys : Memory!LastLessThen(k) =
          LET below == {j \in Present : j < k}
          IN  IF below = {} THEN {} ELSE {Max(below)}

\* find_all walks the chain of leaves (nl) from the leaf of its first key: the
\* chain visits every leaf once, in the order of the keys, whichever leaf split.
LeavesAreChained == Memory!Chained(Memory!Ordered(tree.top)[1]) = Memory!Ordered(tree.top)
=============================================================================
