------------------------------ MODULE TreeStore ------------------------------
(***************************************************************************)
(* The tree of the file system on its device: TreeContext and FileSystem   *)
(* (file_system.cpp) over StorageBackendNodeStorage (backend_nodes.h),     *)
(* FreePileManager (free_pile.cpp), SequentialBlockAllocator               *)
(* (block_alloc.cpp) and the super block that ties them together           *)
(* (tree_fs_super_block.cpp).                                              *)
(*                                                                         *)
(* Leaves and inner nodes are appended to two chains of blocks.  A call    *)
(* makes its writes one after the other; the destructor of TreeContext     *)
(* then saves the super block, one step here because SuperBlock shows that *)
(* a save is atomic.  A mount starts from the super block and the device.  *)
(***************************************************************************)
EXTENDS TreeCache, BlockLayout

CONSTANTS Keys, Values,
          Starts,        \* sequences of keys the tree was filled with before
          NumBlocks,     \* blocks of the device
          NodeSize,      \* sizeof(serialized_head_t): all nodes take as much
          EntrySize,     \* sizeof(FreePileEntry)
          SavesPerBlock, \* sectors of a block of the super block chain
          MountBehind,   \* whether a mount may find an allocator state that
                         \* is older than the one the last object had
          MaxOps         \* bound of the model: calls

ASSUME StoreAssumption ==
    /\ Keys \subseteq Nat \ {0} /\ Values \subseteq Nat \ {0} /\ Values # {}
    /\ Starts \subseteq Seq(Keys)
    /\ NodeSize \in 1..(SectorSize - TailSize) /\ EntrySize \in TailSize..SectorSize
    /\ SavesPerBlock \in Nat \ {0, 1} /\ MountBehind \in BOOLEAN
    /\ {NumBlocks, MaxOps} \subseteq Nat

VARIABLES disk,    \* the blocks of the device
          ram,     \* [head, leaf, index, next, free]: tree_addr_, leaf_,
                   \* index_, block_ of the allocator, location_ of the pile
          sb,      \* the saved super block: [tree, leaf, index, next, free]
          chain,   \* where the super block and its two links are
          todo,    \* the writes the call in progress has yet to make
          after,   \* ram as that call leaves it; ram itself between calls
          adding,  \* the key and the value of that call, key 0 when it adds none
          content, \* what calls that ended put in: a value for every key, or 0
          calls

vars == <<disk, ram, sb, chain, todo, after, adding, content, calls>>

-----------------------------------------------------------------------------
(* Nodes on the device.  The children of a loaded node are the images of   *)
(* TreeCache with their address, [at |-> image, addr |-> address]; a child *)
(* that a call changed has none yet.                                       *)

RECURSIVE Loaded(_, _)
Loaded(d, a) ==
    LET node == d[a.block].at[a.position].node
    IN  IF node.depth = 0 THEN node
        ELSE [node EXCEPT !.kids =
                [i \in DOMAIN @ |-> [at |-> Loaded(d, @[i]), addr |-> @[i]]]]

\* What a write leaves behind: the end of the chain, the next block.
m_PastNode(a) == a   \* location = address without add(required)
PastNode(a) == Advanced(a, NodeSize)
NextBlock(place, next) == IF place.taken THEN next + 1 ELSE next

\* st is what serialize() keeps between nodes, and the writes made so far.
Serialized(st, node) ==
    LET list  == IF node.depth = 0 THEN "leaf" ELSE "index"
        place == FindAvailable(st[list], NodeSize, st.next)
    IN  [addr |-> place.at,
         st   |-> [st EXCEPT ![list]  = PastNode(place.at),
                             !.next   = NextBlock(place, @),
                             !.writes = @ \o place.writes \o
                                <<WriteEntry(place.at, [kind |-> "node", node |-> node])>>]]

\* Writes the node and the children without an address, those first.
RECURSIVE Stored(_, _)
Stored(st, node) ==
    IF node.depth = 0 THEN Serialized(st, node)
    ELSE LET below ==
                FoldLeft(LAMBDA acc, i :
                    IF "addr" \in DOMAIN node.kids[i]
                    THEN [acc EXCEPT !.kids = Append(@, node.kids[i].addr)]
                    ELSE LET kid == Stored(acc.st, node.kids[i].at)
                         IN  [st |-> kid.st, kids |-> Append(acc.kids, kid.addr)],
                    [st |-> st, kids |-> <<>>], [i \in 1..(node.n + 1) |-> i - 1])
         IN  Serialized(below.st,
                        [node EXCEPT !.kids = [i \in 0..node.n |-> below.kids[i + 1]]])

StoredTree(r, tree) ==
    Stored([leaf |-> r.leaf, index |-> r.index, next |-> r.next, writes |-> <<>>], tree)

\* FreePileManager::free: one more entry behind the last one.
Freed(st, block) ==
    LET place == FindAvailable(st.free, EntrySize, st.next)
    IN  [st EXCEPT !.free   = Advanced(place.at, EntrySize),
                   !.next   = NextBlock(place, @),
                   !.writes = @ \o place.writes \o
                        <<WriteEntry(place.at, [kind |-> "free", block |-> block])>>]

AfterCall(r, stored) ==
    [r EXCEPT !.head = stored.addr, !.leaf = stored.st.leaf,
              !.index = stored.st.index, !.next = stored.st.next]

m_AfterPiling(r, piled) == [r EXCEPT !.free = piled.free]   \* a block of the pile not counted
AfterPiling(r, piled) == [r EXCEPT !.next = piled.next, !.free = piled.free]

ApplyAll(d, writes) == FoldLeft(Apply, d, writes)

-----------------------------------------------------------------------------
(* Calls.  A call prepares its writes; Step makes one; Save ends the call. *)

Idle == todo = <<>> /\ after = ram

NoKey == [key |-> 0, value |-> 0]

BeginCall ==
    /\ Idle /\ calls < MaxOps
    /\ calls' = calls + 1
    /\ UNCHANGED <<disk, ram, sb, chain, content>>

\* TreeContext::add
AddKey(key, value) ==
    LET stored == StoredTree(ram, Added(Loaded(disk, ram.head), key, value))
    IN  /\ BeginCall
        /\ stored.st.next <= NumBlocks
        /\ todo' = stored.st.writes
        /\ after' = AfterCall(ram, stored)
        /\ adding' = [key |-> key, value |-> value]

\* m_Recreating: the chain of the leaves is carried on
m_Recreating(r) == [r EXCEPT !.index = NoAddress]

\* StorageBackendNodeStorage::recreate: both chains start over.
Recreating(r) == [r EXCEPT !.leaf = NoAddress, !.index = NoAddress]

\* FileSystem::gc: the whole tree is written to new chains, and the last
\* block of each old chain is put on the free pile; the other blocks of the
\* old chains are not.
Gc ==
    LET stored == StoredTree(Recreating(ram), Recreated(Loaded(disk, ram.head)))
        left   == (IF IsValid(ram.index) THEN <<ram.index.block>> ELSE <<>>)
                  \o <<ram.leaf.block>>
        piled  == FoldLeft(Freed, [free |-> ram.free, next |-> stored.st.next,
                                   writes |-> stored.st.writes], left)
    IN  /\ BeginCall
        /\ piled.next <= NumBlocks
        /\ todo' = piled.writes
        /\ after' = AfterPiling(AfterCall(ram, stored), piled)
        /\ adding' = NoKey

Step ==
    /\ todo # <<>>
    /\ disk' = Apply(disk, Head(todo))
    /\ todo' = Tail(todo)
    /\ UNCHANGED <<ram, sb, chain, after, adding, content, calls>>

SuperBlockOf(r, s) ==
    [s EXCEPT !.tree = r.head.block, !.leaf = r.leaf, !.index = r.index, !.next = r.next]

\* The sectors of the super block and its links after a save: each level
\* whose block is full moves to a new block.  The anchors take new sectors
\* in turn and need none.
FullLevels == {i \in DOMAIN chain :
                 \A j \in 1..i : chain[j].sector + 1 = SavesPerBlock}
Relinked(next) ==
    [i \in DOMAIN chain |->
        IF i \in FullLevels THEN [block |-> next + i - 1, sector |-> 0]
        ELSE IF i = Cardinality(FullLevels) + 1
        THEN [chain[i] EXCEPT !.sector = @ + 1] ELSE chain[i]]

\* TreeContext::flush, prepare, TreeFileSystemSuperBlockManager::save: the
\* state of the allocator is taken before the save allocates for itself.
Save ==
    /\ todo = <<>> /\ after # ram
    /\ after.next + Cardinality(FullLevels) <= NumBlocks
    /\ sb' = SuperBlockOf(after, sb)
    /\ chain' = Relinked(after.next)
    /\ ram' = [after EXCEPT !.next = @ + Cardinality(FullLevels)]
    /\ after' = ram'
    /\ content' = IF adding = NoKey THEN content
                  ELSE [content EXCEPT ![adding.key] = adding.value]
    /\ adding' = NoKey
    /\ UNCHANGED <<disk, todo, calls>>

\* FileSystem::mount of an object that was just made.
Mounted ==
    [head  |-> EndOfChain(disk, sb.tree, NodeSize).entry,
     leaf  |-> sb.leaf, index |-> sb.index, next |-> sb.next,
     free  |-> EndOfChain(disk, sb.free, EntrySize).available]

Mount ==
    /\ Idle /\ calls < MaxOps
    /\ MountBehind \/ Mounted.next = ram.next
    /\ IsValid(Mounted.head) /\ IsValid(Mounted.free)
    /\ calls' = calls + 1
    /\ ram' = Mounted /\ after' = Mounted
    /\ UNCHANGED <<disk, sb, chain, todo, adding, content>>

-----------------------------------------------------------------------------
(* FileSystem::format: blocks 3 and 4 for the journal and the pile, 5 to 7 *)
(* for the super block and its links, then an empty leaf.                  *)

\* What a block holds before it is used for the first time.
OldBlock == [head |-> [kind |-> "link", to |-> 1], tail |-> [kind |-> "link", to |-> 1],
             at   |-> [p \in 0..(BlockSize - 1) |-> [kind |-> "old"]]]

Journal == 3
Pile    == 4

Formatted ==
    LET blank  == [head |-> NoAddress, leaf |-> NoAddress, index |-> NoAddress,
                   next |-> 8, free |-> Address(Pile, SectorSize)]
        stored == StoredTree(blank, EmptyLeaf)
    IN  [ram  |-> AfterCall(blank, stored),
         disk |-> ApplyAll([b \in 0..(NumBlocks - 1) |-> OldBlock],
                           <<Erase(Pile), WriteHead(Pile, NoBlock)>> \o stored.st.writes)]

\* A file system that was formatted and given keys, up to a save.
FilledWith(keys, value) ==
    FoldLeft(LAMBDA s, key :
                LET stored == StoredTree(s.ram, Added(Loaded(s.disk, s.ram.head), key, value))
                IN  [ram |-> AfterCall(s.ram, stored),
                     disk |-> ApplyAll(s.disk, stored.st.writes)],
             Formatted, keys)

Init ==
    \E keys \in Starts : LET value == CHOOSE v \in Values : TRUE
                             start == FilledWith(keys, value)
    IN  /\ ram = start.ram /\ after = start.ram
        /\ disk = start.disk
        /\ content = [k \in Keys |-> IF k \in Range(keys) THEN value ELSE 0]
        /\ sb = SuperBlockOf(start.ram, [tree |-> NoBlock, leaf |-> NoAddress,
                                         index |-> NoAddress, next |-> 0, free |-> Pile])
        /\ chain = [i \in 1..3 |-> [block |-> 4 + i, sector |-> 0]]
        /\ todo = <<>> /\ adding = NoKey /\ calls = 0

Next ==
    \/ \E key \in Keys, value \in Values : AddKey(key, value)
    \/ Gc \/ Step \/ Save \/ Mount

Spec == Init /\ [][Next]_vars

-----------------------------------------------------------------------------
(* Properties.                                                             *)

Entry(a) == disk[a.block].at[a.position]

RECURSIVE Readable(_), BlocksOf(_)
Readable(a) ==
    /\ Entry(a).kind = "node"
    /\ Entry(a).node.depth > 0 =>
          \A i \in DOMAIN Entry(a).node.kids : Readable(Entry(a).node.kids[i])
BlocksOf(a) ==
    {a.block} \cup (IF Entry(a).node.depth = 0 THEN {}
                    ELSE UNION {BlocksOf(k) : k \in Range(Entry(a).node.kids)})

\* The tree that tree_addr_ names stays readable and unchanged while a call
\* writes the next one, write by write, until the super block is saved: what
\* it holds is what the calls that ended put there.
TreeIsKept ==
    /\ Readable(ram.head)
    /\ \A k \in Keys : Find(Loaded(disk, ram.head), k) = content[k]

\* Between two calls a mount finds what the object in use has in memory: the
\* root is the last entry of the chain that the saved block starts, which the
\* super block does not name, and so is the end of the free pile.
MountFindsAll ==
    Idle => [Mounted EXCEPT !.next = ram.next] = ram

\* What is written goes to erased flash: the next place of a chain, a block
\* that was erased for it, a tail that has no link yet.
WritesBlank ==
    todo # <<>> =>
        LET w == Head(todo)
        IN  CASE w.op = "erase" -> TRUE
              [] w.op = "head"  -> disk[w.block] = ErasedBlock
              [] w.op = "tail"  -> disk[w.block].tail = Blank
              [] w.op = "entry" -> disk[w.block].at[w.position] = Blank

PileEntries ==
    {e \in UNION {Range(disk[b].at) : b \in DOMAIN disk} : e.kind = "free"}
Piled == {e.block : e \in PileEntries}

\* A block that is erased holds no node of the tree, no entry of the pile and
\* no super block: the allocator gave it to nobody before
\* ("assert(allocations_.find(alloc.block) == allocations_.end())" in
\* DebuggingBlockAllocator).
ErasesNothingLive ==
    todo # <<>> /\ Head(todo).op = "erase" =>
        Head(todo).block \notin BlocksOf(ram.head)
                                \cup {chain[i].block : i \in DOMAIN chain}
                                \cup {Journal, Pile, ram.free.block, ram.leaf.block, ram.index.block}

\* A block on the free pile holds no node of the tree and gets no more of them.
FreedIsUnused ==
    Idle => Piled \cap (BlocksOf(ram.head) \cup {ram.leaf.block, ram.index.block}) = {}
=============================================================================
