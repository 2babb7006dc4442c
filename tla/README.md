# Verification of the phylum storage layer

TLA+ models of phylum, the flash and SD card storage library in `src/src`, with
the TLC configurations that check them on small instances and proofs that TLAPS
checks for every instance. Paths below are relative to the repository; line
numbers refer to the commit this project was written against.

## 1. The system

phylum stores data on media that are erased in blocks and programmed in sectors
(NOR flash), or emulates that on an SD card. It has one thread. What makes it
hard is not concurrency but power: a call may be cut off between any two storage
operations, the storage may report a failure for something it did carry out, and
whatever is in memory has to be recovered from what is on the medium. There are
two stacks:

* the *wandering block* stack used on serial flash: `SerialFlashAllocator`,
  `SuperBlockManager`, `Files`/`AllocatedBlockedFile`, `UnusedBlockReclaimer`;
* the *file system* stack: preallocated files (`FileLayout`, `FileTable`,
  `SimpleFile`, `FileIndex`) and the tree file system (`FileSystem`,
  `PersistedTree`, `BlockLayout`, `FreePileManager`, the sequential allocators).

### Inventory

| Component | State | Operations | Depends on | Hard behaviour | What makes it correct |
|---|---|---|---|---|---|
| `SuperBlockManager`, `BasicSuperBlockManager` | chain anchors → link → link → super block on the medium; `location_`, caller's copy | `locate`, `create`, `save` → recursive `rollover`, `walk`/`find_link` | storage, allocator | crash between the nested writes; erase of the anchor taken over; time stamps that wrap; failures that were carried out | one atomic durable cell; chain never erased or freed; `location_` is the newest |
| `SerialFlashAllocator`, `TakenBlockTracker` | heads on the medium; `map_`, `preallocated_` | `initialize`, `allocate`, `free`, `preallocate`, `is_taken`, `scan` | storage | blocks given out whose head is not yet written; stale map; ages | no block is given twice or lost; least worn first; what is called erased is |
| `UnusedBlockReclaimer` | `tracker_` | `walk`, `reclaim` | `SuperBlockManager`, files, allocator | map re-read behind the clients' backs | everything unreferenced comes back, nothing referenced is erased |
| `BlockedFile`, `AllocatedBlockedFile`, `Files` | chain of file blocks; `head_`, `buffer_`, `position_`, `pending_allocation_`, … | `format`, `write`, `flush`, `seek`, `read`, `walk`, `erase_all_blocks`, `exists` | storage, allocator | crash while a tail is linked; seek state left in the buffer; end of an extent | reads return what was written; what was flushed survives; no block leaks |
| `ExtentBlockedFile`, `SimpleFile` | an extent of consecutive blocks, `previous_index_block_` | as above, plus index upkeep | `BlockedFile`, `FileIndex` | end of the extent; index appended during a seek | as above, index agrees with the blocks |
| `FileIndex` | index blocks, `head_` | `format`, `initialize`, `seek`, `append` | storage | the search by halves over blocks of which `format` clears some; a new block before its first record | the record found is the last one not after the position |
| `FilePreallocator`, `FileAllocation` | `block_` | `allocate` | geometry | rounding of sizes | extents are disjoint and large enough |
| `FileLayout`, `FileTable` | table of allocations on the medium | `format`, `mount`, `open`, `erase` | the two above | crash during format | a mounted layout is the formatted one |
| `BlockLayout`, `FreePileManager` | chain of blocks with entries | `append`, `write_head`, `find_tail_entry`, `walk`; `free`, `allocate` | storage, allocator | tail entry at a block boundary | appended entries are found again, in order |
| `PersistedTree`, node cache, `BPlusTree` | copy-on-write nodes on the medium, bounded cache | `add`, `find`, `remove`, `recreate` | `BlockLayout`, allocator | cache at its limit; new head only valid once flushed | a map; old roots stay readable |
| `FileSystem`, `OpenFile`, `TreeFileSystemSuperBlockManager` | super block with tree head and allocator state, open files | `mount`, `open`, `write`, `close`, `gc`, `unmount` | all of the above | allocator state in the super block older than the blocks in use | files survive; no block is allocated twice after a mount |
| `SequentialBlockAllocator`, `QueueBlockAllocator`, `DebuggingBlockAllocator` | next block, queue | `allocate`, `free`, `state` | geometry | state restored from the medium | no block is given out twice |
| `SectorCachingStorage` | one cached sector, dirty flag | `read`, `write`, `erase`, `flush` | another storage | an erase under a cached sector | same answers as the storage without a cache |
| `LinuxMemoryBackend` | memory image, log | `erase`, `write`, `read` | – | verifies that writes go to erased bytes | – |
| `ArduinoSdBackend`, `sd_raw` | state of the card and of the SPI session | `initialize`, `erase`, `read`, `write` | SPI | time-outs, busy card, half-finished commands | every command ends; no command is issued to a busy card |
| `ArduinoSerialFlashBackend` | – | pass-through to a vendor library | – | – | – |

A client calls a component, which calls the allocator and the storage; the only
callbacks are block visitors (`BlockVisitor::block`) during `walk` and `seek`.
`assert` resets the device in the field builds, so a failed assertion is
modelled like a loss of power.

## 2. The modules

Every model follows the same conventions. One step is one storage operation,
together with the computation around it, because that is the grain at which
power can be lost. Memory is lost at a reset and the medium is kept. Erases can
be torn (some sectors cleared); a sector write is atomic. "May fail" means that
the storage reports a failure, whether or not it did what it was told. Counters
that end in a `Max…` constant bound a run and model nothing. Definitions marked
*Mutant* are wrong on purpose; nothing uses them, they exist to show that
a property notices.

| Module | Models |
|---|---|
| `LinkChain` | sectors, links and how they are read: `find_link`, `walk`, `locate` as definitions |
| `LinkScan` | the loop of `find_link`, sector by sector, shown to compute what `LinkChain` says |
| `SuperBlock` | `locate`, `create`, `save` and the recursive `rollover`, with power loss and failures |
| `AtomicStore` | the abstract specification: a single cell that changes atomically |
| `SuperBlockStore` | the refinement mapping from `SuperBlock` to `AtomicStore` |
| `SerialFlashAllocator` | the allocator, its clients and the reclaimer |
| `BlockedFile` | one file as a chain of blocks, from the allocator or in an extent, with power loss and failed writes |
| `TreeNodes`, `TreeCache` | what a call does to the nodes of the search tree, in the slots of the node cache |
| `Dictionary` | the abstract specification of a tree |
| `PersistedTree`, `BPlusTree` | the copy-on-write tree, and the tree in memory it was derived from |
| `SearchTrees` | both given the same calls |
| `Addressing`, `BlockLayout` | addresses, and entries appended to chains of blocks |
| `TreeStore` | the tree on its device: node storage, free pile, allocator, super block, mount |
| `OpenFile` | the files of the tree file system, with its allocator and mounts |
| `FilePreallocator` | the division of a volume into extents |
| `IndexedFile` | an extent with its index: format, binary search, walk, append |
| `FileLayout` | volumes of preallocated files, write by write, with power loss |
| `SuperBlockChain` | the invariant of the super block chain as a whole |
| `BlockedFileChain` | the invariant of a file in blocks from the allocator |
| `OpenFileChain` | the invariant of the files of the tree file system |
| `SuperBlockChainProofs`, `SuperBlockStoreProofs`, `LinkScanProofs`, `SerialFlashAllocatorProofs`, `BlockedFileProofs`, `OpenFileProofs`, `FilePreallocatorProofs` | the theorems |
| `Inductions` | induction over numbers, for the proofs |
| `MCSuperBlock`, `MCSuperBlockStore`, `MCSearchTrees`, `MCTreeStore`, `MCOpenFile`, `MCFileLayout` | instances for TLC |

### SuperBlock

`flash[b][s]` is the record in sector `s` of block `b`, or `Erased`: a sector has
no other contents here because the manager writes one `SuperBlockLink`, followed
by the super block, at the start of a sector. `free` is the allocator's map,
`sb` and `location` are the caller's copy and `location_`. `calls` is the stack
of active `rollover` calls (`PendingWrite`, the address it starts from, the
relocated address and a program counter); `creation` unrolls the two loops of
`create`. The actions `NextSector`, `SwapAnchor`, `AllocateNext`, `EraseTarget`,
`WriteTarget`, `Relink`, `FreeErases`, `FreeMarks` and `RolloverReturns` are the
pieces of `rollover` in program order; `EraseFails`, `WriteFails`, `LinkLost` and
`FreeFails` are its early returns; `Crash`, `CrashInErase` and `OutOfBlocks` (the
assertion in `allocate_internal`) reset the program. The allocator is
nondeterministic: it hands out *any* free block, blank blocks possibly as
erased. What it really picks is the subject of `SerialFlashAllocator`. Because of
that, blocks of the pool are interchangeable and the configurations may use
symmetry; the anchors are not in the set that is permuted, and the one
configuration with a liveness property does without symmetry.

Left out: reads that fail (the code treats most of them as "not found"), and a
sector write cut in the middle — there is no checksum over a link, so nothing
in the code could tell.

### SerialFlashAllocator

Heads are all the allocator reads: `NoHead` (invalid magic) or taken/free with an
age; `blank` are the blocks erased throughout. A client is anything that was
given a block: `fresh` (given, head not yet written) and `held`. `free`,
`preallocate` and `reclaim` take several storage operations each; `task` says
how far they are. `Scan` and `TakeBlock` are the two selection loops, including
their different treatment of a block without a head.

### BlockedFile

`sectors[b][s]` says how many bytes sector `s` of block `b` holds and, instead of
the bytes, the position in the file the first of them was written at and the
`life` of the file it belongs to: contents are told apart by where they belong.
`Stale` sectors are what an earlier user left behind. `file` is the object
(`head_`, `buffer_`, `buffpos_`, `buffavailable_`, `seek_offset_`,
`bytes_in_block_`, `position_`, `pending_allocation_`), `call` is how far the
running call has come, and `start`, `life`, `durable` are what the client knows:
where the file begins and how much of it was reported as flushed.

`seek` and `walk` only read the medium, so they are operators: `SkipBlocks` goes
from tail to tail, `SeekFrom` continues sector by sector (`Stops`), `Visited` are
the blocks reported to a visitor. `Write`, `FillFlushes` and `FillBuffer` are
the loop of `write`; `Saving`, `Allocate`, `BeginErases`, `BeginBlock`,
`WriteSector` are `save_sector`; `EnterBlock` is the second `initialize` of the
block, in `flush`, and the one in `format`. `EraseAllBlocks`, `FreeErases` and
`FreeMarks` are `erase_all_blocks` with the allocator's `free`; `EraseExtent` is
`SimpleFile::erase`. `OpenToWrite` and `OpenToRead` stand for constructing the
object, `exists()` and the seek that comes with opening. The constant `Extent`
chooses between the two allocators, `Whole` and `WithinBlock` are the two flags of
`write` (`span_sectors`, `span_blocks`) reversed; a client chooses one value of the former, in
`whole`, and keeps to it, as the callers in the repository do.

One file is open at a time; others are the subject of `SerialFlashAllocator`. The
client gives a file up before it has its blocks freed, so that the order in
which they are freed does not matter. `initialize` that fails is taken for the
assertion `flush` makes of it, hence for a reset. Reads succeed, sector writes
are atomic, file ids and versions are left out, and `SimpleFile` always seeks from
the beginning, as it does without entries in its index; with them it is part of
`FileLayout`.

`erase` resets the object but not `pending_allocation_` (`blocked_file.cpp:485`): in the mode
that saves after every write, a file erased while a tail is pending keeps a block that it
has just freed. The model keeps it, too. It does no harm, because the new file
starts in the first of at least two data sectors, and the flush of a sector that is not a tail
forgets what is pending (`:394`).

### The trees

A change of a `PersistedTree` never overwrites a node. It loads the nodes on the
path to a leaf into the slots of `MemoryConstrainedNodeCache`, changes them there
and writes them at new addresses. An address is therefore modelled by its *image*,
the node that was written there, and a tree by the image of its root; nodes have
arrays that start at 0 and keep what unused places held, as in the code, since
`leaf_position_for` and `remove` may look at it. `LoadChild`, `FlushSlot` and
`HeadSlot` are the cache; `LeafInsert`, `InnerInsert`, `InsertBelow` the recursion
of `add`; `FindLessThen` with `RewindPosition` the search that climbs back. The
constant `Width` is both template parameters `N` and `M`. `BPlusTree` has
the same nodes in a heap, with the chain of leaves that only it keeps.
`SearchTrees` gives both the same calls; it is also where the persisted tree is
shown to implement `Dictionary`.

Left out: `accept()` and visitors, the change tracker of `BPlusTree`, and nodes
that cannot be read (`load()` ignores the result of `deserialize`). Key 0 stands
for "no split" and is unusable; no caller uses it. `remove()` looks at the place
behind the last key of a full leaf (`persisted_tree.h:346`), which is outside the
array: the model takes it as not equal.

### TreeStore

Nodes are appended to two chains of blocks, one of leaves and one of inner nodes;
`FindAvailable`, `Linked` and `Begun` are `BlockLayout::find_available`, and each of
the writes it makes (erase, head, tail, entry) is one step. A call of `TreeContext`
(`AddKey`, `Gc`) computes its writes, `Step` makes one, `Save` is the destructor:
`tree_addr_`, `prepare` and the save of the super block, which is one step because
`SuperBlock` is shown to be atomic. What matters of the super block chain here is
the number of blocks it allocates, which `FullLevels` counts. `Mount` starts from
the super block and the device: the root is the last entry of the chain that the
saved block starts (`find_head`), and so is the end of the free pile. Blocks hold
something old before they are erased for the first time.

A mount comes between calls only. Within a call it would take the node that was
written last for the root, whatever it is, because a super block names a block and
not a node; the code has nothing to tell them apart. `MountBehind` says whether a
mount may find an older state of the allocator, see the disagreements below.
Storage failures are left out. The free pile is only ever added to: no code takes
a block from it. `recreate` puts the last block of each old chain on the pile and
forgets the others.

### OpenFile

Two levels up, the tree is a function from `<<file, position>>` to addresses and
changes in one step. `disk[b][s]` is a sector with its data, its link and the number
of bytes of its block; the n-th byte of a file is the number n, so that a byte
tells where it belongs. `open[h]` are the `OpenFile` objects with `head_`,
`buffer_`, `buffpos_`, `available_`, `bytes_in_block_`, `blocks_since_save_`,
`position_` and `length_`; several are open at a time and share the allocator.
`Walk` is the private `seek`: `SkipBlocks` goes from tail sector to tail sector, as a
recursive function of the number of links followed; then `Stops` says at which sector in
front of the tail the loop ends. Where it ends at none, the loop comes to the tail and starts
over at the first sector; `Rest` is what that leaves of `max`, in closed form. `Sought` is the
public `seek`, which starts the walk at the greatest saved position below. `Flushed` is `flush`, with the
allocation of the next block, the link, and the saved position that the tree is told of every
`PositionSaveFrequency` blocks, which also saves the super block. `Mount` restores
the allocator from it.

Calls are single steps: power loss within one is not modelled, and neither are
storage failures and colliding file ids (a CRC-32 of the name). Where the code goes
wrong, the model has a condition, named in `Allowed`; the constant `Beyond` lists
the conditions that a run does not keep to. See below for what happens then.

### FilePreallocator, IndexedFile, FileLayout

`FilePreallocator` divides a volume; blocks are counted modulo `Width`, as
`uint32_t` does. `IndexedFile` has the operators over one extent: `IndexFormat`,
the binary search over the heads of index blocks (`Search`), the walk over records
(`Records`, which never reads the last record of a block because it wants room for
two), the record that is selected (`Selected`), `Appended`, and the part of
`BlockedFile::seek` that goes from there (`Walked`). `FileLayout` is the state
machine: `AllocateFile` and `WriteLayout` are `FileLayout::format`, then `Mount`,
`Unmount`, `EraseFile`, `Open`, `Seek`, `Write` and `Close`. A call changes the objects
at once and leaves its writes in `todo`; `Step` makes one and `Crash` may come
between any two. `broken` has the files that did not survive one: three moments in the
life of a file are such (`Breaks`). Nothing is promised of a broken file, and it is not opened, until
it is formatted again; the others are in use as ever. Positions are counted in sectors, one of which is the buffer.
A sector tells the file, the life of the file and the place it was written for.

Positions have no width: `FileIndex::append` takes its position in 32 bits and
`BlockedFile::seek` counts in `int`, so that what is shown is about files shorter than 2^31 bytes.
The last block of an extent is not filled (`BlockedFile` has that case), one file
is open at a time, the table is one block because its allocator has no second, and
of readers only their upkeep of the index is modelled.

## 3. What is checked

Run a configuration with `tlc -config X.cfg Module`.

| Configuration | Module | Question | Bounds |
|---|---|---|---|
| `SuperBlockLife` | `MCSuperBlock` | Does a long life keep the chain in order, leak nothing and change what is found in single writes? `NewestIsLast`, `ParentIsFound`, `NoBlockLeaks`, `ChangesAtOnce` | 2 sectors per block, 18 saves, 1 loss of power |
| `SuperBlockCrash` | `MCSuperBlockStore` | Is the chain an atomic cell when power is lost and the storage fails? `ActsAsStore`, `ChainIsKept`, `WriteAhead`, and the proof's invariant `SuperBlockInv` | 1 sector per block, 2 saves, 1 loss of power, 1 failure, 7 blocks |
| `SuperBlockReturns` | `MCSuperBlock` | Do `save` and `create` end, under `FairSpec`, and does `create` over a used volume win? `CallsReturn`, `CreateIsFound` | 1 sector per block, 1 save, 1 format, 6 blocks, so that the other anchor is newer when `create` starts, and the pool also runs dry in the middle of a call; no symmetry |
| `Allocator` | `SerialFlashAllocator` | Is every block in exactly one place, and is the least worn given out? `OnlyUnheldIsOffered`, `NoBlockIsLost`, `LeastWornIsOffered` | 7 blocks (4 in the pool), ages up to 1, 2 preallocations, 1 reclaim, 1 restart, 1 failure |
| `FilePool` | `BlockedFile` | In blocks from the allocator: is what was flushed found, at its place, whatever happens? `NothingFlushedIsLost`, `EveryByteIsFound`, `ReadsWhatWasWritten`, `WritesErasedSectors`, `NoBlockLeaks` | 3 blocks with 2 bytes in a sector and 1 in the tail, 7 bytes in writes of 1 and 3: the file grows into its third block; 2 lives, both write modes, 1 loss of power, 1 failure |
| `FileExtent` | `BlockedFile` | In an extent: is it filled, do writes that may not span sectors stay whole, do all calls end, under `FairSpec`? `RecordsAreWhole`, `FullFileUsesExtent`, `CallsReturn` | 2 blocks with 3 bytes in a sector and 2 in the tail, hence 10 bytes, and writes of 2 up to byte 12; 2 lives, 1 loss of power, 1 failure |
| `SearchTrees` | `MCSearchTrees` | Are the trees dictionaries, do they agree, is the key below found, does the cache suffice? `ActsAsDictionary`, `TreesAgree`, `SeekFindsPredecessor`, `CacheHasRoom` | nodes of 3 keys, 11 keys, 2 values; trees of up to three levels filled with up to ten keys in ascending and descending order, then any 3 calls |
| `TreeStore` | `MCTreeStore` | Does the tree of the last save stay readable, is it found by a mount, do writes and erases keep off what is in use? `TreeIsKept`, `MountFindsAll`, `WritesBlank`, `ErasesNothingLive`, `FreedIsUnused` | 3 entries in a block, nodes of 3 keys, 6 keys, trees of one and two levels, then any 4 calls; a super block chain that rolls over at every second save |
| `OpenFile` | `MCOpenFile` | Are ends and positions found, do reads return what was written, do files keep apart? `SeekFindsEnd`, `SeekFindsByte`, `ReadsWhatWasWritten`, `BlocksAreNotShared`, `AppendsOnly` | 2 files, 2 handles (symmetric), 5 blocks of 5 bytes, a saved position every 2 blocks, 12 bytes in both files, 3 opens and mounts |
| `FileLayout` | `MCFileLayout` | After a loss of power anywhere, do files that it did not break open, is every position found through the index, is the seek short, are lengths right? `FilesAreApart`, `FilesOpen`, `SeekFindsPlace`, `SeekIsShort`, `LengthIsWritten` | 24 blocks, a file with an index of 4 blocks of 3 records and one with what is left, 13 sectors in writes of 1, 2 formats or erases, 1 loss of power |
| `FileFull`, `TreeStoreBehind` | `BlockedFile`, `MCTreeStore` | two disagreements between the code and what it or its tests say, see below | |

Deadlock is not checked in these configurations: with no call left in the bound
the program is at rest, which is what it does when nobody calls it.

**Why the bounds are enough to be interesting.** With one sector per block each
save recurses through all levels and takes over the other anchor, so that power
can be lost and a failure be reported at every program counter at every depth.
Seven blocks are what it takes for a save to start from the stale place that a
failed save leaves behind: three in the chain, three left over, one more to fill.
With two sectors the levels fill at different times: the 16th save is the first
to take over an anchor, so 18 saves see every combination of levels roll over,
and the saves after it. Contents only matter up to equality, and every save
writes a new one. `ChangesAtOnce` is the
part of `ActsAsStore` that says what may happen to the contents; the full
refinement evaluates several walks in every step, so it is left to the shorter run.

In `SearchTrees` a tree of ten ascending keys has full nodes at every level, so that
one call splits all of them and the root; the fill orders are those that leave
nodes half full on the one or on the other side. In `TreeStore` four calls after
a tree of two levels fill the blocks of leaves, of inner nodes and of the free pile,
collect garbage in between and mount in between. In `OpenFile` twelve bytes are more
than two blocks, the distance of saved positions. In `FileLayout` thirteen sectors
put seven blocks into the data and, with what seeks append, records into all four blocks of the index,
whose halves are searched in different orders. The second life of a file meets what
the first one left in its blocks and in the index, in the blocks that `format` has cleared and in the
one that it has not, up to where a search would come to that one.

**Stated, true in these instances, and not part of a run.** The configurations are
kept to the properties that say most. The modules state a few more that hold in the
same instances when they are added: `LocatedIsSuperBlock`, `LocationIsNewest`, `ChainInv`,
`NothingLeaks` (`SuperBlockLife`) and
`WritesErasedSectors` (`SuperBlockCrash`), `SetAsideIsBlank`, `LeastWornAreSetAside`,
`ReclaimIsComplete` and `AgesNeverFall` (`Allocator`), `LeavesAreChained`
(`SearchTrees`), `LengthIsSize` (`OpenFile`, also proved), `RecordsAreTrue` and
`IndexKeepsItsStart` (`FileLayout`), and the type invariants `TypeOK`.
`ScanFindsLink` is proved for every instance. `FileInv`, the invariant of the proofs about
`BlockedFile`, holds in `FilePool`, too; to check it, the chain has to be computed from the
links, since there are too many for TLC to try each.

**Fairness.** `FairSpec` adds `WF_vars(Step)`: one thread runs a call, once made,
to its end. Calls, losses of power and failures are never forced. In particular
`CallsReturn` counts the reset after an exhausted pool as an end.

**What holds only under conditions.** `LocationIsNewest` excludes the time after a
call that reported a failure (the next `save` then continues from a stale place,
which `ActsAsStore` and `ChainIsKept` show to be harmless). `NoBlockLeaks` excludes power loss,
failures and reformatting, after which blocks stay taken until the reclaimer
runs. `NoBlockIsLost` excludes a failure, and a second `preallocate` before the
first one's blocks are used up, until the map is next read. A
volume is reclaimed only while nothing is set aside: otherwise `OnlyUnheldIsOffered`
fails, because `reclaim` ends with `initialize`, which marks every block without a
taken head as free, among them the blank blocks that `preallocated_` still lists,
and both may then be given out (`unused_block_reclaimer.cpp:27`,
`serial_flash_allocator.cpp:56-66`). No caller in the repository combines them.

Files in blocks from the allocator are not appended to again after a reset
(`Reopens` stops at "until reset"), because of the unbegun block below.
`NoBlockLeaks` of `BlockedFile` excludes power loss and failures.

### Disagreements between the code and what it says

Two have a configuration.

* `TreeStoreBehind`: `save` takes the state of the allocator and then lets
  `rollover` allocate (`tree_fs_super_block.cpp:40`, `super_block_manager.cpp:231`).
  The super block records the allocator from before its own block was handed out; after a
  mount the tree is given that block and erases it. For `create` the code says that
  "creating the super block layout requires allocating, which changes allocator
  state" (`:50-51`) and takes the state last.
* `FileFull`: a seek to the end does not count a tail sector that has been written
  (`blocked_file.cpp:133`). The size of a full extent is too small, and an append would overwrite
  its last sector.

The others are reproduced by changing constants of a configuration and checking
the invariant that is named.

* `WrapAroundIsFollowed`, in `SuperBlockLife` with `TimestampInvalid = 9`, 12 saves
  and no loss of power: the comment at `super_block_manager.cpp:108-112` says that
  `find_link` copes with stamps that wrap around. It does within one block. When,
  after the wrap, a level has moved to a fresh block, its small stamps are
  compared with the large one of the level above (`:113`) and the super block
  that was saved is not found.
* `MountedIsSuperBlock`, in `SuperBlockCrash` with `MaxFormats = 1` and no failure:
  `create` overwrites both anchors "so an older one doesn't
  confuse us" (`:167`), but one after the other. Power lost in a `create` over a
  volume in use can leave an older anchor, and the next `locate` succeeds on
  a sector that is not a super block.
* `LinkedBlocksAreBegun`, in `FilePool` with `Reopens = "always"`, one mode ("write"), one life and no
  failure: `save_sector` begins the next block before it writes the link to
  it, and asserts so (`blocked_file.cpp:361`). `flush` then begins the block
  again (`:422`), which erases it. Power lost before the head is back leaves
  a linked block that the allocator takes for free after a restart.
* `StopsAtTheEnd`, in `FileExtent` with `Whole = {TRUE}`, `Spec`, one life, no loss of power and no failure:
  "If we're at the end then don't try and write more" (`:318`) is not
  looked at by writes that may not span sectors (`:309`). They are buffered
  behind the end, and the flush erases the first block of the extent.
* `SeekFindsLocation`, in `OpenFile`: a seek "to find the actual location"
  (`file_system.cpp:326-327`) finds another one when the byte in front of the position is in
  a tail sector. So it is at the end of every full block, because a block is skipped only
  when `max` is greater than what it holds (`:263`). The walk takes off what the sectors in
  front of the tail hold, comes to the tail with a few bytes left, and looks for them in the
  first sector. `SeekFindsByte`, in the passing run, says what is right for every position: the
  position that is returned and the block, and in it the sector and offset except there
  (`BehindTail`).
* `IndexEndIsFound`, in `FileLayout` with `Beyond = {"stale"}` and no loss of power:
  `IndexBlockLayout::format` erases the middle blocks of the first halves of the index "so that we
  know the index hasn't been written to them yet" (`file_index.cpp:53-55`), and not the
  others. The index of a new life grows to its middle block; the search for its end goes on behind
  that and comes upon a head of the life before, and takes the end of the old records for
  the end of the index.
* `LengthIsWritten`, in `FileLayout` with `Beyond = {"repairs"}`: `seek` tells its visitor of
  a skipped block with the position behind it (`blocked_file.cpp:125-148`), and
  `SimpleFile::block` appends that pair to the index (`simple_file.cpp:155-167`). The
  record gives a block the position of the next one, and the next open takes the file
  for a block longer than it is. The passing run keeps to repairs at the end of
  the file (`RepairsTheEnd`).

**Conditions of `OpenFile`.** With one of these in `Beyond` the named property fails.

* "tail" (`SeekFindsEnd`): when the file ends in front of a tail sector that is not
  written, the walk goes past the last sector to the tail sector and from there to the
  first sector again, counting the bytes of the block once more, as often as `max` allows.
* "append" (`SeekFindsEnd`): a file that is opened to append in the middle of a block
  starts with `bytes_in_block_` 0, so that the tail it writes counts too few bytes.
* "seek" (`ReadsWhatWasWritten`): a seek leaves `buffpos_` and `available_` as they
  were, and `head_` inside of a sector; the next read returns other bytes. Reads after a seek
  into the file are left out for that reason, and with them the wrong sector that `SeekFindsLocation` is about.
* "mount" (`BlocksAreNotShared`): the super block is saved when the tree changes, every
  `PositionSaveFrequency` blocks; blocks handed out after that are handed
  out again after a mount.

**Conditions of `FileLayout`.** Power may be lost at any moment; a file is `broken` by it in three
cases, and with the name of one in `Beyond` it counts as whole then. "format": before the last write
of its format, the first record of the index. `FilesOpen` fails,
because `FileIndex::initialize` asserts that it finds a block. "unbegun":
between the link to a block and the head of it, in its second beginning. `FilesOpen` fails, because a
file does not open at a block without a head. "unrecorded": between the head of
a new block of the index and its first record. `SeekFindsPlace` and `LengthIsWritten` fail,
because a seek then starts from the beginning of the extent, which is not
where the file begins in its second life. The promises are
kept again once the file is formatted; they are kept of the other file all the while, also
when it was the format of the volume that was cut, if its table is complete.

With "stale" in `Beyond` the index grows over what `IndexEndIsFound` is about (`GrowsOverNew`), and
`SeekFindsPlace`, `FilesOpen` and `LengthIsWritten` fail as well. With "repairs", see above.

With `Sizes = {1, 3}` the other four invariants of `FileLayout` hold (741135 states), and `SeekIsShort` fails:
whether a record is due is decided from the block that a write ends in
(`simple_file.cpp:58-60`), and a write over several blocks jumps over the one where it was. Positions are
found nevertheless, in longer seeks.

**Conditions of `BlockedFile`.** Four more show when its constants are set accordingly.

* When only the tail sector of the last block is unwritten, a seek past the end
  succeeds, because the count of an erased tail, 65535, is taken for one. The
  test `SeekingPastEndOfEmptyFile` expects such a seek to fail. `SeekStopsAtEnd` states it.
* `seek` replaces `buffer_` but not `buffpos_` and `buffavailable_`; the next `read`
  returns bytes of another place. With `SeekBuffered` set, `ReadsWhatWasWritten` fails.
* "Don't let writes span blocks" (`:283`): one flush goes on to the next sector, not
  to the next block. With `WithinBlock` set, `WritesStayInBlock` fails (sectors of 2 bytes
  and 1 in the tail, writes of 2).
* `SimpleFile::erase` seeks before it formats, and the extent's `allocate` gives the
  block after the one the seek ended in. After an erase the file no longer has
  `maximum_size()` bytes: `StartsItsExtent` fails in an extent with two lives.

## 4. What is proved

`tlapm M.tla` checks a proof module. Nothing is assumed beyond the `ASSUME`s of
the modules and, as hypotheses written into the theorems, `OneLife` for the promises of the
super block chain (with `PoolSuffices` for one theorem), `InPool` for those of a file in blocks and
`KeepsTo` for those of the tree file system. All theorems hold for any number of blocks,
sectors, saves, files, losses of power and failures.

### The allocator (`SerialFlashAllocatorProofs`)

* `AllocatorIsInvariant`: `Spec => []AllocatorInv`.
* `NobodysBlockIsOffered`, `EveryBlockIsAccountedFor`, `WearIsLeveled`: the three
  invariants of the configuration `Allocator`.
* `ErasedIsBlank`: what `preallocated_` lists as erased is erased throughout.
* `ReclaimIsCompleteAlways`: a `reclaim()` in which nothing failed leaves on the
  map exactly what nobody holds.
* `AgesNeverFallAlways`: while only `free()` erases and power stays on, the age of a block
  never decreases, although it is off the medium between the erase and the next head.

*The argument.* A block is in one place (`OnePlaceEach`): on the map, in a slot, in the hands of
a client, or in the middle of `free()`. That alone is not inductive, because a restart
and `reclaim` read the map again from the heads: `HeadsAgree` says that the map never
has a block whose head says taken and that what is held does, `SetAsideIsBlank` that a
slot's block has no head that contradicts it. `Preallocating` and `Reclaiming` say how far
the two long calls are: that what `preallocate()` has still to choose from is free (it
works on a copy of the map), and that what `reclaim()` has still to erase is taken and
unused. `LeastWornIsOffered` needs an induction over the selection loop of `scan()`:
`SelectIsLoop` and `LoopKeeps`.

### The super block chain

About the nested calls (`SuperBlockChainProofs`), without hypotheses:

* `SuperBlockIsInvariant`: `Spec => []SuperBlockInv`, type correctness together
  with the inductive invariant of the nested calls of `rollover`.
* `LinksAreWrittenAhead`: `Spec => []WriteAhead`. While a link to a block is
  being moved, at every depth, the block holds exactly what it should.
* `WalkIsSound`: a walk ends nowhere, or in a link some sector really holds.
* `ScanIsCorrect` (`LinkScanProofs`): the loop of `find_link` computes the definition the
  chain modules use, for any contents and number of sectors.

*Why `SuperBlockInv` has the parts it has.* `WriteAhead` alone is not inductive: a
nested `rollover` erases and writes blocks, and one has to know that it never
touches the block an outer call has filled. `Waiting` says that an outer call's
block is taken, filled and otherwise blank. `TopReady` says the same of the
running call as far as it has come. `Apart` says that nested calls neither start
from nor move to a block that an outer call has filled. `Chained` says that each
call writes the link to the block of the call around it. The step that needs all
of them is `Relink`, which searches the chain for the block that was left:
whatever `walk` finds is written in some sector and names that block. Were it in a
block just filled, it would be the one link that block holds; that link names
the block filled by the call around it, which by `Apart` is not the one left. So
the nested call works elsewhere.

About `create` (`SuperBlockChainProofs`), without hypotheses:

* `CreatedIsFound`: `Spec => []CreateIsFound`. The `locate` that follows `create` finds what
  it wrote, over whatever was on the medium. It rests on `Preparing`: each block that was
  prepared holds one link, to the one before, and the anchors are overwritten last.

About the chain as a whole (`SuperBlockStoreProofs`), each under `OneLife`:

* `ChainIsInvariant`: `Spec => []ChainInv`.
* `ChainStaysKept`, `NewestStaysLast`, `ParentStaysFound`, `StoredChangesAtOnce`: the
  properties `ChainIsKept`, `NewestIsLast`, `ParentIsFound` and `ChangesAtOnce` of the
  configurations.
* `ChainIsAtomicStore`: `Spec => ActsAsStore`, the refinement. Every behaviour of the nested
  calls, with every loss of power and failure, is one of a single cell that changes atomically.
* `LocationStaysNewest`, `SuperBlockIsLocated`, `SectorsWrittenAreErased`: `location_` is the
  newest unless a failure was reported; what `locate` succeeds on is a super block; writes
  go to erased sectors only.
* `NoBlockEverLeaks`: `Spec => []NoBlockLeaks`, under `OneLife` and `PoolSuffices`: while nothing
  goes wrong the blocks that are not free are those of the chain, after every save.

*`OneLife`* is `MaxFormats = 0 /\ MaxSaves + 5 < TimestampInvalid`: the volume is created
once, and its 32-bit stamps, of which a save uses one, do not wrap. The configurations
`SuperBlockLife` and `SuperBlockCrash` are instances of it. Without its parts the
promises are false, as section 3 says: after a wrap a saved super block is not found
(`WrapAroundIsFollowed`), and power lost in a `create` over a volume in use leaves an
anchor that leads nowhere (`MountedIsSuperBlock`).

*The argument.* `IsChain` says what a volume in order looks like: four blocks, one per
level, in each of which the sectors up to the tip are written with growing stamps and the
rest is erased; each tip names the block below and is older than the tip there; and
all stamps of the other anchor are older. Then `walk` goes through exactly the tips (`ChainIsWalked`
and its kin), and one kind of write matters, the write of a link behind a tip, or in a fresh block
whose link was written ahead: it gives a chain again. A save has two halves.
`Climbing`: until its one switching write the chain is the old one, each call works on the
level above the one that called it, its stamp is newer than that level's tip, and the blocks
it has allocated are not in the chain. `Descending`: after it, the chain is the new one, its
tips are what the calls were to write, and what each call will free is no longer in it.
`WriteAhead` is what makes the switch: the block a link is moved to already holds what it
should, at every depth, so that one write brings in all of them. `Resting` says where
`location_` may be after a failure: at the newest super block (`Accurate`), one
sector behind it (`Behind`: the write was reported as failed but done), or in a full block
that was left (`Astray`). The next save then starts from there, and `rollover` from the two latter
has to be shown harmless; `Astray` is possible at the outermost call only.

*No leak.* `NoBlockLeaks` speaks of the moments between calls. `NothingLeaks` says of every
moment what is in use: the chain; on the way up also the blocks that calls have moved to; on
the way down those that calls have left, and in `create` those set up so far. The switching
write exchanges the second for the third, block by block, which needs that the calls stand on
the tips of the chain, and that these are in different blocks. `PoolSuffices` says that the
pool has at least six blocks: three for the chain and three for a save that rolls over at
every level, which frees nothing before it has switched. It cannot be dropped: with five,
TLC finds the save that runs out at the third level; the allocator asserts, and the two
blocks that the save had filled stay taken.

### Files in blocks from the allocator (`BlockedFileProofs`)

Each under `InPool`:

* `FileIsChain`: `Spec => []FileInv`.
* `FlushedIsKept`, `BytesAreFound`, `ReaderReadsWhatWasWritten`, `SectorsAreErased`,
  `NoBlockEverLeaks`: the five invariants of the configuration `FilePool`,
  `NothingFlushedIsLost`, `EveryByteIsFound`, `ReadsWhatWasWritten`, `WritesErasedSectors` and
  `NoBlockLeaks`, for any geometry, sizes of writes, length of the file, number of lives, losses
  of power and failures.
* `SavesSomewhere`: the storage is never given an invalid address, so that its assertion
  (`WriteNowhere`) does not fail.

*`InPool`* is `~Extent /\ Reopens # "always" /\ ~SeekBuffered`: the file takes its blocks from the
allocator, it is not appended to again after a reset, and a reader does not seek while
its buffer is partly used. `FilePool` is an instance. Without the second and third part
promises fail (`LinkedBlocksAreBegun` and the seek under *Conditions of `BlockedFile`*), without
the first the end of the extent comes in (`FileFull`).

*The argument.* `FileInv` exhibits the file on the medium as a chain (`IsChain`): a sequence of
distinct blocks and the position of the first byte in each; all blocks but the last are
`Full`, with growing positions, no gaps, the right byte count and the right link in the tail; of the
last block the first `m` sectors are written and the rest is erased. `SkipsTo`, `SeekInside`,
`SeekPast` and `VisitedIs` compute from such a chain what `seek` and `walk` return, by induction over
blocks (`SkipBlocks`) and over sectors (`BytesIn`); the first two promises follow. A
seek to the end has no length to go by: it asks for the largest position, stops in the sector
whose count reads 65535, and is right because no file comes within 65535 bytes of the
largest position (`BoundsAssumption`).

What a writer holds is in one of four relations to the chain. `Own`: the sector in the buffer is
the next one, not written yet. `Kept`: it is the last one, part of which was
saved by a write in the mode that saves every time, or by a write that was reported as failed.
`Linked`: the same with a tail, which has already extended the chain by the pending block,
still empty. `Crossing`: `flush` has written the tail and begins that block a second time.
`SectorSaved` shows the one step that extends the chain: from each of the first three,
`save_sector` leads to a chain that ends at `position_` (`SavedIn`), in place if the sector was not a tail
(`InsideIsSaved`), with one more block if it was (`TailIsSaved`). Around it `PendingIsBegun` says
that the block a tail will link to is erased, has its head, is not free and not in the chain:
that is why `pending_allocation_` must survive a failure, and why a tail written again leads to the same block.
`Claimed` says that blocks of the file are not free and have heads, but for the one that
`Crossing` begins again. That exception is where a loss of power hurts: after it, `Claimed`
holds only of an empty file, which is why `InPool` excludes appending after a reset.

`Reading` relates a reader to the chain: what is left in the buffer is at its position, and
where the buffer ends, the next sector or the offset that a seek left begins. `AllClaimed` is the part
of the invariant behind `NoBlockLeaks`. It counts the pending block only while a tail is in the
buffer, because only then is it the file's.

### Files of the tree file system (`OpenFileProofs`)

Each under `KeepsTo`:

* `FilesAreChains`: `Spec => []FilesInv`.
* `EndIsAlwaysFound`, `BytesAreAlwaysFound`, `ReadersReadWhatWasWritten`,
  `BlocksAreNeverShared`: the four invariants of the configuration `OpenFile`,
  `SeekFindsEnd`, `SeekFindsByte`, `ReadsWhatWasWritten` and `BlocksAreNotShared`, for any number of files, of objects open at a time, of blocks, sectors, bytes and mounts, and any
  distance of saved positions.
* `FilesOnlyGrow`: `Spec => AppendsOnly`, its action property.
* `LengthsAreKnown`: `Spec => []LengthIsSize`, a writer knows the length of its file, also when
  the file was opened again, and a reader takes no file for longer than it is.

*`KeepsTo`* is `Beyond = {}`: the files are used in none of the four ways that the code gets
wrong. The configuration `OpenFile` is an instance. Without any one of the four conditions a
promise fails, as section 3 says under *Conditions of `OpenFile`*.

*The argument.* `FilesInv` gives each block an owner, which keeps the files apart, and exhibits
each file as a chain (`IsChain`) of blocks it owns: a path of blocks, the number of bytes in
front of each, and the number of sectors that are written of the last one. Blocks
in front of it are `Full`: bytes in order without a gap, and a tail with the right link and
count. The last is `Part` written and blank behind. A chain visits its blocks in the order
the allocator gave them out, so that no walk can turn in a circle. `IsSaved` says that what the tree has
of a file are beginnings of blocks in its chain, at the positions where they begin.

From a chain the proofs compute what the walk returns: `SkipsTo` that it goes over tail
sectors to the block that has the position, `WalkToEnd` and `WalkInside` where it stops in there. Both
start from any block of the chain, because `seek` starts from any saved position; with a search for the
end the position is `MaxPosition`, and what matters is that no file is as long. The
two promises about `seek`, and the lengths that objects get from it, follow. `WalkInside` holds of every
position of the file: it shows the block and the count always, and the place in the block where the position is
not behind the bytes in front of the tail, the case that `BehindTail` leaves open.

An object that writes is `Appending`: its head is the first sector of the chain that is not
written, its buffer has the bytes from there to `length_`, and `bytes_in_block_` counts from
the beginning of the block. `FlushedInBlock` and `FlushedAtTail` show that `flush` makes the chain one
sector, or one block, longer. The second relates five pieces of state: the link, the count
in the tail, the block from the allocator, the position in the tree and the state of the allocator in
the super block. It is why that block must be new to all files (`InOrder` keeps every chain
below the allocator's next block), and a mount leaves this so, because the condition "mount" says
that the allocator is then where the super block has it. An object that reads is `Reading`: what is left in
its buffer are the bytes at `position_`, and the sector where it goes on is where they end; a
longer chain keeps that (`GoesOn`), also for a reader that waits at the first sector not yet
written.

`OneWriter` and `AllFlushed` are needed for a file that is opened again: its end is `flushed`,
and that is all of it only if nobody else holds bytes of it in a buffer.

### Preallocated files (`FilePreallocatorProofs`)

* `FilesKeptApart`: `Spec => []FilesAreApart`. The extents of all files, and of the
  index and the data of each, are disjoint and on the device, for every geometry, list
  of sizes and width of the integers, as long as no sum that is asked for reaches past
  the width by itself (`WidthAssumption`). The invariant, `PlacedBelowHead`, says that files are
  placed in order below `head_`. The step has to show that no sum has wrapped when the
  tests of `allocate` pass: they look at the two ends only, and the subtraction that
  may wrap (`file_preallocator.cpp:26`) comes before them.

### How, and what is only model-checked

The prover cannot instantiate the induction theorems of its library. What is
shown by induction is shown by a least counterexample: `Inductions` derives from the
well-foundedness of the natural numbers that a set of integers bounded below has a least
element, and the lemmas about loops take the least turn of the loop that
breaks what it should keep.

Left to TLC: liveness (`CallsReturn`; fairness and `ENABLED` are beyond the prover), the
promises of the chain where `OneLife` does not hold, files in an extent (`RecordsAreWhole`,
`FullFileUsesExtent`), what the two trees do with their nodes (`SearchTrees`) and how they are stored (`TreeStore`),
and the files with an index (`FileLayout`). The recursion of the trees is over data, and the operators
that walk nodes and records are declared `RECURSIVE`.

## 5. What is not modelled, and the plan

Not modelled at all: `SectorCachingStorage`, whose cached sector is an optimisation of
a storage that is modelled without it; the drivers of the SD card and of the serial
flash, whose other half is the card and the bus; the vendor flash library; checksums,
hashes and magic numbers (valid or not); the log of the memory backend; tools,
logging and platform glue. `QueueBlockAllocator`, `DebuggingBlockAllocator` and
`InMemoryNodeStorage` serve tests and tools.

Within modelled components: sector writes are atomic and reads succeed (the code has
no checksum over a link that could tell a torn one); `reclaim` is not tried after
a walk of the chain that failed; `create` over a volume in use leaves the old chain to
the reclaimer; `format` of a `BlockedFile` returns true also when it could not begin
its block. Power loss within a call of the tree file system is left out: `find_head`
takes the last node written for the root, so that nothing could be shown to hold.

Plan: the composition of `SuperBlock`, allocator, `BlockedFile` and reclaimer with the
real walks deciding what is kept; `SectorCachingStorage` as a refinement of a plain
storage; the command state machine of `sd_raw`.

Theorems planned: `RecordsAreWhole` and `FullFileUsesExtent` from a chain that may end without
a link; `CacheHasRoom`; the arithmetic of `Addressing`. The
operators of `TreeStore` and `FileLayout` that are declared `RECURSIVE` stay with TLC.
