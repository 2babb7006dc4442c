------------------------------ MODULE OpenFile ------------------------------
(***************************************************************************)
(* The files of the tree file system (file_system.cpp): FileSystem and the *)
(* OpenFile objects it hands out.  A file is a chain of blocks; the first  *)
(* sector of a block is its head, each other sector holds data and its     *)
(* length, and the last one, the tail sector, also the link to the block   *)
(* that follows and the number of bytes in this one.  The tree maps        *)
(* <<file, position>> to the block where that position starts: position 0  *)
(* and, every PositionSaveFrequency blocks, the length so far.             *)
(*                                                                         *)
(* The tree is a function that changes in one step: PersistedTree and      *)
(* TreeStore have what is below it.  A call is one step: the program has   *)
(* one thread.  The n-th byte written to a file is the number n.           *)
(***************************************************************************)
EXTENDS Integers, Sequences

CONSTANTS Files,           \* file ids
          Handles,         \* OpenFile objects
          NumBlocks, SectorsPerBlock,
          SectorData,      \* bytes of a sector without its FileSectorTail
          TailData,        \* bytes of a tail sector without its FileBlockTail
          PositionSaveFrequency,
          MaxPosition,     \* UINT32_MAX
          SeekPositions,   \* bound of the model: positions given to seek()
          MaxBytes,        \* bound of the model: bytes written to any two files
          MaxOpens,        \* bound of the model: opens and mounts
          Beyond           \* conditions this run does not keep to, see Allowed

ASSUME FileAssumption ==
    /\ Files \subseteq Nat
    /\ {NumBlocks, SectorsPerBlock, SectorData, TailData, PositionSaveFrequency,
        MaxBytes, MaxOpens, MaxPosition} \subseteq Nat
    /\ SectorsPerBlock > 2 /\ 0 < TailData /\ TailData <= SectorData
    /\ PositionSaveFrequency > 0 /\ MaxPosition > MaxBytes
    /\ Beyond \subseteq {"append", "tail", "seek", "mount"}

VARIABLES disk,    \* a function from blocks to their sectors
          tree,    \* the tree: a function from <<file, position>> to addresses
          next,    \* block_ of the allocator
          saved,   \* the allocator state in the super block
          open,    \* the OpenFile objects in use
          written, \* bytes given to write() for each file, since the last mount
          flushed, \* bytes of each file that are on the device
          result,  \* what the last call gave its caller
          opens

vars == <<disk, tree, next, saved, open, written, flushed, result, opens>>

Blocks == 0..(NumBlocks - 1)
NoBlock == 0 - 1
TailSector == SectorsPerBlock - 1

\* An address is a block, a sector of it, and bytes into that sector: seeking
\* leaves head_ inside of a sector.
At(block, sector) == [block |-> block, sector |-> sector, into |-> 0]
IsTail(a) == a.sector = TailSector

Unwritten == [data |-> <<>>, link |-> NoBlock, inBlock |-> 0]
Sector(a) == disk[a.block][a.sector]
Capacity(a) == IF IsTail(a) THEN TailData ELSE SectorData

\* What a block holds before its first use.
OldBlock == [s \in 1..TailSector |-> [data |-> <<NoBlock>>, link |-> 1, inBlock |-> 1]]
BlankBlock == [s \in 1..TailSector |-> Unwritten]

Unknown == MaxPosition   \* InvalidLengthOrPosition

-----------------------------------------------------------------------------
(* The tree, and the walk of seek().                                       *)

Beginning(f) == <<f, 0>>
Exists(f) == Beginning(f) \in DOMAIN tree

Below(k, f, p) == k[1] < f \/ (k[1] = f /\ k[2] < p)
LessThen(f, p) ==
    {k \in DOMAIN tree : Below(k, f, p) /\
                         \A o \in DOMAIN tree : Below(o, f, p) => o = k \/ Below(o, k[1], k[2])}

\* What is left of max past a block that is skipped.
m_Past(max, sector) == max   \* not taken off
Past(max, sector) == max - sector.inBlock

Least(set) == CHOOSE n \in set : \A m \in set : n <= m

\* OpenFile::seek(BlockAddress, max), first from tail sector to tail sector
\* over the blocks that max reaches past, ...
SkipBlock(at) ==
    LET tail == disk[at.block][TailSector]
    IN  IF tail.link # NoBlock /\ at.max > tail.inBlock
        THEN [block |-> tail.link, max |-> Past(at.max, tail),
              bytes |-> at.bytes + tail.inBlock, blocks |-> at.blocks + 1]
        ELSE at

SkipBlocks(block, max) ==
    LET reached[n \in 0..NumBlocks] ==
            IF n = 0 THEN [block |-> block, max |-> max, bytes |-> 0, blocks |-> 0]
                     ELSE SkipBlock(reached[n - 1])
    IN  reached[NumBlocks]

\* The bytes in the first n sectors of a block.
BytesIn(b, n) ==
    LET sum[s \in 0..n] == IF s = 0 THEN 0 ELSE sum[s - 1] + Len(disk[b][s].data)
    IN  sum[n]

\* ... then over the sectors in front of the tail.  A sector is reached past
\* only when max is greater than what it holds.  A walk that reaches past all
\* of them comes to the tail sector again and starts over at the first, as
\* often as it takes.
Rest(b, max) ==
    LET total == BytesIn(b, TailSector - 1)
    IN  IF \A s \in 1..TailSector - 1 : disk[b][s].data # <<>>
        THEN ((max - 1) % total) + 1 ELSE max

Stops(b, s, rest) == disk[b][s].data = <<>> \/ rest <= BytesIn(b, s)

Walk(block, max) ==
    LET at   == SkipBlocks(block, max)
        rest == Rest(at.block, at.max)
        stop == Least({s \in 1..TailSector - 1 : Stops(at.block, s, rest)})
        past == BytesIn(at.block, stop - 1)
    IN  IF disk[at.block][stop].data = <<>>
        THEN [at |-> At(at.block, stop), blocks |-> at.blocks, bytes |-> at.bytes + past]
        ELSE [at |-> [At(at.block, stop) EXCEPT !.into = rest - past],
              blocks |-> at.blocks, bytes |-> at.bytes + at.max]

\* A walk from a saved position, and a mutant: there is no walk.
m_NotReached(k, r) == [at |-> tree[k], blocks |-> 0, position |-> k[2]]
Reached(k, r) == [at |-> r.at, blocks |-> r.blocks, position |-> k[2] + r.bytes]

\* The rest of OpenFile::seek, as a set of at most one result: none when the
\* greatest key below belongs to another file or does not exist.
Sought(f, position) ==
    {Reached(k, Walk(tree[k].block, position - k[2])) :
     k \in {key \in LessThen(f, position) : key[1] = f}}

\* The blocks of a chain, in order; the last one repeats.
Linked(b) == IF disk[b][TailSector].link = NoBlock THEN b ELSE disk[b][TailSector].link
Links(b) ==
    LET reached[n \in 0..NumBlocks] ==
            IF n = 0 THEN b ELSE Linked(reached[n - 1])
    IN  reached

\* The end of the file is looked for in a block whose sectors are full up to
\* the tail sector, which is not written.
LastBlock(b) == Links(b)[NumBlocks]
EndsAtTail(f) == disk[LastBlock(tree[Beginning(f)].block)][TailSector - 1] # Unwritten

-----------------------------------------------------------------------------
(* Conditions.  Each names a use of the files that the code gets wrong; the *)
(* runs that expect a violation go beyond one of them.                      *)

\* append: a file is opened to write on in a block that has data.
\* tail:   the end of a file is looked for when EndsAtTail.
\* seek:   seek() while the buffer is partly read, to a position inside.
\* mount:  blocks were handed out since the super block was saved.
Allowed(condition, holds) == condition \in Beyond \/ holds

-----------------------------------------------------------------------------
NoResult == [call |-> "none"]

\* initialize_block: the block is erased, and its head written.
Begun(d, block) == [d EXCEPT ![block] = BlankBlock]

Handle(f, readonly) ==
    [file |-> f, readonly |-> readonly, head |-> At(NoBlock, 1), inBlock |-> 0,
     length |-> IF readonly THEN Unknown ELSE 0, position |-> 0, since |-> 0,
     buffer |-> <<>>, available |-> 0, buffpos |-> 0, ended |-> FALSE]

Put(f, key, value) == [k \in DOMAIN f \cup {key} |-> IF k = key THEN value ELSE f[k]]

\* SequentialBlockAllocator::allocate, and m_Allocate: block_ is not moved on
m_Allocate(n) == n
Allocate(n) == n + 1

Writing(f) == \E h \in DOMAIN open : open[h].file = f /\ ~open[h].readonly

BeginOpen(h) ==
    /\ h \in Handles \ DOMAIN open /\ opens < MaxOpens
    /\ opens' = opens + 1
    /\ result' = NoResult
    /\ UNCHANGED <<written, flushed>>

\* FileSystem::open(name, true): the handle is not valid without a file.
OpenToRead(h, f) ==
    /\ BeginOpen(h) /\ Exists(f)
    /\ open' = Put(open, h, [Handle(f, TRUE) EXCEPT !.head = tree[Beginning(f)]])
    /\ UNCHANGED <<disk, tree, next, saved>>

\* FileSystem::open(name) of a file that exists: seek to its end.
OpenToAppend(h, f) ==
    /\ BeginOpen(h) /\ ~Writing(f)
    /\ Exists(f) => Allowed("tail", ~EndsAtTail(f))
    /\ \E s \in Sought(f, MaxPosition) :
          /\ Allowed("append", s.at.sector = 1)
          /\ open' = Put(open, h, [Handle(f, FALSE) EXCEPT
                        !.head = s.at, !.since = s.blocks,
                        !.position = s.position, !.length = s.position])
    /\ UNCHANGED <<disk, tree, next, saved>>

\* ... and of a file that does not: its first block, and its entry in the
\* tree, which saves the super block with the state of the allocator.
OpenToCreate(h, f) ==
    /\ BeginOpen(h) /\ Sought(f, MaxPosition) = {} /\ next \in Blocks
    /\ next' = Allocate(next)
    /\ saved' = Allocate(next)
    /\ disk' = Begun(disk, next)
    /\ tree' = Put(tree, Beginning(f), At(next, 1))
    /\ open' = Put(open, h, [Handle(f, FALSE) EXCEPT !.head = At(next, 1)])

\* What the tree is told: the block that begins at the length so far.
m_SavedBlock(ended, begun) == ended   \* the block that ends there
SavedBlock(ended, begun) == begun

\* OpenFile::flush of a buffer that is not empty.  s is what it changes:
\* [disk, tree, next, saved, o].  A tail sector allocates the block it links
\* to, and every PositionSaveFrequency blocks the tree is told of it.
Flushed(o, s) ==
    IF ~IsTail(o.head)
    THEN [s EXCEPT !.disk[o.head.block][o.head.sector] = [Unwritten EXCEPT !.data = o.buffer],
                   !.o.head = At(o.head.block, o.head.sector + 1), !.o.buffer = <<>>]
    ELSE LET since == o.since + 1
             saves == since = PositionSaveFrequency
             key   == <<o.file, o.length>>
         IN  [disk  |-> Begun([s.disk EXCEPT ![o.head.block][TailSector] =
                            [data |-> o.buffer, link |-> s.next, inBlock |-> o.inBlock]], s.next),
              tree  |-> IF saves THEN Put(s.tree, key, At(SavedBlock(o.head.block, s.next), 1)) ELSE s.tree,
              next  |-> Allocate(s.next),
              saved |-> IF saves THEN Allocate(s.next) ELSE s.saved,
              o     |-> [o EXCEPT !.head = At(s.next, 1), !.inBlock = 0, !.buffer = <<>>,
                                  !.since = IF saves THEN 0 ELSE since]]

Now(o) == [disk |-> disk, tree |-> tree, next |-> next, saved |-> saved, o |-> o]
FlushFits(o) == IsTail(o.head) => next \in Blocks

\* The head must be a sector's beginning: a walk that went wrong leaves it
\* inside of one, and what a write there does is not modelled.
CanWrite(o) == ~o.readonly /\ o.head.into = 0

\* OpenFile::write of one byte: a full buffer is flushed first.  A longer
\* write does the same for each of its bytes.
WriteByte(h) ==
    LET o == open[h]
        full == Len(o.buffer) = Capacity(o.head)
        s == IF full THEN Flushed(o, Now(o)) ELSE Now(o)
    IN  /\ h \in DOMAIN open /\ CanWrite(o)
        /\ \A f \in Files : written[o.file] + (IF f = o.file THEN 0 ELSE written[f]) < MaxBytes
        /\ full => FlushFits(o)
        /\ disk' = s.disk /\ tree' = s.tree /\ next' = s.next /\ saved' = s.saved
        /\ open' = [open EXCEPT ![h] =
                      [s.o EXCEPT !.buffer = Append(@, written[o.file]), !.length = @ + 1,
                                  !.position = @ + 1, !.inBlock = @ + 1]]
        /\ written' = [written EXCEPT ![o.file] = @ + 1]
        /\ flushed' = IF full THEN [flushed EXCEPT ![o.file] = written[o.file]] ELSE flushed
        /\ result' = NoResult
        /\ UNCHANGED opens

\* OpenFile::close; the object goes away.
Close(h) ==
    LET o == open[h]
        flushes == ~o.readonly /\ o.buffer # <<>>
        s == IF flushes THEN Flushed(o, Now(o)) ELSE Now(o)
    IN  /\ h \in DOMAIN open
        /\ flushes => CanWrite(o) /\ FlushFits(o)
        /\ disk' = s.disk /\ tree' = s.tree /\ next' = s.next /\ saved' = s.saved
        /\ open' = [k \in DOMAIN open \ {h} |-> open[k]]
        /\ flushed' = IF flushes THEN [flushed EXCEPT ![o.file] = written[o.file]] ELSE flushed
        /\ result' = NoResult
        /\ UNCHANGED <<written, opens>>

-----------------------------------------------------------------------------
(* Reading.  At the end head_ has moved past the sector that was not       *)
(* written; callers stop there until they seek.                            *)

\* Where reading goes on in a block that was linked to.
m_FirstOf(block) == At(block, 2)   \* a sector too far
FirstOf(block) == At(block, 1)

\* The next sector in the buffer, and head_ at the one after it.
Fill(o) ==
    LET sector == Sector(o.head)
    IN  [o EXCEPT !.buffer = sector.data, !.buffpos = 0, !.available = Len(sector.data),
                  !.head = IF IsTail(o.head) THEN FirstOf(sector.link)
                           ELSE At(o.head.block, o.head.sector + 1)]

Buffered(o) == o.available # o.buffpos

\* All that counts of a buffer that was read is that it was.
Drained(o) == IF Buffered(o) THEN o
              ELSE [o EXCEPT !.buffer = <<>>, !.available = 0, !.buffpos = 0]

BlankTail(a) == IsTail(a) /\ Sector(a) = Unwritten

\* OpenFile::read of up to n bytes: the handle after it, and the bytes.  An
\* unwritten tail sector fails an assertion.  From inside of a sector the
\* buffer gets parts of two sectors, and takes its length from the data of
\* the second: any bytes.  NoBlock stands for a byte of no file.
Taken(o, n) ==
    IF ~Buffered(o) /\ (o.head.into # 0 \/ BlankTail(o.head))
    THEN [o |-> [o EXCEPT !.ended = TRUE], bytes |-> <<NoBlock>>]
    ELSE LET f    == IF Buffered(o) THEN o ELSE Fill(o)
             take == Least({n, f.available - f.buffpos})
         IN  [o     |-> Drained([f EXCEPT !.buffpos = @ + take, !.position = @ + take,
                                          !.ended  = f.available = 0,
                                          !.length = IF f.available = 0 /\ @ = Unknown
                                                     THEN o.position ELSE @]),
              bytes |-> SubSeq(f.buffer, f.buffpos + 1, f.buffpos + take)]

Read(h, n) ==
    LET o == open[h]
        r == Taken(o, n)
    IN  /\ h \in DOMAIN open /\ o.readonly /\ ~o.ended
        /\ Allowed("tail", Buffered(o) \/ ~BlankTail(o.head))
        /\ Allowed("seek", Buffered(o) \/ o.head.into = 0)
        /\ open' = [open EXCEPT ![h] = r.o]
        /\ result' = [call |-> "read", file |-> o.file, from |-> o.position, bytes |-> r.bytes]
        /\ UNCHANGED <<disk, tree, next, saved, written, flushed, opens>>

\* OpenFile::seek(Seek::Beginning, 0): neither the buffer nor what is left of
\* it is reset.
SeekBeginning(h) ==
    LET o == open[h]
    IN  /\ h \in DOMAIN open /\ o.readonly /\ Allowed("seek", ~Buffered(o))
        /\ open' = [open EXCEPT ![h].head = tree[Beginning(o.file)], ![h].position = 0,
                                ![h].ended = FALSE]
        /\ result' = NoResult
        /\ UNCHANGED <<disk, tree, next, saved, written, flushed, opens>>

\* What a seek leaves in a handle: its walk reads sectors into buffer_.  The
\* blocks since a saved position only count in a file that is written.
AfterSeek(o, s) ==
    Drained([o EXCEPT !.head = s.at, !.position = s.position, !.ended = FALSE,
                      !.buffer = Sector(s.at).data \o [i \in 1..SectorData |-> NoBlock]])

\* seek(Seek::End): the length is known from now on.
SeekEnd(h) ==
    LET o == open[h]
    IN  /\ h \in DOMAIN open /\ o.readonly
        /\ Allowed("seek", ~Buffered(o)) /\ Allowed("tail", ~EndsAtTail(o.file))
        /\ \E s \in Sought(o.file, MaxPosition) :
              open' = [open EXCEPT ![h] = [AfterSeek(o, s) EXCEPT !.length = s.position]]
        /\ result' = NoResult
        /\ UNCHANGED <<disk, tree, next, saved, written, flushed, opens>>

\* seek(position) for a position inside of the file.
SeekTo(h, position) ==
    LET o == open[h]
    IN  /\ h \in DOMAIN open /\ o.readonly /\ position \in 1..flushed[o.file]
        /\ Allowed("seek", ~Buffered(o)) /\ Allowed("tail", ~EndsAtTail(o.file))
        /\ \E s \in Sought(o.file, position) : open' = [open EXCEPT ![h] = AfterSeek(o, s)]
        /\ result' = NoResult
        /\ UNCHANGED <<disk, tree, next, saved, written, flushed, opens>>

\* size() of a file that is read from the beginning: a seek to the end, and
\* back to where the file was, which is the easy seek only there.
Size(h) ==
    LET o == open[h]
    IN  /\ h \in DOMAIN open /\ o.readonly /\ o.length = Unknown
        /\ Allowed("seek", ~Buffered(o) /\ o.position = 0)
        /\ Allowed("tail", ~EndsAtTail(o.file))
        /\ \E s \in Sought(o.file, MaxPosition) :
              LET e == [AfterSeek(o, s) EXCEPT !.length = s.position]
              IN  IF o.position = 0
                  THEN open' = [open EXCEPT ![h] = [e EXCEPT !.head = tree[Beginning(o.file)],
                                                             !.position = 0]]
                  ELSE \E b \in Sought(o.file, o.position) :
                         open' = [open EXCEPT ![h] = AfterSeek(e, b)]
        /\ result' = NoResult
        /\ UNCHANGED <<disk, tree, next, saved, written, flushed, opens>>

\* FileSystem::mount of a new object, after unmount() or a loss of power
\* between two calls: what was not flushed is gone, and the allocator goes on
\* where the super block says.
Mount ==
    /\ opens < MaxOpens /\ Allowed("mount", saved = next)
    /\ opens' = opens + 1
    /\ next' = saved
    /\ open' = <<>>
    /\ written' = flushed
    /\ result' = NoResult
    /\ UNCHANGED <<disk, tree, saved, flushed>>

-----------------------------------------------------------------------------
Init ==
    /\ disk = [b \in Blocks |-> OldBlock]
    /\ tree = <<>>
    /\ next = 0 /\ saved = 0
    /\ open = <<>>
    /\ written = [f \in Files |-> 0] /\ flushed = written
    /\ result = NoResult
    /\ opens = 0

Next ==
    \/ \E h \in Handles, f \in Files :
          OpenToRead(h, f) \/ OpenToAppend(h, f) \/ OpenToCreate(h, f)
    \/ \E h \in Handles :
          \/ WriteByte(h) \/ Close(h)
          \/ SeekBeginning(h) \/ SeekEnd(h) \/ Size(h)
          \/ \E n \in {1, SectorData} : Read(h, n)
          \/ \E p \in SeekPositions : SeekTo(h, p)
    \/ Mount

Spec == Init /\ [][Next]_vars

-----------------------------------------------------------------------------
(* Properties.                                                             *)

BlocksOf(f) ==
    IF Exists(f) THEN LET links == Links(tree[Beginning(f)].block)
                      IN  {links[n] : n \in 0..NumBlocks}
    ELSE {}

\* However a file was written, flushed early, closed, and opened again where a
\* block begins, a seek to its end finds the first sector that is not written,
\* and the number of bytes flushed, unless that is a tail sector: positions in
\* the tree, counts in tail sectors and the walk over the last block add up.
SeekFindsEnd ==
    \A f \in Files : Exists(f) /\ Allowed("tail", ~EndsAtTail(f)) =>
        \E s \in Sought(f, MaxPosition) :
            /\ s.position = flushed[f]
            /\ s.at.into = 0 /\ Sector(s.at) = Unwritten
            /\ s.at.block = LastBlock(tree[Beginning(f)].block)

\* The address of a position: the byte in front of it is in that sector.
IsAddressOf(at, p) == Sector(at).data # <<>> /\ Sector(at).data[1] + at.into = p

\* The byte in front of a position is in the tail sector of the block, as it is
\* for the position where a full block ends.
BehindTail(b, p) ==
    LET data == disk[b][TailSector].data
    IN  data # <<>> /\ data[1] < p /\ p <= data[1] + Len(data)

\* A seek to any position inside of a file, block boundaries and saved
\* positions included, gives that position and finds the block that holds the
\* byte in front of it, from whichever saved position the walk starts.  In
\* that block it finds the sector and the offset, if not BehindTail: there
\* the walk passes the last sector and starts over at the first.
SeekFindsByte ==
    \A f \in Files : \A p \in 1..flushed[f] : Exists(f) =>
        \E s \in Sought(f, p) :
            /\ s.position = p
            /\ s.at.block \in BlocksOf(f)
            /\ IsAddressOf(s.at, p) \/ BehindTail(s.at.block, p)

\* "... so we walk the blocks and sectors to find the actual location"
\* (file_system.cpp:326-327): for each position it is its address.
SeekFindsLocation ==
    \A f \in Files : \A p \in 1..flushed[f] : Exists(f) =>
        \E s \in Sought(f, p) : IsAddressOf(s.at, p)

\* A read gives the bytes of the file at its position, across sectors that
\* were flushed early and across blocks, while others write and open files;
\* it gives none only at the end of what was flushed.
ReadsWhatWasWritten ==
    result.call = "read" =>
        /\ result.bytes = [i \in 1..Len(result.bytes) |-> result.from + i - 1]
        /\ result.bytes = <<>> => result.from = flushed[result.file]

\* size() and tell(): a file that is written, also one opened again to append,
\* knows its length; one that is read never takes it for more than there is.
LengthIsSize ==
    \A h \in DOMAIN open :
        LET o == open[h]
        IN  IF o.readonly THEN o.length = Unknown \/ o.length <= flushed[o.file]
            ELSE o.length = written[o.file] /\ o.position = o.length

\* No block is in two files, and the allocator hands out none that is in one
\* ("assert(allocations_.find(alloc.block) == allocations_.end())" in
\* DebuggingBlockAllocator).
BlocksAreNotShared ==
    /\ \A f, g \in Files : f # g => BlocksOf(f) \cap BlocksOf(g) = {}
    /\ \A f \in Files : next \notin BlocksOf(f)

\* What a file holds is never written over or erased.
AppendsOnly ==
    [][\A f \in Files : \A b \in BlocksOf(f), s \in 1..TailSector :
          disk[b][s] # Unwritten => disk'[b][s] = disk[b][s]]_vars
=============================================================================
