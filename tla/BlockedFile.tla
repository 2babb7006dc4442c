---------------------------- MODULE BlockedFile ----------------------------
(***************************************************************************)
(* BlockedFile: one file, a chain of blocks.  Sector 0 of a block holds    *)
(* its head.  Data is appended sector by sector; each sector says in its   *)
(* own tail how many bytes it holds, and the last sector of a block, which *)
(* has less room, also counts the bytes of the block and links to the next *)
(* block, which is allocated and begun before the link is written.         *)
(*                                                                         *)
(* A writer buffers one sector.  Blocks come from SerialFlashAllocator     *)
(* (AllocatedBlockedFile) or follow one another in an extent               *)
(* (ExtentBlockedFile).  One step is one storage operation that changes    *)
(* the medium; reading, which does not, is done with the computation       *)
(* around it.  Power may be lost before any step, or in an erase.          *)
(*                                                                         *)
(* A byte is told apart by its position and by the life of the file (from  *)
(* one format() to the next) it was written in.                            *)
(***************************************************************************)
EXTENDS Integers, Sequences

CONSTANTS
    Extent,             \* whether blocks come from an extent
    FirstBlock,         \* the first block of the pool or the extent
    NumberOfBlocks,     \* how many blocks there are
    SectorsPerBlock,
    SectorRoom,         \* bytes that fit before a FileSectorTail
    TailRoom,           \* bytes that fit before a FileBlockTail
    NoBlock,            \* BLOCK_INDEX_INVALID
    Sizes,              \* the sizes of writes
    Modes,              \* the modes files are opened in for writing
    Whole,              \* whether writes may not span sectors, the choices
    WithinBlock,        \* whether writes may not span blocks
    SeekBuffered,       \* whether readers seek before they used the buffer up
    Reopens,            \* whether files are opened again to append to them:
                        \* "never", "until reset" or "always"
    MaxPosition,        \* bound on the length of the file
    MaxFormats,         \* bound on calls of format() and of erases
    MaxCrashes,         \* bound on losses of power
    MaxFaults           \* bound on failures the storage reports

Blocks  == FirstBlock .. FirstBlock + NumberOfBlocks - 1
TailSector == SectorsPerBlock - 1
Sectors == 1 .. TailSector
Unused  == 65535        \* SECTOR_INDEX_INVALID, what an erased count reads as
End     == 1000000      \* UINT64_MAX, further than any file reaches

ASSUME GeometryAssumption ==
    /\ FirstBlock \in Nat \ {0} /\ NumberOfBlocks \in Nat \ {0}
    /\ SectorsPerBlock \in Nat /\ SectorsPerBlock >= 3
    /\ SectorRoom \in Nat /\ TailRoom \in 1 .. SectorRoom /\ SectorRoom < Unused
    /\ NoBlock \notin Blocks
ASSUME WritesAssumption ==
    /\ Sizes \subseteq Nat \ {0}
    /\ Whole \subseteq BOOLEAN
    /\ TRUE \in Whole => \A n \in Sizes : n <= TailRoom  \* asserted by write()
    /\ Modes \subseteq {"write", "multiple"}
    /\ {Extent, WithinBlock, SeekBuffered} \subseteq BOOLEAN
    /\ Reopens \in {"never", "until reset", "always"}
ASSUME BoundsAssumption ==
    /\ MaxPosition \in Nat /\ MaxFormats \in Nat
    /\ MaxCrashes \in Nat /\ MaxFaults \in Nat
    /\ MaxPosition + Unused < End

VARIABLES
    heads,      \* the head of each block: "none", "free" or "file"
    sectors,    \* [Blocks -> [Sectors -> Sector]]
    free,       \* the allocator's map, as the set of free blocks
    file,       \* the open file object
    call,       \* how far the call that is running has come
    start,      \* where the client knows the file to begin
    whole,      \* whether it asks for its writes not to span sectors
    life,       \* the life of that file: the format() that began it
    durable,    \* how many bytes were reported as written to the medium
    formats, crashes, faults        \* counters for the bounds

medium   == <<heads, sectors>>
counters == <<formats, crashes, faults>>
client   == <<start, whole, life, durable>>
vars     == <<medium, free, file, call, client, counters>>

-----------------------------------------------------------------------------
(* The medium. *)

(* A sector that was written: the bytes from `first' on, of life `life'.    *)
(* The last two fields matter in tail sectors only.                         *)
Sector == [first   : Nat,
           life    : 0 .. MaxFormats,
           bytes   : 0 .. SectorRoom \union {Unused},
           inBlock : Nat,
           link    : Blocks \union {NoBlock}]

Unwritten == [first |-> 0, life |-> 0, bytes |-> Unused, inBlock |-> 0,
              link |-> NoBlock]

(* What an earlier use of the block may have left in a sector. *)
Stale == [Unwritten EXCEPT !.bytes = SectorRoom]

Blank  == [s \in Sectors |-> Unwritten]
Empty(sector) == sector.bytes \in {0, Unused}

Address   == [block : Blocks, sector : 0 .. TailSector]
At(b, s)  == [block |-> b, sector |-> s]
NoAddress == At(NoBlock, 0)

(* BlockAddress::tail_sector, which an invalid address satisfies, too. *)
IsTail(addr) == addr = NoAddress \/ addr.sector = TailSector

Room(addr) == IF IsTail(addr) THEN TailRoom ELSE SectorRoom

(* effective_file_block_size() *)
BlockRoom == (SectorsPerBlock - 2) * SectorRoom + TailRoom

(* AllocatedBlock *)
Given   == [block : Blocks \union {NoBlock}, erased : BOOLEAN]
NoGiven == [block |-> NoBlock, erased |-> FALSE]

-----------------------------------------------------------------------------
(* seek(), which reads the medium only. *)

(* From block to block, as long as all of a block lies before `desired'.    *)
SkipBlock(at, desired) ==
    LET tail == sectors[at.block][TailSector]
    IN  IF tail.link # NoBlock /\ desired >= at.bytes + tail.inBlock
        THEN [block |-> tail.link, bytes |-> at.bytes + tail.inBlock]
        ELSE at

SkipBlocks(from, desired) ==
    LET reached[n \in 0 .. NumberOfBlocks] ==
            IF n = 0 THEN [block |-> from, bytes |-> 0]
                     ELSE SkipBlock(reached[n - 1], desired)
    IN  reached

(* The bytes in the first n sectors of a block. *)
BytesIn(b, n) ==
    LET sum[s \in 0 .. n] == IF s = 0 THEN 0 ELSE sum[s - 1] + sectors[b][s].bytes
    IN  sum[n]

Least(set) == CHOOSE n \in set : \A m \in set : n <= m

(* The search in a block ends in the sector that holds byte `rest' of it.   *)
Stops(b, s, rest) ==
    \/ s = TailSector
    \/ Empty(sectors[b][s])
    \/ rest < BytesIn(b, s)

(* SeekInfo: where the search for `desired' ends, and the bytes before.     *)
SeekFrom(from, desired) ==
    LET at    == SkipBlocks(from, desired)[NumberOfBlocks]
        b     == at.block
        rest  == desired - at.bytes
        stop  == Least({s \in Sectors : Stops(b, s, rest)})
        into  == rest - BytesIn(b, stop - 1)
        there == IF stop = TailSector THEN into < sectors[b][TailSector].bytes
                                ELSE ~Empty(sectors[b][stop])
        past  == BytesIn(b, stop - 1) + (IF there THEN into ELSE 0)
    IN  [head |-> At(b, stop), offset |-> IF there THEN into ELSE 0,
         bytes |-> at.bytes + past, inBlock |-> past]

(* The blocks a walk over the whole file visits. *)
Visited(from) ==
    LET reached == SkipBlocks(from, End)
    IN  {reached[n].block : n \in 0 .. NumberOfBlocks}

FileSize == SeekFrom(start, End).bytes

-----------------------------------------------------------------------------
(* The file object. *)

File == [mode     : {"closed", "read", "write", "multiple"},
         head     : Address \union {NoAddress},     \* head_
         buffer   : Sector,         \* buffer_, as last read from the medium
         pos      : Nat,            \* buffpos_
         avail    : Nat,            \* buffavailable_
         offset   : Nat,            \* seek_offset_
         inBlock  : Nat,            \* bytes_in_block_
         position : Nat,            \* position_
         pending  : Given]          \* pending_allocation_

(* The object after initialize(), which is also how it is constructed. *)
Closed == [mode |-> "closed", head |-> NoAddress, buffer |-> Unwritten,
           pos |-> 0, avail |-> 0, offset |-> 0, inBlock |-> 0,
           position |-> 0, pending |-> NoGiven]

Writing == file.mode \in {"write", "multiple"}

(* The buffer is left with the sector that was read last, and how much of   *)
(* it was used is not reset.                                                *)
Sought(f, desired) ==
    LET info == SeekFrom(start, desired)
    IN  [f EXCEPT !.head     = info.head,
                  !.buffer   = sectors[info.head.block][info.head.sector],
                  !.offset   = info.offset,
                  !.inBlock  = info.inBlock,
                  !.position = info.bytes]

(* The calls that change the medium: what is left to write or to free, what *)
(* happens after a flush, and the block that is being begun.                *)
NoCall == [op |-> "none", pc |-> "none", left |-> 0, size |-> 0,
           after |-> "return", block |-> NoGiven, rest |-> {}]
Call == [op    : {"none", "write", "flush", "close", "format", "erase"},
         pc    : {"none", "fill", "allocate", "erase", "head", "sector",
                  "enter erase", "enter head", "free", "mark"},
         left  : Nat, size : Nat,
         after : {"return", "keep", "fill", "fill unless full"},
         block : Given,
         rest  : SUBSET Blocks]

TypeOK ==
    /\ heads \in [Blocks -> {"none", "free", "file"}]
    /\ sectors \in [Blocks -> [Sectors -> Sector]]
    /\ free \in SUBSET Blocks
    /\ file \in File
    /\ call \in Call
    /\ start \in Blocks \union {NoBlock} /\ whole \in BOOLEAN
    /\ life \in 0 .. MaxFormats /\ durable \in Nat
    /\ formats \in 0 .. MaxFormats
    /\ crashes \in 0 .. MaxCrashes /\ faults \in 0 .. MaxFaults

Init ==
    /\ heads = [b \in Blocks |-> "none"]
    /\ sectors \in {[b \in Blocks |-> [s \in Sectors |-> was]] :
                       was \in {Unwritten, Stale}}
    /\ free = Blocks
    /\ file = Closed
    /\ call = NoCall
    /\ whole \in Whole
    /\ start = NoBlock /\ life = 0 /\ durable = 0
    /\ formats = 0 /\ crashes = 0 /\ faults = 0

(* Memory is lost; the allocator reads its map from the heads. *)
ResetTo(hs, ss) ==
    /\ heads' = hs
    /\ sectors' = ss
    /\ free' = {b \in Blocks : hs[b] # "file"}
    /\ file' = Closed
    /\ call' = NoCall
    /\ UNCHANGED client

Reset == ResetTo(heads, sectors)

Idle == call = NoCall
Running(pc) == call.pc = pc

-----------------------------------------------------------------------------
(* Opening files, which the client knows by the block they start in. *)

(* A file that is opened for appending is sought to its end. *)
OpenToWrite(mode) ==
    /\ Idle /\ file.mode = "closed"
    /\ mode \in Modes
    /\ start # NoBlock
    /\ \/ durable = 0
       \/ Reopens = "always"
       \/ Reopens = "until reset" /\ crashes = 0
    /\ heads[start] # "none"
    /\ file' = Sought([Closed EXCEPT !.mode = mode], End)
    /\ UNCHANGED <<medium, free, call, client, counters>>

(* SimpleFile seeks to the beginning, Files::open leaves that to read(). *)
OpenToRead ==
    LET opened == [Closed EXCEPT !.mode = "read", !.head = At(start, 0)]
    IN  /\ Idle /\ file.mode = "closed"
        /\ start # NoBlock
        /\ heads[start] # "none"
        /\ file' = IF Extent THEN Sought(opened, 0) ELSE opened
        /\ UNCHANGED <<medium, free, call, client, counters>>

-----------------------------------------------------------------------------
(* write(), flush() and the save_sector() they share. *)

(* Mutant: a block is allocated each time a tail is saved. *)
SavingAllocates(op, after, left, size) ==
    [NoCall EXCEPT !.op = op, !.after = after, !.left = left, !.size = size,
                   !.pc = IF IsTail(file.head) THEN "allocate" ELSE "sector"]

(* save_sector() starts by making sure that a tail has a block to link to.  *)
Saving(op, after, left, size) ==
    [NoCall EXCEPT !.op = op, !.after = after, !.left = left, !.size = size,
                   !.pc = IF IsTail(file.head) /\ file.pending = NoGiven
                          THEN "allocate" ELSE "sector"]

Filling(left, size) ==
    [NoCall EXCEPT !.op = "write", !.pc = "fill", !.left = left, !.size = size]

(* A write that may not span blocks flushes once when it does not fit. *)
Write(n) ==
    LET crowded == WithinBlock /\ file.inBlock > 0 /\ BlockRoom - file.inBlock < n
    IN  /\ Idle /\ Writing
        /\ file.head # NoAddress
        /\ n \in Sizes /\ file.position + n <= MaxPosition
        /\ call' = IF crowded /\ file.pos > 0
                   THEN Saving("write", "fill unless full", n, n)
                   ELSE Filling(n, n)
        /\ UNCHANGED <<medium, free, file, client, counters>>

RoomLeft == Room(file.head) - file.pos

(* Mutant: a write that may not span sectors is cut where one ends. *)
FlushWhenFull == RoomLeft = 0

(* Mutant: a write that just fits is put off. *)
FlushWhenFits == IF whole THEN RoomLeft <= call.size ELSE RoomLeft = 0

MustFlush == IF whole THEN RoomLeft < call.size ELSE RoomLeft = 0

(* Only one of the two ways to flush looks at whether there is more room.   *)
(* A flush() of nothing succeeds, and the loop goes around.                 *)
FillFlushes ==
    /\ Running("fill") /\ MustFlush
    /\ call' = IF file.pos = 0 THEN call
               ELSE Saving("write", IF whole THEN "fill" ELSE "fill unless full",
                           call.left, call.size)
    /\ UNCHANGED <<medium, free, file, client, counters>>

(* With OpenMode::MultipleWrites the sector is saved after every write. *)
FillBuffer ==
    LET copying == IF call.left < RoomLeft THEN call.left ELSE RoomLeft
        left    == call.left - copying
    IN  /\ Running("fill") /\ ~MustFlush
        /\ file' = [file EXCEPT !.pos = @ + copying, !.inBlock = @ + copying,
                                !.position = @ + copying]
        /\ call' = CASE left > 0 -> Filling(left, call.size)
                     [] left = 0 /\ file.mode = "multiple"
                            -> Saving("write", "keep", 0, call.size)
                     [] OTHER -> NoCall
        /\ UNCHANGED <<medium, free, client, counters>>

(* close() is flush(): the file may go on being written. *)
Flush ==
    /\ Idle /\ Writing /\ file.pos > 0
    /\ call' = Saving("flush", "return", 0, 0)
    /\ UNCHANGED <<medium, free, file, client, counters>>

(* The destructor of a file that is not read-only closes it. *)
Close ==
    /\ Idle /\ file.mode # "closed"
    /\ IF Writing /\ file.pos > 0
       THEN /\ call' = Saving("close", "return", 0, 0)
            /\ UNCHANGED file
       ELSE /\ file' = Closed
            /\ UNCHANGED call
    /\ UNCHANGED <<medium, free, client, counters>>

(* Mutant: the last block of an extent is never used. *)
OffersTooFew ==
    LET next == IF file.head = NoAddress THEN FirstBlock ELSE file.head.block + 1
    IN  {[block |-> IF next + 1 \in Blocks THEN next ELSE NoBlock,
          erased |-> FALSE]}

(* What allocate() may return.  SerialFlashAllocator gives any free block,  *)
(* as far as this module is concerned; an extent gives the block after the  *)
(* one the file is in, or its first.                                        *)
Offers ==
    IF Extent
    THEN LET next == IF file.head = NoAddress THEN FirstBlock
                                              ELSE file.head.block + 1
         IN  {[block |-> IF next \in Blocks THEN next ELSE NoBlock,
               erased |-> FALSE]}
    ELSE {g \in Given : /\ g.block \in free
                        /\ heads[g.block] # "file"
                        /\ g.erased => /\ heads[g.block] = "none"
                                       /\ sectors[g.block] = Blank}

Formatting == call.op \in {"format", "erase"}

(* Mutant: a block is never erased before it is begun. *)
BeginsUnerased(given, entering) == IF entering THEN "enter head" ELSE "head"

(* initialize(allocated, previous) erases the block unless it is erased. *)
Begins(given, entering) ==
    IF given.erased THEN IF entering THEN "enter head" ELSE "head"
                    ELSE IF entering THEN "enter erase" ELSE "erase"

(* Mutant: the block a tail links to is begun after the tail is written. *)
AllocateUnbegun(given) ==
    /\ Running("allocate")
    /\ given \in Offers
    /\ given.block = NoBlock => ~Formatting
    /\ free' = free \ {given.block}
    /\ file' = IF Formatting THEN file ELSE [file EXCEPT !.pending = given]
    /\ call' = [call EXCEPT !.block = given,
                   !.pc = IF Formatting THEN Begins(given, TRUE) ELSE "sector"]
    /\ UNCHANGED <<medium, client, counters>>

(* At the end of an extent a tail is written without a link. *)
Allocate(given) ==
    /\ Running("allocate")
    /\ given \in Offers
    /\ given.block = NoBlock => ~Formatting
    /\ free' = free \ {given.block}
    /\ file' = IF Formatting THEN file ELSE [file EXCEPT !.pending = given]
    /\ call' = [call EXCEPT !.block = given,
                   !.pc = IF given.block = NoBlock THEN "sector"
                                                   ELSE Begins(given, Formatting)]
    /\ UNCHANGED <<medium, client, counters>>

(* Assertions in allocate_internal() and in initialize(). *)
OutOfBlocks ==
    /\ Running("allocate")
    /\ \A given \in Offers : given.block = NoBlock /\ Formatting
    /\ Reset
    /\ UNCHANGED counters

EraseBlock(b) ==
    /\ heads' = [heads EXCEPT ![b] = "none"]
    /\ sectors' = [sectors EXCEPT ![b] = Blank]

BeginErases ==
    /\ call.pc \in {"erase", "enter erase"}
    /\ EraseBlock(call.block.block)
    /\ call' = [call EXCEPT !.pc = IF @ = "erase" THEN "head" ELSE "enter head"]
    /\ UNCHANGED <<free, file, client, counters>>

BeginBlock ==
    /\ Running("head")
    /\ heads' = [heads EXCEPT ![call.block.block] = "file"]
    /\ call' = [call EXCEPT !.pc = "sector"]
    /\ UNCHANGED <<sectors, free, file, client, counters>>

(* What a call does after a flush. *)
Continue(f) ==
    LET more == \/ call.after = "fill"
                \/ call.after = "fill unless full" /\ f.head # NoAddress
    IN  /\ file' = IF call.op = "close" THEN Closed ELSE f
        /\ call' = IF more THEN Filling(call.left, call.size) ELSE NoCall

(* Mutant: a tail counts the bytes of its sector only. *)
SavedCountsSector ==
    [first |-> file.position - file.pos, life |-> life, bytes |-> file.pos,
     inBlock |-> IF IsTail(file.head) THEN file.pos ELSE 0,
     link |-> IF IsTail(file.head) THEN file.pending.block ELSE NoBlock]

Saved == [first   |-> file.position - file.pos,
          life    |-> life,
          bytes   |-> file.pos,
          inBlock |-> IF IsTail(file.head) THEN file.inBlock ELSE 0,
          link    |-> IF IsTail(file.head) THEN file.pending.block ELSE NoBlock]

SaveSector ==
    sectors' = [sectors EXCEPT ![file.head.block][file.head.sector] = Saved]

(* flush() begins the linked block a second time. *)
WriteSector ==
    LET flushed == [file EXCEPT !.pos = 0, !.pending = NoGiven]
    IN  /\ Running("sector")
        /\ file.head # NoAddress
        /\ SaveSector
        /\ durable' = IF file.position > durable THEN file.position ELSE durable
        /\ CASE call.after = "keep" ->
                    /\ call' = NoCall
                    /\ UNCHANGED file
             [] call.after # "keep" /\ ~IsTail(file.head) ->
                    Continue([flushed EXCEPT !.head.sector = @ + 1])
             [] call.after # "keep" /\ IsTail(file.head) /\ file.pending = NoGiven ->
                    Continue([flushed EXCEPT !.head = NoAddress, !.inBlock = 0])
             [] OTHER ->
                    /\ file' = flushed
                    /\ call' = [call EXCEPT !.block = file.pending,
                                   !.pc = Begins(file.pending, TRUE)]
        /\ UNCHANGED <<heads, free, start, whole, life, counters>>

(* The storage asserts that the address is a valid one. *)
WriteNowhere ==
    /\ Running("sector")
    /\ file.head = NoAddress
    /\ Reset
    /\ UNCHANGED counters

(* head_ = initialize(...), in flush() and in format(). *)
EnterBlock ==
    LET b       == call.block.block
        entered == [file EXCEPT !.head = At(b, 1), !.inBlock = 0]
    IN  /\ Running("enter head")
        /\ heads' = [heads EXCEPT ![b] = "file"]
        /\ IF Formatting
           THEN /\ start' = b /\ life' = formats /\ durable' = 0
                /\ file' = IF Extent THEN Closed ELSE entered
                /\ call' = NoCall
                /\ UNCHANGED whole
           ELSE /\ Continue(entered)
                /\ UNCHANGED client
        /\ UNCHANGED <<sectors, free, counters>>

-----------------------------------------------------------------------------
(* format(), erase_all_blocks() and SimpleFile::erase(). *)

Format(mode) ==
    /\ Idle /\ file.mode = "closed" /\ mode \in Modes
    /\ start = NoBlock
    /\ formats < MaxFormats
    /\ formats' = formats + 1
    /\ file' = [Closed EXCEPT !.mode = mode]
    /\ call' = [NoCall EXCEPT !.op = "format", !.pc = "allocate"]
    /\ UNCHANGED <<medium, free, client, crashes, faults>>

(* The client gives the file up before it has its blocks freed.             *)
EraseAllBlocks ==
    /\ ~Extent /\ Idle /\ Writing /\ start # NoBlock
    /\ formats < MaxFormats
    /\ formats' = formats + 1
    /\ start' = NoBlock
    /\ call' = [NoCall EXCEPT !.op = "erase", !.pc = "free",
                              !.rest = Visited(start)]
    /\ UNCHANGED <<medium, free, file, whole, life, durable, crashes, faults>>

FreeErases ==
    /\ Running("free")
    /\ EraseBlock(Least(call.rest))
    /\ call' = [call EXCEPT !.pc = "mark"]
    /\ UNCHANGED <<free, file, client, counters>>

(* After the last one erase() resets the object, but not pending_allocation_. *)
FreeMarks ==
    LET b == Least(call.rest)
    IN  /\ Running("mark")
        /\ heads' = [heads EXCEPT ![b] = "free"]
        /\ free' = free \union {b}
        /\ call' = [call EXCEPT !.rest = @ \ {b},
                       !.pc = IF call.rest = {b} THEN "allocate" ELSE "free"]
        /\ file' = IF call.rest # {b} THEN file
                   ELSE [Closed EXCEPT !.mode = file.mode, !.pending = file.pending]
        /\ UNCHANGED <<sectors, client, counters>>

(* SimpleFile::erase() seeks to the beginning before it formats.  The client*)
(* gives up what is in the file.                                            *)
EraseExtent ==
    /\ Extent /\ Idle /\ file.mode = "closed" /\ start # NoBlock
    /\ formats < MaxFormats
    /\ formats' = formats + 1
    /\ file' = Sought([Closed EXCEPT !.mode = "write"], 0)
    /\ call' = [NoCall EXCEPT !.op = "erase", !.pc = "allocate"]
    /\ start' = NoBlock
    /\ UNCHANGED <<medium, free, whole, life, durable, crashes, faults>>

-----------------------------------------------------------------------------
(* seek() and read() of a file that is open for reading. *)

Seek(desired) ==
    /\ Idle /\ file.mode = "read"
    /\ SeekBuffered \/ file.pos = file.avail
    /\ desired \in 0 .. FileSize
    /\ file' = Sought(file, desired)
    /\ UNCHANGED <<medium, free, call, client, counters>>

(* Where read() goes on after a sector. *)
NextHead(at, sector) ==
    IF ~IsTail(at) THEN At(at.block, at.sector + 1)
    ELSE IF sector.link # NoBlock THEN At(sector.link, 1) ELSE NoAddress

(* Mutant: what a seek has to skip in its sector is forgotten. *)
BufferedFromStart(f, sector) ==
    IF Empty(sector) THEN [f EXCEPT !.pos = 0, !.avail = 0]
    ELSE [f EXCEPT !.pos = 0, !.avail = sector.bytes, !.offset = 0]

(* An unwritten sector ends the file. *)
Buffered(f, sector) ==
    IF Empty(sector) THEN [f EXCEPT !.pos = 0, !.avail = 0]
    ELSE [f EXCEPT !.pos = file.offset, !.avail = sector.bytes, !.offset = 0]

(* The next sector is read when the buffer is used up. *)
Loaded ==
    LET at     == IF file.head.sector = 0 THEN At(file.head.block, 1) ELSE file.head
        sector == sectors[at.block][at.sector]
    IN  IF file.pos # file.avail THEN file
        ELSE IF file.head = NoAddress THEN [file EXCEPT !.pos = 0, !.avail = 0]
        ELSE Buffered([file EXCEPT !.buffer = sector, !.head = NextHead(at, sector)],
                      sector)

Read(n) ==
    LET remaining == Loaded.avail - Loaded.pos
        copying   == IF remaining > n THEN n ELSE remaining
    IN  /\ Idle /\ file.mode = "read"
        /\ file' = [Loaded EXCEPT !.pos = @ + copying, !.position = @ + copying]
        /\ UNCHANGED <<medium, free, call, client, counters>>

-----------------------------------------------------------------------------
(* Power loss, and sector writes that the storage reports as failed.  An    *)
(* erase or a head that fails is an assertion, which is like power loss.    *)

Crash ==
    /\ crashes < MaxCrashes
    /\ crashes' = crashes + 1
    /\ Reset
    /\ UNCHANGED <<formats, faults>>

Doomed == CASE call.pc \in {"erase", "enter erase"} -> {call.block.block}
            [] call.pc = "free"                     -> {Least(call.rest)}
            [] OTHER                                -> {}

CrashInErase(b, headKept, kept) ==
    /\ crashes < MaxCrashes
    /\ crashes' = crashes + 1
    /\ b \in Doomed
    /\ ResetTo([heads EXCEPT ![b] = IF headKept THEN @ ELSE "none"],
               [sectors EXCEPT ![b] =
                   [s \in Sectors |-> IF s \in kept THEN @[s] ELSE Unwritten]])
    /\ UNCHANGED <<formats, faults>>

(* What is in the buffer and pending_allocation_ are kept for another try. *)
SectorFails(done) ==
    /\ Running("sector")
    /\ file.head # NoAddress
    /\ faults < MaxFaults
    /\ faults' = faults + 1
    /\ IF done THEN SaveSector ELSE UNCHANGED sectors
    /\ file' = IF call.op = "close" THEN Closed ELSE file
    /\ call' = NoCall
    /\ UNCHANGED <<heads, free, client, formats, crashes>>

-----------------------------------------------------------------------------
(* What the program does by itself once it has been called. *)
Step ==
    \/ FillFlushes
    \/ FillBuffer
    \/ \E given \in Given : Allocate(given)
    \/ OutOfBlocks
    \/ BeginErases
    \/ BeginBlock
    \/ WriteSector
    \/ WriteNowhere
    \/ EnterBlock
    \/ FreeErases
    \/ FreeMarks

Next ==
    \/ \E mode \in Modes : OpenToWrite(mode)
    \/ OpenToRead
    \/ \E n \in Sizes : Write(n)
    \/ Flush
    \/ Close
    \/ \E mode \in Modes : Format(mode)
    \/ EraseAllBlocks
    \/ EraseExtent
    \/ \E desired \in 0 .. MaxPosition : Seek(desired)
    \/ \E n \in Sizes : Read(n)
    \/ Step
    \/ Crash
    \/ \E b \in Blocks, headKept \in BOOLEAN, kept \in SUBSET Sectors :
            CrashInErase(b, headKept, kept)
    \/ \E done \in BOOLEAN : SectorFails(done)

Spec == Init /\ [][Next]_vars

(* One thread runs a call to its end. *)
FairSpec == Spec /\ WF_vars(Step)

-----------------------------------------------------------------------------
(* Properties. *)

(* Whatever was reported as written to the medium is found again, at any    *)
(* moment power may be lost: a seek to the end gets at least that far.      *)
NothingFlushedIsLost == start # NoBlock => FileSize >= durable

(* Every position up to the end of the file is found by seek(), in the      *)
(* sector and at the offset where the byte at that position was written.    *)
EveryByteIsFound ==
    start # NoBlock =>
        \A p \in 0 .. FileSize - 1 :
            LET info   == SeekFrom(start, p)
                sector == sectors[info.head.block][info.head.sector]
            IN  /\ info.bytes = p
                /\ sector.life = life
                /\ sector.first + info.offset = p
                /\ info.offset < sector.bytes

(* A reader is given the bytes at the position it has reached, however it   *)
(* got there by reading in pieces and seeking, and it is not told that the  *)
(* file ends before its end.  What StopsAtTheEnd is about is excluded.      *)
ReadsWhatWasWritten ==
    Idle /\ file.mode = "read" /\ ~(Extent /\ whole) =>
        /\ Loaded.pos < Loaded.avail =>
               /\ Loaded.buffer.life = life
               /\ Loaded.buffer.first + Loaded.pos = Loaded.position
               /\ Loaded.avail <= Loaded.buffer.bytes
        /\ Loaded.pos = Loaded.avail => Loaded.position >= durable

(* The medium is programmed after an erase only, also where a file that was *)
(* opened again goes on: no write covers what another one has written.      *)
WritesErasedSectors ==
    Running("sector") /\ file.head # NoAddress /\ file.mode = "write" /\ faults = 0
        => sectors[file.head.block][file.head.sector] = Unwritten

(* What walk() reports is what the file occupies: as long as nothing went   *)
(* wrong, the blocks that are not free are those of the file, also the one  *)
(* that a tail, saved in the mode that saves after every write, links to.   *)
NoBlockLeaks ==
    Idle /\ ~Extent /\ start # NoBlock /\ crashes + faults = 0 =>
        Blocks \ free = Visited(start)

(* A block that a file links to has been begun: it carries the head by      *)
(* which the allocator knows, after a restart, that it is taken.            *)
LinkedBlocksAreBegun ==
    Idle /\ start # NoBlock => \A b \in Visited(start) : heads[b] = "file"

(* Writes that may not span sectors are found whole in a sector each.       *)
RecordsAreWhole ==
    whole /\ start # NoBlock =>
        \A b \in Visited(start), s \in Sectors, n \in Sizes :
            ~Empty(sectors[b][s]) => /\ sectors[b][s].first % n = 0
                                     /\ sectors[b][s].bytes % n = 0

(* Writes that may not span blocks are found in one block each.             *)
WritesStayInBlock ==
    WithinBlock /\ start # NoBlock =>
        \A n \in Sizes, r \in 0 .. MaxPosition :
            (r + 1) * n <= FileSize =>
                SeekFrom(start, r * n).head.block
                    = SeekFrom(start, (r + 1) * n - 1).head.block

(* A file that has come to the end of its extent buffers nothing more.      *)
StopsAtTheEnd == Writing /\ Idle /\ file.head = NoAddress => file.pos = 0

(* A file that is full has used every block of its extent, from the one it  *)
(* starts in.                                                               *)
FullFileUsesExtent ==
    Extent /\ Idle /\ Writing /\ start # NoBlock /\ file.head = NoAddress =>
        Visited(start) = {b \in Blocks : b >= start}

(* A file in an extent starts in its first block, whose bytes maximum_size()*)
(* counts, in each of its lives.                                            *)
StartsItsExtent == Extent /\ Idle /\ start # NoBlock => start = FirstBlock

(* A seek further than the end of the file does not succeed.                *)
SeekStopsAtEnd ==
    start # NoBlock =>
        \A p \in FileSize + 1 .. FileSize + SectorRoom :
            SeekFrom(start, p).bytes # p

(* Every call ends, with the program idle or reset.                         *)
CallsReturn == ~Idle ~> Idle
=============================================================================
