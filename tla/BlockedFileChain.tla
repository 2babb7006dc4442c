-------------------------- MODULE BlockedFileChain --------------------------
(***************************************************************************)
(* Why a file in blocks from the allocator keeps its promises: the         *)
(* invariant that the properties of BlockedFile follow from.               *)
(*                                                                         *)
(* On the medium the file is a chain of blocks: all but the last are full  *)
(* and link to the next, the last is written up to some sector.  Bytes     *)
(* follow one another without a gap.  What a writer has buffered goes      *)
(* behind that, or is, in part, the last sector that was written.          *)
(***************************************************************************)
EXTENDS BlockedFile

(* A file whose blocks come from the allocator, and that is not appended to *)
(* after a restart that may have found one of its blocks unbegun.           *)
InPool == ~Extent /\ Reopens # "always" /\ ~SeekBuffered

-----------------------------------------------------------------------------
(* The file on the medium. *)

(* Where the first n sectors of a block end, the first byte of it being `from'. *)
Ends(blk, from, n) == IF n = 0 THEN from ELSE blk[n].first + blk[n].bytes

Written(blk, l, from, n) ==
    \A s \in 1 .. n :
        /\ blk[s].life = l
        /\ blk[s].bytes \in 1 .. SectorRoom
        /\ blk[s].first = Ends(blk, from, s - 1)

Full(blk, l, from, to, next) ==
    /\ Written(blk, l, from, TailSector)
    /\ Ends(blk, from, TailSector) = to
    /\ blk[TailSector].inBlock = to - from
    /\ blk[TailSector].link = next

Part(blk, l, from, m) ==
    /\ Written(blk, l, from, m)
    /\ \A s \in m + 1 .. TailSector : blk[s] = Unwritten

(* The blocks of a file in order. *)
IsPath(path, k, st) ==
    /\ path[0] = st
    /\ \A i, j \in 0 .. k : path[i] = path[j] => i = j

(* The chain has k + 1 blocks, the first bytes of which are at `base', and  *)
(* m sectors of the last block are written.                                 *)
IsChain(ss, l, k, path, base, m) ==
    /\ base[0] = 0
    /\ \A i \in 0 .. k - 1 : Full(ss[path[i]], l, base[i], base[i + 1], path[i + 1])
    /\ Part(ss[path[k]], l, base[k], m)

Size(ss, k, path, base, m) == Ends(ss[path[k]], base[k], m)

-----------------------------------------------------------------------------
(* The file object over it. *)

Entering == call.pc \in {"enter erase", "enter head"}

(* The sector in the buffer is not on the medium, ... *)
Own(k, path, base, m) ==
    /\ file.head = At(path[k], m + 1)
    /\ file.position = Size(sectors, k, path, base, m) + file.pos
    /\ file.inBlock = file.position - base[k]

(* ... or part of it is, ... *)
Kept(k, path, base, m) ==
    /\ m > 0
    /\ file.head = At(path[k], m)
    /\ file.position = sectors[path[k]][m].first + file.pos
    /\ sectors[path[k]][m].bytes <= file.pos
    /\ file.inBlock = file.position - base[k]

(* ... and, if it is a tail, leads to the pending block. *)
Linked(k, path, base, m) ==
    LET tail == sectors[path[k - 1]][TailSector]
    IN  /\ k > 0 /\ m = 0
        /\ file.head = At(path[k - 1], TailSector)
        /\ file.pending.block = path[k]
        /\ file.position = tail.first + file.pos
        /\ tail.bytes <= file.pos
        /\ file.inBlock = file.position - base[k - 1]

(* flush() has written a tail and begins the next block again. *)
Crossing(k, path, base, m) ==
    /\ k > 0 /\ m = 0
    /\ file.head = At(path[k - 1], TailSector)
    /\ file.pending = NoGiven /\ call.block.block = path[k]
    /\ file.pos = 0 /\ file.position = base[k]
    /\ durable > 0

(* A tail that is written, or written again, needs a block that was begun.  *)
AtTail == file.head.sector = TailSector
HasPending == AtTail /\ file.pending # NoGiven

PendingIsBegun(k, path, base, m) ==
    /\ Own(k, path, base, m) => \A i \in 0 .. k : path[i] # file.pending.block
    /\ file.pending.block \in Blocks \ free
    /\ call.pc # "erase" => sectors[file.pending.block] = Blank
    /\ call.pc \notin {"erase", "head"} => heads[file.pending.block] = "file"
    /\ call.pc \in {"erase", "head"} =>
           Own(k, path, base, m) /\ call.block = file.pending

Appending(k, path, base, m) ==
    /\ IF Entering THEN Crossing(k, path, base, m)
       ELSE \/ Own(k, path, base, m)
            \/ /\ Kept(k, path, base, m) \/ Linked(k, path, base, m)
               /\ faults = 0 => file.mode = "multiple"
    /\ HasPending => PendingIsBegun(k, path, base, m)
    /\ call.pc \in {"none", "fill"} /\ faults = 0 /\ HasPending =>
           Linked(k, path, base, m)

(* Where a reader will find the byte that follows its buffer. *)
StartOf(ss, k, path, base, m, i, s) ==
    IF i < k \/ s <= m THEN ss[path[i]][s].first ELSE Size(ss, k, path, base, m)

Reading(f, k, path, base, m) ==
    LET next == f.position + (f.avail - f.pos)
        s    == IF f.head.sector = 0 THEN 1 ELSE f.head.sector
    IN  /\ f.pos <= f.avail
        /\ f.pos < f.avail =>
               /\ f.buffer.life = life
               /\ f.buffer.first + f.pos = f.position
               /\ f.avail <= f.buffer.bytes
               /\ f.offset = 0
        /\ f.head = NoAddress => next = Size(sectors, k, path, base, m)
        /\ f.head # NoAddress =>
               \E i \in 0 .. k :
                   /\ f.head.block = path[i]
                   /\ f.head.sector = 0 => i = 0
                   /\ next = StartOf(sectors, k, path, base, m, i, s) + f.offset
                   /\ f.offset > 0 => /\ i < k \/ s <= m
                                      /\ f.offset < sectors[path[i]][s].bytes
        /\ f.head = NoAddress => f.offset = 0

-----------------------------------------------------------------------------
(* What the allocator knows of its blocks. *)

(* Blocks of a file are not free; each has a head, but for the last while   *)
(* it is begun again.  After a restart this matters only while the file is  *)
(* empty, as it is not appended to otherwise.                               *)
Claimed(k, path) ==
    durable = 0 \/ crashes = 0 \/ Writing =>
        \A i \in 0 .. k : /\ path[i] \notin free
                          /\ heads[path[i]] = "file" \/ (Entering /\ i = k)

(* As long as nothing goes wrong no other block is taken. *)
AllClaimed(k, path) ==
    crashes + faults = 0 =>
        \A b \in Blocks :
            b \notin free <=> \/ \E i \in 0 .. k : b = path[i]
                              \/ HasPending /\ b = file.pending.block

FreeIsUnbegun == \A b \in free : heads[b] # "file"

-----------------------------------------------------------------------------
(* The calls. *)

(* The calls that write, and what they still have to. *)
CallOK ==
    /\ call.pc = "none" <=> Idle
    /\ ~Writing => Idle /\ file.pending = NoGiven
    /\ file.mode = "closed" => file = Closed
    /\ Writing =>
           /\ file.pending = NoGiven \/ file.pending.block \in Blocks
           /\ start = NoBlock <=> call.op \in {"format", "erase"}
    /\ start = NoBlock => Writing \/ file.mode = "closed"
    /\ call.op \in {"format", "erase"} =>
           call.pc \in {"free", "mark", "allocate", "enter erase", "enter head"}
    /\ call.pc \in {"free", "mark"} <=> call.rest # {}
    /\ call.pc \in {"free", "mark"} => call.op = "erase"
    /\ ~Idle /\ start # NoBlock => call.op \in {"write", "flush", "close"}
    /\ call.pc = "fill" => call.op = "write"

Filled ==
    Writing /\ start # NoBlock =>
        /\ file.pos <= Room(file.head)
        /\ file.position + call.left <= MaxPosition
        /\ call.pc = "fill" \/ call.after \in {"fill", "fill unless full"}
               => call.left > 0 /\ call.op = "write"
        /\ call.after = "keep" => file.mode = "multiple" /\ call.op = "write"
        /\ call.pc \in {"allocate", "erase", "head", "sector"} => file.pos > 0
        /\ call.pc \in {"erase", "head"} => HasPending
        /\ call.pc = "allocate" => AtTail /\ file.pending = NoGiven
        /\ call.pc = "sector" /\ AtTail => HasPending

(* The block that format() begins, and those that are still to be freed.    *)
FormatsBlock ==
    start = NoBlock =>
        /\ call.pc \notin {"free", "mark"} => file.pos = 0 /\ file.position = 0
        /\ Entering => /\ call.block.block \in Blocks \ free
                       /\ call.pc = "enter head" => sectors[call.block.block] = Blank
        /\ crashes + faults = 0 =>
               \A b \in Blocks : b \notin free <=> \/ b \in call.rest
                                                   \/ Entering /\ b = call.block.block

-----------------------------------------------------------------------------
FileIs(k, path, base, m) ==
    /\ IsPath(path, k, start)
    /\ IsChain(sectors, life, k, path, base, m)
    /\ Size(sectors, k, path, base, m) <= MaxPosition
    /\ durable <= Size(sectors, k, path, base, m)
    /\ Claimed(k, path)
    /\ AllClaimed(k, path)
    /\ Writing => Appending(k, path, base, m)
    /\ file.mode = "read" => Reading(file, k, path, base, m)

FileInv ==
    /\ TypeOK /\ CallOK /\ Filled /\ FormatsBlock /\ FreeIsUnbegun
    /\ start # NoBlock =>
           \E k \in 0 .. NumberOfBlocks - 1, m \in 0 .. TailSector - 1 :
           \E path \in [0 .. k -> Blocks] :
           \E base \in [0 .. k -> 0 .. MaxPosition] :
               FileIs(k, path, base, m)
=============================================================================
