----------------------------- MODULE FileLayout -----------------------------
(***************************************************************************)
(* A volume of preallocated files (file_layout.h, file_table.cpp) and the  *)
(* files in it (simple_file.cpp).  format() divides the volume, writes     *)
(* where the files are into the table in block 0, and begins each file;    *)
(* mount() reads the table.                                                *)
(*                                                                         *)
(* A call changes the object at once and leaves what it writes in `todo';  *)
(* one step is one write to the device, and power may be lost between two. *)
(* A file is written in whole sectors, of which it buffers the last, and   *)
(* one file is open at a time.                                             *)
(***************************************************************************)
EXTENDS IndexedFile

CONSTANTS
    TableEntries,   \* entries that fit in the block of the table
    Sizes,          \* of writes, in sectors
    MaxLength,      \* bound on the length of each file
    MaxFormats,     \* bound on calls of format() and erase()
    MaxCrashes,     \* bound on losses of power
    Beyond          \* what the program does not survive, see README

Files == DOMAIN MaximumSizes

ASSUME LayoutAssumption ==
    /\ BlockRoom >= 2 /\ RecordsPerBlock >= 2
    /\ TableEntries \in Nat \ {0} /\ Sizes \subseteq Nat \ {0}
    /\ MaxLength \in [Files -> Nat]
    /\ {MaxFormats, MaxCrashes} \subseteq Nat
    /\ Beyond \subseteq {"format", "unbegun", "unrecorded", "stale", "repairs"}

VARIABLES
    disk,       \* the blocks
    todo,       \* what the call that is running has left to write
    mounted,    \* whether the layout knows where the files are
    file,       \* the open file
    durable,    \* of each file: the sectors that were written
    first,      \* and the block they begin in, NoBlock before it is formatted
    life,       \* counts format() and erase(); each begins its files anew
    broken,     \* files that a loss of power broke, see Breaks
    crashes

files == <<durable, first, life, broken>>
vars  == <<divided, disk, todo, mounted, file, files, crashes>>

-----------------------------------------------------------------------------
Closed == [id |-> 0, mode |-> "closed", block |-> NoBlock, sector |-> 0,
           buffered |-> FALSE, blocks |-> 0, position |-> 0, length |-> 0,
           previous |-> 0, stored |-> 0, index |-> [block |-> NoBlock, place |-> 0]]

Idle == todo = <<>>

\* A sector of a file tells which life of the file, and where in it, it is of.
Content(f, n) == [id |-> f, life |-> life[f], number |-> n]

Initially ==
    /\ Init
    /\ disk = [b \in 0..(NumberOfBlocks - 1) |-> Erased]
    /\ todo = <<>> /\ mounted = FALSE /\ file = Closed
    /\ durable = [f \in Files |-> 0] /\ first = [f \in Files |-> NoBlock]
    /\ life = [f \in Files |-> 0] /\ broken = {} /\ crashes = 0

-----------------------------------------------------------------------------
(* BlockedFile::format and FileIndex::format.  The first record says that  *)
(* the file begins in its first block.                                     *)
Formatted(a, b) ==
    LET at == [block |-> a.index.start, place |-> 0]
    IN  <<Erase(b), Begin(b, "file", 0)>> \o IndexFormat(a.index)
          \o Appended(a.index, at, 0, b).writes

TableHead     == <<Erase(0), Begin(0, "table", 0)>>
TableEntry(i) == Put(0, i, allocations[i])

\* FileLayout::format places the files one by one, and then writes all of it.
\* The first entry of the table writes the head of its block once more.
AllocateFile ==
    /\ Idle /\ ~mounted /\ file = Closed
    /\ \A f \in Files : life[f] < MaxFormats
    /\ Allocate
    /\ UNCHANGED <<disk, todo, mounted, file, files, crashes>>

WriteLayout ==
    LET writes[i \in 0..Len(allocations)] ==
            IF i = 0 THEN TableHead \o TableHead
            ELSE writes[i - 1] \o <<TableEntry(i)>>
                   \o Formatted(allocations[i], allocations[i].data.start)
    IN  /\ Idle /\ ~mounted /\ Len(allocations) = Len(MaximumSizes)
        /\ todo' = writes[Len(allocations)]
        /\ mounted' = TRUE
        /\ durable' = [f \in Files |-> 0]
        /\ first' = [f \in Files |-> allocations[f].data.start]
        /\ life' = [f \in Files |-> life[f] + 1]
        /\ broken' = {}
        /\ UNCHANGED <<divided, disk, file, crashes>>

Unmounted == mounted' = FALSE /\ head' = 2 /\ allocations' = <<>> /\ file' = Closed

Unmount ==
    /\ Idle /\ mounted /\ file = Closed
    /\ Unmounted
    /\ UNCHANGED <<disk, todo, files, crashes>>

\* FileLayout::mount reads an entry of the table for each file.
Mount ==
    LET table == disk[0]
    IN  /\ Idle /\ ~mounted /\ allocations = <<>>
        /\ table.type = "table"
        /\ Len(MaximumSizes) <= Min({Len(table.places), TableEntries - 1})
        /\ mounted' = TRUE
        /\ allocations' = SubSeq(table.places, 1, Len(MaximumSizes))
        /\ UNCHANGED <<head, disk, todo, file, files, crashes>>

\* SimpleFile::erase: the file begins anew in the block behind its first.
EraseFile(f) ==
    LET a == allocations[f]
        b == Sought(disk, a, 0).block + 1
    IN  /\ Idle /\ mounted /\ file = Closed
        /\ \A g \in Files : life[g] < MaxFormats
        /\ HasIndex(disk, a.index) /\ Sought(disk, a, 0).begun
        /\ Within(a.data, b)
        /\ todo' = Formatted(a, b)
        /\ durable' = [durable EXCEPT ![f] = 0]
        /\ first' = [first EXCEPT ![f] = b]
        /\ life' = [life EXCEPT ![f] = @ + 1]
        /\ broken' = broken \ {f}
        /\ UNCHANGED <<divided, disk, mounted, file, crashes>>

-----------------------------------------------------------------------------
(* SimpleFile::initialize and seek.                                        *)

\* Blocks of the index that a search comes to once b is begun, and that
\* format() has not cleared: those up to the next one that it has.
NotCleared(e, b) ==
    LET cleared == {w.block : w \in Range(Cleared(e))}
    IN  {x \in b + 1..e.start + e.nblocks - 1 : \A c \in cleared : c <= b \/ x < c}

\* The index grows to a block behind which an earlier life has left heads.
MeetsOld(f, writes) ==
    \E w \in Range(writes) :
        /\ w.op = "head" /\ w.type = "index"
        /\ \E b \in NotCleared(allocations[f].index, w.block) : disk[b].type # "none"

GrowsOverNew(f, writes) == "stale" \in Beyond \/ ~MeetsOld(f, writes)

\* The position that was sought, with what the seek wrote into the index.
At(f, end, p) ==
    LET a    == allocations[f]
        s    == Sought(disk, a, p)
        done == Repaired(a.index, end, Repairs(s.visits))
    IN  [ok     |-> s.begun /\ ("repairs" \in Beyond \/ RepairsTheEnd(disk, s.visits)),
         place  |-> [block |-> s.block, sector |-> s.sector, blocks |-> s.blocks,
                     position |-> s.position, index |-> done.end],
         writes |-> done.writes]

\* A file opened to be read is sought back to its beginning.  What is read
\* there, BlockedFile has: of a reader only what it writes is of interest.
Open(f, mode) ==
    LET a     == allocations[f]
        end   == At(f, EndOfIndex(disk, a.index), Everything)
        place == IF mode = "read" THEN [index |-> end.place.index] ELSE end.place
    IN  /\ Idle /\ mounted /\ file = Closed
        /\ f \notin broken
        /\ HasIndex(disk, a.index) /\ end.ok /\ GrowsOverNew(f, end.writes)
        /\ file' = place @@ [Closed EXCEPT !.id = f, !.mode = mode,
                                 !.length = end.place.position, !.stored = durable[f]]
        /\ todo' = end.writes
        /\ UNCHANGED <<divided, disk, mounted, files, crashes>>

Seek(p) ==
    LET there == At(file.id, file.index, p)
    IN  /\ Idle /\ file.mode = "read"
        /\ there.ok /\ GrowsOverNew(file.id, there.writes)
        /\ file' = [file EXCEPT !.index = there.place.index]
        /\ todo' = there.writes
        /\ UNCHANGED <<divided, disk, mounted, files, crashes>>

-----------------------------------------------------------------------------
(* SimpleFile::write, and the sector that close() flushes.                 *)

\* Where the buffer goes.  A block that follows is begun before it is linked,
\* and again after that.
Flushed(o) ==
    LET here  == Content(o.file.id, o.file.stored)
        next  == o.file.block + 1
        begin == <<Erase(next), Begin(next, "file", 0)>>
        saved == [o.file EXCEPT !.buffered = FALSE, !.stored = @ + 1]
    IN  IF o.file.sector < BlockRoom
        THEN [file   |-> [saved EXCEPT !.sector = @ + 1],
              writes |-> Append(o.writes, Sector(o.file.block, o.file.sector, here, NoBlock))]
        ELSE [file   |-> [saved EXCEPT !.block = next, !.sector = 1, !.blocks = @ + 1],
              writes |-> o.writes \o begin
                           \o <<Sector(o.file.block, o.file.sector, here, next)>> \o begin]

RECURSIVE Buffered(_, _)
Buffered(o, n) ==
    IF n = 0 THEN o
    ELSE IF o.file.buffered THEN Buffered(Flushed(o), n)
    ELSE Buffered([o EXCEPT !.file.buffered = TRUE, !.file.position = @ + 1,
                            !.file.length = @ + 1], n - 1)

\* Whether the block that was reached is put into the index.
IsDue(o) ==
    o.blocks > 0 /\ o.blocks % IndexFrequency = 0 /\ o.previous # o.block

m_Buffer(o) == o.position - (o.sector - 1)   \* forgets what is buffered
StartOfBlock(o) == o.position - (o.sector - 1) - (IF o.buffered THEN 1 ELSE 0)

m_Indexed(o) == o   \* never
Indexed(o) ==
    LET done == Appended(allocations[o.file.id].index, o.file.index,
                         StartOfBlock(o.file), o.file.block)
    IN  IF IsDue(o.file)
        THEN [file   |-> [o.file EXCEPT !.index = done.end, !.previous = o.file.block],
              writes |-> o.writes \o done.writes]
        ELSE o

\* The last block of the extent is not filled: BlockedFile has that case.
Write(n) ==
    LET done == Indexed(Buffered([file |-> file, writes |-> <<>>], n))
    IN  /\ Idle /\ file.mode = "write"
        /\ file.length + n <= MaxLength[file.id]
        /\ Within(allocations[file.id].data, done.file.block + 1)
        /\ GrowsOverNew(file.id, done.writes)
        /\ file' = done.file
        /\ todo' = done.writes
        /\ UNCHANGED <<divided, disk, mounted, files, crashes>>

Close ==
    LET done == Flushed([file |-> file, writes |-> <<>>])
    IN  /\ Idle /\ file # Closed
        /\ todo' = IF file.buffered THEN done.writes ELSE <<>>
        /\ file' = Closed
        /\ UNCHANGED <<divided, disk, mounted, files, crashes>>

-----------------------------------------------------------------------------
Step ==
    LET w == Head(todo)
    IN  /\ ~Idle
        /\ todo' = Tail(todo)
        /\ disk' = Written(disk, w)
        /\ durable' = IF w.op = "sector"
                      THEN [durable EXCEPT ![w.entry.id] = w.entry.number + 1]
                      ELSE durable
        /\ UNCHANGED <<divided, mounted, file, first, life, broken, crashes>>

\* What has not been written: the first record of an index, ...
Pending(f) ==
    {w \in Range(todo) : w.op = "put" /\ Within(allocations[f].index, w.block)}
Formatting(f) == file = Closed /\ Pending(f) # {}

\* ... the head of a block that is linked, ...
Unbegun(f) ==
    /\ ~Idle /\ Head(todo).op = "head" /\ Within(allocations[f].data, Head(todo).block)
    /\ \E b \in DOMAIN disk : disk[b].link = Head(todo).block

\* ... the first record of a block of the index that has its head.
Unrecorded(f) ==
    /\ file # Closed
    /\ \E w \in Pending(f) :
           w.place = 1 /\ \A h \in Range(todo) : h.op = "head" => h.block # w.block

\* A file does not survive power being lost there; others do, wherever it is.
Breaks(f) ==
    \/ "format"     \notin Beyond /\ Formatting(f)
    \/ "unbegun"    \notin Beyond /\ Unbegun(f)
    \/ "unrecorded" \notin Beyond /\ Unrecorded(f)

Crash ==
    /\ crashes < MaxCrashes
    /\ crashes' = crashes + 1
    /\ todo' = <<>>
    /\ broken' = broken \cup {f \in DOMAIN allocations : Breaks(f)}
    /\ Unmounted
    /\ UNCHANGED <<disk, durable, first, life>>

Next ==
    \/ AllocateFile \/ WriteLayout \/ Unmount \/ Mount \/ Close \/ Step \/ Crash
    \/ \E f \in Files : EraseFile(f) \/ Open(f, "read") \/ Open(f, "write")
    \/ \E n \in Sizes : Write(n)
    \/ \E p \in 0..file.length : Seek(p)

LayoutSpec == Initially /\ [][Next]_vars

-----------------------------------------------------------------------------
(* What the volume promises.                                               *)

Mounted == Idle /\ mounted

(* A file can be opened after power was lost in any call of its own or of  *)
(* another file, between any two writes, also after one in a format of the *)
(* volume that came to another file: unless it is one of the few where it  *)
(* Breaks, and until it is formatted again.  The search for the end of its *)
(* index finds a block, where the code asserts one, and the record it      *)
(* starts from names a block with a head.                                  *)
FilesOpen ==
    Mounted => \A f \in Files \ broken :
        /\ HasIndex(disk, allocations[f].index)
        /\ Sought(disk, allocations[f], Everything).begun

(* A seek comes to the sector that was written at the position, in this    *)
(* life of the file, and a seek to the end to the place after the last,    *)
(* whatever earlier lives left in the blocks of the file, and of the index *)
(* as long as that is not where a search comes to it: see GrowsOverNew.    *)
SeekFindsPlace ==
    Mounted => \A f \in Files \ broken :
        LET a == allocations[f]
        IN  /\ \A p \in 0..(durable[f] - 1) :
                   LET s == Sought(disk, a, p)
                   IN  s.position = p /\ disk[s.block].places[s.sector] = Content(f, p)
            /\ Sought(disk, a, Everything).position = durable[f]

(* The length of an open file, found through the index, is what was        *)
(* written: an append goes on where the file ended.                        *)
LengthIsWritten ==
    file # Closed => file.length = file.stored + (IF file.buffered THEN 1 ELSE 0)

(* The records of an index come in the order of the file, and each has the *)
(* position its block begins with.                                         *)
RecordsAreTrue ==
    Mounted => \A f \in Files \ broken :
        LET records == Records(disk, allocations[f].index.start).records
        IN  /\ \A i \in 1..(Len(records) - 1) :
                   records[i].position <= records[i + 1].position
            /\ \A i \in DOMAIN records :
                   LET there == disk[records[i].block].places
                   IN  there = <<>> \/ Head(there) = Content(f, records[i].position)

(* The index keeps seeks short in a file whose writes do not go over more  *)
(* than one end of a block: no more blocks are skipped than two records    *)
(* account for, the one that is lost where a block of the index ends and   *)
(* the one of the block that close() has just come to.                     *)
SeekIsShort ==
    Mounted => \A f \in Files \ broken : \A p \in 0..durable[f] :
        Sought(disk, allocations[f], p).blocks <= 2 * IndexFrequency

(* The index has room for the file: it never comes round to its first      *)
(* block, where the record of the beginning is.                            *)
IndexKeepsItsStart ==
    Mounted => \A f \in Files \ broken :
        disk[allocations[f].index.start].position = 0

(* format() clears blocks of the index "so that we know the index hasn't   *)
(* been written to them yet" (file_index.cpp:53-55): the search for the    *)
(* end of the index finds where its chain of blocks ends.                  *)
IndexEndIsFound ==
    Mounted => \A f \in Files \ broken :
        LET e == allocations[f].index
        IN  EndOfIndex(disk, e) = Records(disk, e.start).end
=============================================================================
