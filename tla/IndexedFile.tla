----------------------------- MODULE IndexedFile -----------------------------
(***************************************************************************)
(* A file in an extent of blocks, with the index that seeks start from     *)
(* (file_index.cpp, simple_file.cpp, and seek() of blocked_file.cpp).      *)
(*                                                                         *)
(* The index is a chain of blocks, filled one after the other.  The head   *)
(* of each has the position of its first record, and a record says in      *)
(* which block of the file a position is.  Where the index ends is found   *)
(* by looking for heads, from the middle.                                  *)
(*                                                                         *)
(* Positions are counted in sectors.  A block on the disk is [type, the    *)
(* position in its head, what its places hold, the link in its tail]:      *)
(* places are records in an index, sectors in a file.                      *)
(***************************************************************************)
EXTENDS FilePreallocator, SequencesExt, TLC

NoBlock    == 0 - 1
Everything == 1000000    \* UINT64_MAX, further than any file reaches

-----------------------------------------------------------------------------
Erased == [type |-> "none", position |-> 0, places |-> <<>>, link |-> NoBlock]

Erase(b)          == [op |-> "erase", block |-> b]
Begin(b, type, p) == [op |-> "head", block |-> b, type |-> type, position |-> p]
Link(b, to)       == [op |-> "link", block |-> b, link |-> to]
Put(b, i, entry)  == [op |-> "put", block |-> b, place |-> i, entry |-> entry]
Sector(b, i, entry, to) ==    \* with its tail, which in the last one links
    [op |-> "sector", block |-> b, place |-> i, entry |-> entry, link |-> to]

Filled(places, i, entry) ==
    IF i > Len(places) THEN Append(places, entry) ELSE [places EXCEPT ![i] = entry]

Written(disk, w) ==
    CASE w.op = "erase" -> [disk EXCEPT ![w.block] = Erased]
      [] w.op = "head"  -> [disk EXCEPT ![w.block].type = w.type,
                                        ![w.block].position = w.position]
      [] w.op = "link"  -> [disk EXCEPT ![w.block].link = w.link]
      [] w.op = "put"   -> [disk EXCEPT ![w.block].places = Filled(@, w.place, w.entry)]
      [] w.op = "sector" -> [disk EXCEPT ![w.block].places = Filled(@, w.place, w.entry),
                                         ![w.block].link = w.link]

-----------------------------------------------------------------------------
(* The index.                                                              *)

\* IndexBlockLayout::format clears the blocks that a search would look at,
\* as long as it finds none begun, and begins the first.
RECURSIVE Cleared(_)
Cleared(e) == IF e.nblocks = 0 THEN <<>>
              ELSE <<Erase(MiddleBlock(e))>> \o Cleared(FirstHalf(e))

m_IndexFormat(e) == <<Erase(e.start), Begin(e.start, "index", 0)>>   \* the first only
IndexFormat(e) == Cleared(e) \o <<Erase(e.start), Begin(e.start, "index", 0)>>

\* IndexBlockLayout::seek: the last block that was found begun.
m_BeforeUnbegun(e) == SecondHalf(e)   \* the wrong half
BeforeUnbegun(e)   == FirstHalf(e)

RECURSIVE Search(_, _, _, _)
Search(disk, e, p, found) ==
    LET b == MiddleBlock(e)
    IN  IF e.nblocks = 0 THEN found
        ELSE IF disk[b].type = "none" THEN Search(disk, BeforeUnbegun(e), p, found)
        ELSE IF disk[b].position = p THEN b
        ELSE Search(disk, IF disk[b].position > p THEN FirstHalf(e) ELSE SecondHalf(e),
                    p, b)

\* BlockLayout::walk over the records from a block on, and where it ends: it
\* wants room for two, so that the last place of a block is never read.
RECURSIVE Records(_, _)
Records(disk, b) ==
    LET there == disk[b].places
    IN  IF disk[b].type = "none" THEN [records |-> <<>>, end |-> [block |-> b, place |-> 0]]
        ELSE IF Len(there) < RecordsPerBlock - 1
        THEN [records |-> there, end |-> [block |-> b, place |-> Len(there) + 1]]
        ELSE LET seen == SubSeq(there, 1, RecordsPerBlock - 1)
             IN  IF disk[b].link = NoBlock
                 THEN [records |-> seen, end |-> [block |-> b, place |-> RecordsPerBlock]]
                 ELSE LET more == Records(disk, disk[b].link)
                      IN  [records |-> seen \o more.records, end |-> more.end]

\* FileIndex::seek: the last record that is not behind p, before any that is.
NoRecord == [position |-> 0, block |-> NoBlock]
Selected(records, p) ==
    LET past  == {i \in 1..Len(records) : records[i].position > p}
        cut   == IF past = {} THEN Len(records) ELSE Min(past) - 1
        exact == {i \in 1..cut : records[i].position = p}
    IN  IF exact # {} THEN records[Min(exact)]
        ELSE IF cut = 0 THEN NoRecord ELSE records[cut]

IndexSeek(disk, e, p) ==
    Selected(Records(disk, Search(disk, e, p, NoBlock)).records, p)

\* FileIndex::initialize.  Nothing begun at all is assert(0).
HasIndex(disk, e)   == Search(disk, e, Everything, NoBlock) # NoBlock
EndOfIndex(disk, e) == Records(disk, Search(disk, e, Everything, NoBlock)).end

\* ExtentAllocator: past its extent the index starts over.
BlockAfter(e, b) == IF Within(e, b + 1) THEN b + 1 ELSE e.start

\* FileIndex::append: the new end, and what is written.  A block that is begun
\* for a record is linked before the record is there.
Appended(e, at, p, block) ==
    LET record == [position |-> p, block |-> block]
        next   == BlockAfter(e, at.block)
    IN  IF at.place > RecordsPerBlock
        THEN [end    |-> [block |-> next, place |-> 2],
              writes |-> <<Erase(next), Begin(next, "index", p),
                           Link(at.block, next), Put(next, 1, record)>>]
        ELSE IF at.place = 0
        THEN [end    |-> [block |-> at.block, place |-> 2],
              writes |-> <<Erase(at.block), Begin(at.block, "index", 0),
                           Put(at.block, 1, record)>>]
        ELSE [end    |-> [at EXCEPT !.place = @ + 1],
              writes |-> <<Put(at.block, at.place, record)>>]

-----------------------------------------------------------------------------
(* BlockedFile::seek from the start of block b, which is at position p, for *)
(* n more sectors: where it ends, how many blocks it skipped, and what it   *)
(* tells its visitor of each block, one that it skipped being told of with  *)
(* the position behind it.                                                  *)

Visit(b, p) == [block |-> b, position |-> p]

RECURSIVE Walked(_, _, _, _, _)
Walked(disk, b, p, n, visits) ==
    LET there == disk[b]
        into  == Min({n, Len(there.places), BlockRoom - 1})
    IN  IF there.link # NoBlock /\ n >= BlockRoom
        THEN Walked(disk, there.link, p + BlockRoom, n - BlockRoom,
                    Append(visits, Visit(b, p + BlockRoom)))
        ELSE [block |-> b, sector |-> into + 1, position |-> p + into,
              blocks |-> Len(visits), visits |-> Append(visits, Visit(b, p))]

\* SimpleFile::seek.  Without a record it walks from the start of the extent
\* and nobody is told.
Sought(disk, a, p) ==
    LET record == IndexSeek(disk, a.index, p)
        from   == IF record = NoRecord THEN a.data.start ELSE record.block
        found  == Walked(disk, from, record.position, p - record.position, <<>>)
    IN  [found EXCEPT !.visits = IF record = NoRecord THEN <<>> ELSE @]
          @@ [begun |-> disk[from].type = "file"]

\* SimpleFile::block: each IndexFrequency-th block is added to the index.
Repairs(visits) ==
    [i \in 1..(Len(visits) \div IndexFrequency) |-> visits[i * IndexFrequency]]

RECURSIVE Repaired(_, _, _)
Repaired(e, at, repairs) ==
    IF repairs = <<>> THEN [end |-> at, writes |-> <<>>]
    ELSE LET one  == Appended(e, at, Head(repairs).position, Head(repairs).block)
             more == Repaired(e, one.end, Tail(repairs))
         IN  [end |-> more.end, writes |-> one.writes \o more.writes]

\* What the code means a repair to be: the last block of the file, which no
\* block follows yet.  Any other is behind the end of the index.
RepairsTheEnd(disk, visits) ==
    \A i \in DOMAIN Repairs(visits) :
        i * IndexFrequency = Len(visits) /\ disk[Repairs(visits)[i].block].link = NoBlock
=============================================================================
