----------------------------- MODULE BlockLayout -----------------------------
(***************************************************************************)
(* Chains of blocks that entries are appended to (phylum/layout.h): the    *)
(* nodes of the tree and the free pile are kept this way.  The first       *)
(* sector of a block holds its head; the last units hold the link to the   *)
(* block that follows, blank in the last block of the chain.               *)
(*                                                                         *)
(* A block is [head |-> the block before or Blank, at |-> what was written *)
(* at each position, tail |-> the block after or Blank].  The operators    *)
(* take the disk, a function from blocks, as their first argument and      *)
(* give the writes of a call as a sequence, so that a run can stop between *)
(* two of them.                                                            *)
(***************************************************************************)
EXTENDS Addressing, Sequences

CONSTANT TailSize   \* sizeof(TTail)

ASSUME TailAssumption == TailSize \in Nat /\ TailSize >= 1

Blank == [kind |-> "blank"]

ErasedBlock ==
    [head |-> Blank, at |-> [p \in 0..(BlockSize - 1) |-> Blank], tail |-> Blank]

-----------------------------------------------------------------------------
(* What one write leaves behind.                                           *)

Erase(block)          == [op |-> "erase", block |-> block]
WriteHead(block, prev) == [op |-> "head", block |-> block, link |-> prev]
WriteTail(block, link) == [op |-> "tail", block |-> block, link |-> link]
WriteEntry(a, entry)  == [op |-> "entry", block |-> a.block,
                          position |-> a.position, entry |-> entry]

Apply(disk, w) ==
    CASE w.op = "erase" -> [disk EXCEPT ![w.block] = ErasedBlock]
      [] w.op = "head"  -> [disk EXCEPT ![w.block].head = [kind |-> "link", to |-> w.link]]
      [] w.op = "tail"  -> [disk EXCEPT ![w.block].tail = [kind |-> "link", to |-> w.link]]
      [] w.op = "entry" -> [disk EXCEPT ![w.block].at[w.position] = w.entry]

\* verify_head, and the link in a tail: none when the tail is blank.
HasHead(disk, block) == disk[block].head # Blank
Following(disk, block) ==
    IF disk[block].tail = Blank THEN NoBlock ELSE disk[block].tail.to

-----------------------------------------------------------------------------
ShouldMove(a, n) == RemainingInBlock(a) < n + TailSize

\* write_head erases the block first; write_tail links the block left.
m_Begun(block, prev) == <<WriteHead(block, prev)>>   \* as the allocator gave it
Begun(block, prev) == <<Erase(block), WriteHead(block, prev)>>
m_Linked(a, block) == <<>>   \* left without a link
Linked(a, block) == IF IsValid(a) THEN <<WriteTail(a.block, block)>> ELSE <<>>

\* find_available: where an entry of n units goes after a, the writes that
\* prepare the place, and whether the block `fresh' was taken for it.
FindAvailable(a, n, fresh) ==
    IF ~IsValid(a) \/ ShouldMove(a, n)
    THEN [at     |-> Address(fresh, SectorSize),
          taken  |-> TRUE,
          writes |-> Begun(fresh, a.block) \o Linked(a, fresh)]
    ELSE IF a.position = 0
    THEN [at |-> Address(a.block, SectorSize), taken |-> FALSE,
          writes |-> Begun(a.block, NoBlock)]
    ELSE [at |-> FindRoom(a, n), taken |-> FALSE, writes |-> <<>>]

\* walk_to_end: the last entry of the chain that starts at a block and the
\* place after it.  A block that links to another is skipped whole, and a
\* last block without a place for another entry gives neither.
NoEnd == [entry |-> NoAddress, available |-> NoAddress]

RECURSIVE WalkToEnd(_, _, _, _)
WalkToEnd(disk, a, found, n) ==
    IF ~HasRoom(a, n) THEN NoEnd
    ELSE IF a.position = 0
    THEN IF ~HasHead(disk, a.block) THEN NoEnd
         ELSE IF IsValidBlock(Following(disk, a.block))
         THEN WalkToEnd(disk, Address(Following(disk, a.block), 0), found, n)
         ELSE WalkToEnd(disk, Advanced(a, SectorSize), found, n)
    ELSE LET here == FindRoom(a, n)
         IN  IF disk[here.block].at[here.position] = Blank
             THEN [entry |-> found, available |-> here]
             ELSE WalkToEnd(disk, Advanced(here, n), here, n)

EndOfChain(disk, block, n) == WalkToEnd(disk, Address(block, 0), NoAddress, n)
=============================================================================
