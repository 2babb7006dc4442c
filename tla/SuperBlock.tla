----------------------------- MODULE SuperBlock -----------------------------
(***************************************************************************)
(* SuperBlockManager: the chain  anchors -> link2 -> link1 -> super block. *)
(*                                                                         *)
(* The super block is appended, sector by sector, to a block.  When that   *)
(* block is full the super block moves to a fresh block and the link that  *)
(* names the block is appended, one level up, in the same way; at the top  *)
(* two fixed anchor blocks take turns.  Nothing is updated in place, and   *)
(* locate() finds the newest super block by following time stamps.         *)
(*                                                                         *)
(* One step is one storage or allocator operation, so power may be lost    *)
(* between any two of them, or in the middle of an erase.  `calls' is the  *)
(* stack of nested rollover() calls.  The storage may also report an       *)
(* operation as failed, whether or not it took effect.                     *)
(***************************************************************************)
EXTENDS LinkChain, Sequences

CONSTANTS
    MaxSaves,            \* bound on calls of save()
    MaxFormats,          \* bound on calls of create() over a found volume
    MaxCrashes,          \* bound on losses of power
    MaxFaults            \* bound on failures the storage reports

(* create() stores 0 and the n-th save() stores n: contents only matter up  *)
(* to equality, so all different is the worst case.                         *)
ASSUME BoundsAssumption ==
    /\ MaxSaves \in Nat /\ MaxFormats \in Nat
    /\ MaxCrashes \in Nat /\ MaxFaults \in Nat
    /\ 0 .. MaxSaves \subseteq Value

VARIABLES
    flash,      \* [Blocks -> [Sectors -> Links or Erased]]
    free,       \* SerialFlashAllocator::map_, as the set of free blocks
    sb,         \* the caller's copy of the super block
    location,   \* location_
    mode,       \* what the program is doing
    calls,      \* the rollover() calls that are active, outermost first
    creation,   \* how far create() has come
    outcome,    \* how the last finished operation ended
    saves, formats, crashes, faults     \* counters for the bounds

counters == <<saves, formats, crashes, faults>>
vars == <<flash, free, sb, location, mode, calls, creation, outcome, counters>>

Modes == {"down", "idle", "saving", "creating"}

Call == [addr : Address,                          \* rollover()'s addr
         link : Links,                            \* what `pending' points to
         to   : Address \union {NoAddress},       \* rollover()'s relocated
         pc   : {"enter", "erase", "write", "relink", "free", "mark", "done"}]

(* The loops of create(), unrolled: levels 0 to 2 prepare the super block's *)
(* block and the two link blocks, levels 3 and 4 the anchors, level 5       *)
(* writes the super block.                                                  *)
Creation == [level   : 0 .. 5,
             pc      : {"allocate", "erase", "write", "locate"},
             block   : Blocks \union {NoBlock},
             chained : Blocks \union {NoBlock},
             super   : Blocks \union {NoBlock}]

NoCreation == [level |-> 0, pc |-> "allocate", block |-> NoBlock,
               chained |-> NoBlock, super |-> NoBlock]

TypeOK ==
    /\ flash \in [Blocks -> [Sectors -> Links \union {Erased}]]
    /\ free \in SUBSET Pool
    /\ sb \in Links
    /\ location \in Address \union {NoAddress}
    /\ mode \in Modes
    /\ calls \in Seq(Call)
    /\ creation \in Creation
    /\ outcome \in {"none", "ok", "failed", "cut"}
    /\ saves \in Nat /\ formats \in Nat /\ crashes \in Nat /\ faults \in Nat

-----------------------------------------------------------------------------
(* The storage and the allocator. *)

Programming(b, s, link) == [flash EXCEPT ![b][s] = link]
Erasing(b) == [flash EXCEPT ![b] = [s \in Sectors |-> Erased]]

(* An erase that power loss cuts short clears some of the sectors. *)
PartlyErasing(b, kept) ==
    [flash EXCEPT ![b] =
        [s \in Sectors |-> IF s \in kept THEN flash[b][s] ELSE Erased]]

(* SerialFlashAllocator::is_taken, on the head of the block. *)
IsTaken(fl, b) ==
    fl[b][0] # Erased /\ fl[b][0].type # "Unallocated"

Blank(b) == \A s \in Sectors : flash[b][s] = Erased

(* SerialFlashAllocator::allocate.  Which free block it picks depends on    *)
(* ages and preallocation; here any free one may come, and a blank one may  *)
(* come marked as erased.                                                   *)
Allocates(b, erased) ==
    /\ b \in free
    /\ ~IsTaken(flash, b)
    /\ erased => Blank(b)
    /\ free' = free \ {b}

NothingToAllocate == \A b \in free : IsTaken(flash, b)

-----------------------------------------------------------------------------
(* The blank medium, and what a reset does to the program's memory. *)

Init ==
    /\ flash = [b \in Blocks |-> [s \in Sectors |-> Erased]]
    /\ free = Pool
    /\ sb = Link("SuperBlock", 0, NoBlock, Nothing)
    /\ location = NoAddress
    /\ mode = "down"
    /\ calls = <<>>
    /\ creation = NoCreation
    /\ outcome = "none"
    /\ saves = 0 /\ formats = 0 /\ crashes = 0 /\ faults = 0

Stop(ended) ==
    /\ outcome' = ended
    /\ calls' = <<>>
    /\ creation' = NoCreation

(* Memory is lost; at the next start SerialFlashAllocator::initialize reads *)
(* the map from the heads of the blocks.                                    *)
ResetTo(fl) ==
    /\ flash' = fl
    /\ free' = {b \in Pool : ~IsTaken(fl, b)}
    /\ sb' = Link("SuperBlock", 0, NoBlock, Nothing)
    /\ location' = NoAddress
    /\ mode' = "down"
    /\ Stop("cut")

(* locate() at start. *)
Mount ==
    /\ mode = "down"
    /\ Found(Super(flash))
    /\ location' = Super(flash).where
    /\ sb' = Super(flash).link
    /\ mode' = "idle"
    /\ outcome' = "none"
    /\ UNCHANGED <<flash, free, calls, creation, counters>>

-----------------------------------------------------------------------------
(* save() and the rollover() calls it makes. *)

Entering(addr, link) ==
    [addr |-> addr, link |-> link, to |-> NoAddress, pc |-> "enter"]

(* Whether it succeeds or not, save() has incremented the caller's stamp. *)
Save ==
    LET record == [sb EXCEPT !.timestamp = NextStamp(@), !.value = saves + 1]
    IN  /\ mode = "idle"
        /\ saves < MaxSaves
        /\ saves' = saves + 1
        /\ sb' = record
        /\ calls' = <<Entering(location, record)>>
        /\ mode' = "saving"
        /\ outcome' = "none"
        /\ UNCHANGED <<flash, free, location, creation,
                       formats, crashes, faults>>

Running(pc) == calls # <<>> /\ calls[Len(calls)].pc = pc
Top == calls[Len(calls)]

TopGoes(frame) == calls' = [calls EXCEPT ![Len(calls)] = frame]

Full(addr) == addr.sector + 1 \notin Sectors

NextSector ==
    /\ Running("enter")
    /\ ~Full(Top.addr)
    /\ TopGoes([Top EXCEPT !.to = At(Top.addr.block, Top.addr.sector + 1),
                           !.pc = "write"])
    /\ UNCHANGED <<flash, free, sb, location, mode, creation, outcome, counters>>

OtherAnchor(b) == IF b = Anchor1 THEN Anchor2 ELSE Anchor1

SwapAnchor ==
    /\ Running("enter")
    /\ Full(Top.addr)
    /\ Top.addr.block \in Anchors
    /\ TopGoes([Top EXCEPT !.to = At(OtherAnchor(Top.addr.block), 0),
                           !.pc = "erase"])
    /\ UNCHANGED <<flash, free, sb, location, mode, creation, outcome, counters>>

AllocateNext(b, erased) ==
    /\ Running("enter")
    /\ Full(Top.addr)
    /\ Top.addr.block \notin Anchors
    /\ Allocates(b, erased)
    /\ TopGoes([Top EXCEPT !.to = At(b, 0),
                           !.pc = IF erased THEN "write" ELSE "erase"])
    /\ UNCHANGED <<flash, sb, location, mode, creation, outcome, counters>>

(* Mutant: the allocator waits until somebody frees a block. *)
WaitForBlock == NothingToAllocate /\ UNCHANGED vars

(* The allocator asserts that it has a block to give: the device resets. *)
OutOfBlocks ==
    /\ \/ /\ Running("enter")
          /\ Full(Top.addr)
          /\ Top.addr.block \notin Anchors
       \/ mode = "creating" /\ creation.pc = "allocate"
    /\ NothingToAllocate
    /\ ResetTo(flash)
    /\ UNCHANGED counters

(* Mutant: the link is moved before the block it names is written. *)
EraseAndRelink ==
    /\ Running("erase")
    /\ flash' = Erasing(Top.to.block)
    /\ TopGoes([Top EXCEPT !.pc = IF Top.to.block \in Pool THEN "relink"
                                                          ELSE "write"])
    /\ UNCHANGED <<free, sb, location, mode, creation, outcome, counters>>

EraseTarget ==
    /\ Running("erase")
    /\ flash' = Erasing(Top.to.block)
    /\ TopGoes([Top EXCEPT !.pc = "write"])
    /\ UNCHANGED <<free, sb, location, mode, creation, outcome, counters>>

(* In the same block, or in the other anchor, the write was all there was   *)
(* to do.  Otherwise a link still names the block that was left.            *)
Moved(frame) ==
    /\ frame.addr.block \notin Anchors
    /\ frame.to.block # frame.addr.block

(* Mutant: the block that was left is freed before the link is moved. *)
WriteAndFree ==
    /\ Running("write")
    /\ flash' = Programming(Top.to.block, Top.to.sector, Top.link)
    /\ TopGoes([Top EXCEPT !.pc = IF Moved(Top) THEN "free" ELSE "done"])
    /\ UNCHANGED <<free, sb, location, mode, creation, outcome, counters>>

WriteTarget ==
    /\ Running("write")
    /\ flash' = Programming(Top.to.block, Top.to.sector, Top.link)
    /\ TopGoes([Top EXCEPT !.pc = IF Moved(Top) THEN "relink" ELSE "done"])
    /\ UNCHANGED <<free, sb, location, mode, creation, outcome, counters>>

(* Mutant: the link is rewritten with the stamp it had. *)
RelinkSameStamp ==
    LET previous == Walk(flash, Top.addr.block)
        link     == [previous.link EXCEPT !.chained = Top.to.block]
    IN  /\ Running("relink")
        /\ Found(previous)
        /\ calls' = Append([calls EXCEPT ![Len(calls)].pc = "free"],
                           Entering(previous.where, link))
        /\ UNCHANGED <<flash, free, sb, location, mode, creation, outcome,
                       counters>>

Relink ==
    LET previous == Walk(flash, Top.addr.block)
        link     == [previous.link EXCEPT !.timestamp = NextStamp(@),
                                          !.chained   = Top.to.block]
    IN  /\ Running("relink")
        /\ Found(previous)
        /\ calls' = Append([calls EXCEPT ![Len(calls)].pc = "free"],
                           Entering(previous.where, link))
        /\ UNCHANGED <<flash, free, sb, location, mode, creation, outcome,
                       counters>>

(* save() returns false; location_ still names the sector before. *)
SaveFails ==
    /\ mode' = "idle"
    /\ Stop("failed")
    /\ UNCHANGED <<free, sb, location>>

LinkLost ==
    /\ Running("relink")
    /\ ~Found(Walk(flash, Top.addr.block))
    /\ SaveFails
    /\ UNCHANGED <<flash, counters>>

(* SerialFlashAllocator::free: the head is read, the block erased, and a    *)
(* head that says Unallocated is written; the rest of the sector stays as   *)
(* the erase left it.                                                       *)
FreedHead(b) ==
    Link("Unallocated",
         IF flash[b][0] = Erased THEN TimestampInvalid ELSE flash[b][0].timestamp,
         NoBlock, Nothing)

FreeErases ==
    /\ Running("free")
    /\ flash' = Erasing(Top.addr.block)
    /\ TopGoes([Top EXCEPT !.link = FreedHead(Top.addr.block), !.pc = "mark"])
    /\ UNCHANGED <<free, sb, location, mode, creation, outcome, counters>>

(* Mutant: the map is not told. *)
FreeForgets ==
    /\ Running("mark")
    /\ flash' = Programming(Top.addr.block, 0, Top.link)
    /\ TopGoes([Top EXCEPT !.pc = "done"])
    /\ UNCHANGED <<free, sb, location, mode, creation, outcome, counters>>

FreeMarks ==
    /\ Running("mark")
    /\ flash' = Programming(Top.addr.block, 0, Top.link)
    /\ free' = free \union {Top.addr.block}
    /\ TopGoes([Top EXCEPT !.pc = "done"])
    /\ UNCHANGED <<sb, location, mode, creation, outcome, counters>>

RolloverReturns ==
    /\ Running("done")
    /\ Len(calls) > 1
    /\ calls' = SubSeq(calls, 1, Len(calls) - 1)
    /\ UNCHANGED <<flash, free, sb, location, mode, creation, outcome, counters>>

SaveReturns ==
    /\ Running("done")
    /\ Len(calls) = 1
    /\ location' = Top.to
    /\ mode' = "idle"
    /\ Stop("ok")
    /\ UNCHANGED <<flash, free, sb, counters>>

-----------------------------------------------------------------------------
(* create() *)

(* A volume that is found is formatted again only when the user insists. *)
Create ==
    /\ mode \in {"down", "idle"}
    /\ Found(Super(flash)) => formats < MaxFormats
    /\ formats' = IF Found(Super(flash)) THEN formats + 1 ELSE formats
    /\ mode' = "creating"
    /\ creation' = NoCreation
    /\ sb' = Link("SuperBlock", 0, NoBlock, 0)
    /\ outcome' = "none"
    /\ UNCHANGED <<flash, free, location, calls, saves, crashes, faults>>

Creating(pc) == mode = "creating" /\ creation.pc = pc

(* chain_length() + 2 + 1, less one for each link written. *)
CreationStamp(level) == 5 - level

(* Mutant: only the first anchor is rewritten. *)
NextLevelOneAnchor(c) ==
    [c EXCEPT !.level   = IF @ = 3 THEN 5 ELSE @ + 1,
              !.pc      = CASE c.level + 1 \in 1 .. 2 -> "allocate"
                            [] c.level + 1 = 3        -> "erase"
                            [] OTHER                  -> "write",
              !.block   = CASE c.level + 1 = 3 -> Anchor1
                            [] c.level + 1 = 4 -> c.super
                            [] OTHER           -> NoBlock,
              !.chained = IF c.level \in 0 .. 2 THEN c.block ELSE @]

NextLevel(c) ==
    [c EXCEPT !.level   = @ + 1,
              !.pc      = CASE c.level + 1 \in 1 .. 2 -> "allocate"
                            [] c.level + 1 \in 3 .. 4 -> "erase"
                            [] OTHER                  -> "write",
              !.block   = CASE c.level + 1 = 3 -> Anchor1
                            [] c.level + 1 = 4 -> Anchor2
                            [] c.level + 1 = 5 -> c.super
                            [] OTHER           -> NoBlock,
              !.chained = IF c.level \in 0 .. 2 THEN c.block ELSE @]

CreateAllocates(b) ==
    /\ Creating("allocate")
    /\ Allocates(b, FALSE)
    /\ creation' = [creation EXCEPT !.block = b, !.pc = "erase",
                       !.super = IF creation.level = 0 THEN b ELSE @]
    /\ UNCHANGED <<flash, sb, location, mode, calls, outcome, counters>>

(* The super block's own block is prepared first and written last. *)
CreateErases ==
    /\ Creating("erase")
    /\ flash' = Erasing(creation.block)
    /\ IF creation.level = 0
       THEN /\ sb' = Link("SuperBlock", CreationStamp(0), NoBlock, sb.value)
            /\ creation' = NextLevel(creation)
       ELSE /\ creation' = [creation EXCEPT !.pc = "write"]
            /\ UNCHANGED sb
    /\ UNCHANGED <<free, location, mode, calls, outcome, counters>>

CreationLink ==
    IF creation.level = 5 THEN sb
    ELSE Link(IF creation.level \in 3 .. 4 THEN "Anchor" ELSE "SuperBlockLink",
              CreationStamp(creation.level), creation.chained, Nothing)

CreateWrites ==
    /\ Creating("write")
    /\ flash' = Programming(creation.block, 0, CreationLink)
    /\ creation' = IF creation.level = 5 THEN [creation EXCEPT !.pc = "locate"]
                                         ELSE NextLevel(creation)
    /\ UNCHANGED <<free, sb, location, mode, calls, outcome, counters>>

(* A super block that is not found after all has everything erased. *)
CreateLocates ==
    /\ Creating("locate")
    /\ IF Found(Super(flash))
       THEN /\ location' = Super(flash).where
            /\ sb' = Super(flash).link
            /\ mode' = "idle"
            /\ Stop("ok")
            /\ UNCHANGED flash
       ELSE /\ flash' = [b \in Blocks |-> [s \in Sectors |-> Erased]]
            /\ location' = NoAddress
            /\ mode' = "down"
            /\ Stop("failed")
            /\ UNCHANGED sb
    /\ UNCHANGED <<free, counters>>

-----------------------------------------------------------------------------
(* Power loss, and failures the storage reports. *)

Crash ==
    /\ crashes < MaxCrashes
    /\ crashes' = crashes + 1
    /\ ResetTo(flash)
    /\ UNCHANGED <<saves, formats, faults>>

(* The block that an erase about to happen, if any, would clear. *)
Doomed ==
    IF Running("erase") THEN {Top.to.block} ELSE
    IF Running("free")  THEN {Top.addr.block} ELSE
    IF Creating("erase") THEN {creation.block} ELSE {}

CrashInErase ==
    /\ crashes < MaxCrashes
    /\ crashes' = crashes + 1
    /\ \E b \in Doomed, kept \in SUBSET Sectors : ResetTo(PartlyErasing(b, kept))
    /\ UNCHANGED <<saves, formats, faults>>

Fault ==
    /\ faults < MaxFaults
    /\ faults' = faults + 1
    /\ UNCHANGED <<saves, formats, crashes>>

(* The failed operation may have been carried out all the same. *)
EraseFails ==
    /\ Fault
    /\ Running("erase")
    /\ flash' \in {flash, Erasing(Top.to.block)}
    /\ SaveFails

WriteFails ==
    /\ Fault
    /\ Running("write")
    /\ flash' \in {flash, Programming(Top.to.block, Top.to.sector, Top.link)}
    /\ SaveFails

(* rollover() ignores what free() returns: the block is lost until a reset. *)
FreeFails ==
    /\ Fault
    /\ \/ /\ Running("free")
          /\ flash' \in {flash, Erasing(Top.addr.block)}
       \/ /\ Running("mark")
          /\ flash' \in {flash, Programming(Top.addr.block, 0, Top.link)}
    /\ TopGoes([Top EXCEPT !.pc = "done"])
    /\ UNCHANGED <<free, sb, location, mode, creation, outcome>>

(* create() returns false, and nothing is mounted. *)
CreateFails ==
    /\ Fault
    /\ \/ /\ Creating("erase")
          /\ flash' \in {flash, Erasing(creation.block)}
       \/ /\ Creating("write")
          /\ flash' \in {flash, Programming(creation.block, 0, CreationLink)}
    /\ mode' = "down"
    /\ location' = NoAddress
    /\ Stop("failed")
    /\ UNCHANGED <<free, sb>>

-----------------------------------------------------------------------------
(* What the program does by itself once it has been called. *)
Step ==
    \/ NextSector
    \/ SwapAnchor
    \/ \E b \in Pool, erased \in BOOLEAN : AllocateNext(b, erased)
    \/ OutOfBlocks
    \/ EraseTarget
    \/ WriteTarget
    \/ Relink
    \/ LinkLost
    \/ FreeErases
    \/ FreeMarks
    \/ RolloverReturns
    \/ SaveReturns
    \/ \E b \in Pool : CreateAllocates(b)
    \/ CreateErases
    \/ CreateWrites
    \/ CreateLocates

Next ==
    \/ Mount
    \/ Save
    \/ Create
    \/ Step
    \/ Crash
    \/ CrashInErase
    \/ EraseFails
    \/ WriteFails
    \/ FreeFails
    \/ CreateFails

Spec == Init /\ [][Next]_vars

(* One thread runs a call to its end.  Nothing obliges anyone to mount, to  *)
(* save, to format or to lose power.                                        *)
FairSpec == Spec /\ WF_vars(Step)

-----------------------------------------------------------------------------
(* Properties. *)

(* What locate() reads as a super block was written as one. *)
LocatedIsSuperBlock ==
    Found(Super(flash)) => Super(flash).link.type = "SuperBlock"

(* Also over a volume that was in use, create() makes its own super block   *)
(* the one that is found: no older anchor leads back to the volume before.  *)
CreateIsFound ==
    Creating("locate") => /\ Super(flash).where = At(creation.super, 0)
                          /\ Super(flash).link = sb

(* create() over a volume that was in use: what is mounted afterwards, even *)
(* when create() was cut short, was written as a super block.               *)
MountedIsSuperBlock == mode = "idle" => sb.type = "SuperBlock"

(* The stamps wrap around: with no failure of any kind, the super block     *)
(* that was saved last stays the one that a walk of the chain finds.        *)
WrapAroundIsFollowed ==
    mode = "idle" /\ crashes + faults = 0 =>
        Found(Super(flash)) /\ Super(flash).link = sb

(* The blocks the chain goes through are never free for the allocator to    *)
(* hand out, and no erase that is about to happen takes one away.           *)
ChainIsKept ==
    Found(Super(flash)) => Chain(flash) \intersect (free \union Doomed) = {}

(* In every block of the chain the link that is selected is the last one    *)
(* written: no write lands behind a link with an equal or larger stamp,     *)
(* where find_link() would never select it.                                 *)
NewestIsLast ==
    LET top    == AnchorLink(flash)
        first  == Below(flash, top)
        second == Below(flash, first)
    IN  Found(Super(flash)) =>
            \A at \in {top.where, first.where, second.where, Super(flash).where} :
                ~Full(at) => flash[at.block][at.sector + 1] = Erased

(* After a successful create(), save() or locate(), location_ and the       *)
(* caller's copy are what a fresh walk of the chain would find, so that the *)
(* next save() continues from the right sector.                             *)
LocationIsNewest ==
    mode = "idle" /\ outcome # "failed" =>
        /\ location = Super(flash).where
        /\ sb = Super(flash).link

(* A block that was left is still named by a link of the chain when         *)
(* rollover() looks for it, at every depth of the recursion: unless the     *)
(* storage failed before, save() never gives up halfway.                    *)
ParentIsFound ==
    faults = 0 /\ Running("relink") => Found(Walk(flash, Top.addr.block))

(* Write ahead: while the link to a block is being moved, the block already *)
(* holds what the link is to lead to, and nothing else; at every depth of   *)
(* the recursion, until the call returns.                                   *)
OnlyHolds(b, link) ==
    flash[b] = [s \in Sectors |-> IF s = 0 THEN link ELSE Erased]

WriteAhead ==
    \A i \in 1 .. Len(calls) - 1 :
        /\ OnlyHolds(calls[i].to.block, calls[i].link)
        /\ calls[i + 1].pc \notin {"mark", "done"} =>
               calls[i + 1].link.chained = calls[i].to.block

(* Flash can only be programmed after an erase, which the memory backend    *)
(* asserts (verify_erased): unless the storage failed before, every sector  *)
(* about to be written is erased.                                           *)
WritesErasedSectors ==
    faults = 0 =>
        /\ Running("write") => flash[Top.to.block][Top.to.sector] = Erased
        /\ Running("mark") => flash[Top.addr.block][0] = Erased
        /\ Creating("write") => flash[creation.block][0] = Erased

(* Rolling over gives back every block it leaves: as long as nothing went   *)
(* wrong, the blocks that are not free are those of the chain.              *)
NoBlockLeaks ==
    mode = "idle" /\ crashes + faults + formats = 0 =>
        free = Pool \ Chain(flash)

(* Whatever strikes, one write at most takes the volume from the contents   *)
(* saved last to those being saved: no other step, of rollover(), free(), a *)
(* reset or a cut erase, changes what locate() finds.                       *)
ChangesAtOnce ==
    [][flash' # flash =>
           \/ Super(flash').link.value = Super(flash).link.value
           \/ /\ mode \in {"saving", "creating"}
              /\ Super(flash').link.value = sb.value]_vars

(* A call of save() or create() ends: the recursion of rollover() is        *)
(* finite and leaves the program idle or reset.                             *)
CallsReturn == mode \in {"saving", "creating"} ~> mode \in {"idle", "down"}

-----------------------------------------------------------------------------
(* Why WriteAhead holds.  An active call that has left a block has moved to *)
(* one that the allocator no longer offers; the calls nested in it leave    *)
(* and enter other blocks, since its own is only named by what it writes.   *)

(* A call that has allocated a block, and still relies on it. *)
Relies(frame) == frame.pc \in {"erase", "write", "relink"} /\ Moved(frame)

IsFresh(frame) ==
    /\ frame.to.block \in Pool \ free
    /\ frame.to.sector = 0

(* The calls below the top one wait, to free the block that they left. *)
Waiting ==
    \A i \in 1 .. Len(calls) - 1 :
        /\ calls[i].pc = "free"
        /\ Moved(calls[i])
        /\ IsFresh(calls[i])
        /\ OnlyHolds(calls[i].to.block, calls[i].link)

TopReady ==
    calls # <<>> =>
        /\ Top.pc # "enter" => Top.to \in Address
        /\ Top.pc \in {"relink", "free", "mark"} => Moved(Top)
        /\ Top.pc = "relink" => OnlyHolds(Top.to.block, Top.link)
        /\ Relies(Top) => IsFresh(Top)
        /\ Top.pc = "write" /\ Moved(Top) => Blank(Top.to.block)

(* What is nested neither leaves nor enters a block that is relied on. *)
Apart ==
    \A i, j \in DOMAIN calls : i < j =>
        /\ calls[j].addr.block # calls[i].to.block
        /\ calls[j].pc # "enter" => calls[j].to.block # calls[i].to.block

Chained ==
    \A i \in DOMAIN calls : calls[i].pc \notin {"mark", "done"} =>
        calls[i].link.chained = IF i = 1 THEN NoBlock
                                         ELSE calls[i - 1].to.block

Control ==
    /\ mode # "saving" => calls = <<>>
    /\ mode \in {"idle", "saving"} => location \in Address
    /\ sb.chained = NoBlock

SuperBlockInv ==
    /\ TypeOK
    /\ Control
    /\ Waiting
    /\ TopReady
    /\ Apart
    /\ Chained
=============================================================================
