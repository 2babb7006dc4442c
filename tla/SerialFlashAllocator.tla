------------------------ MODULE SerialFlashAllocator ------------------------
(***************************************************************************)
(* SerialFlashAllocator and its clients: the super block chain and files,  *)
(* which hold the blocks it gives them, and UnusedBlockReclaimer, which    *)
(* takes back those that nothing refers to any more.                       *)
(*                                                                         *)
(* What survives a restart is in the heads of the blocks.  In memory the   *)
(* allocator keeps a map of the free blocks and a few blocks that it has   *)
(* erased ahead of time.  The program has one thread, but a client may ask *)
(* for a second block before it has written the head of the first, as      *)
(* SuperBlockManager::create does.  One step is one storage operation.     *)
(***************************************************************************)
EXTENDS Integers

CONSTANTS
    FirstBlock,         \* 3: block 0 is skipped, blocks 1 and 2 are anchors
    NumberOfBlocks,     \* geometry().number_of_blocks
    PreallocationSize,  \* blocks that preallocate() erases ahead of time
    NoBlock,            \* BLOCK_INDEX_INVALID
    NoHead,             \* a head whose magic is not valid
    MaxAge,             \* bound on the ages of blocks
    MaxPreallocations,  \* bound on calls of preallocate()
    MaxReclaims,        \* bound on calls of reclaim()
    MaxCrashes,         \* bound on restarts
    MaxFaults           \* bound on failures the storage reports

Pool  == FirstBlock .. NumberOfBlocks - 1
Ages  == 0 .. MaxAge
Slots == 1 .. PreallocationSize

(* The map has 64 bits. *)
ASSUME MapAssumption ==
    /\ FirstBlock \in Nat /\ NumberOfBlocks \in Nat
    /\ FirstBlock < NumberOfBlocks /\ NumberOfBlocks <= 64
    /\ NoBlock \notin Pool
ASSUME HeadAssumption == MaxAge \in Nat /\ NoHead \notin [taken : BOOLEAN, age : Ages]
ASSUME BoundsAssumption ==
    /\ PreallocationSize \in Nat /\ MaxPreallocations \in Nat
    /\ MaxReclaims \in Nat /\ MaxCrashes \in Nat /\ MaxFaults \in Nat

VARIABLES
    heads,          \* the head of each block, or NoHead
    blank,          \* the blocks that are erased throughout
    free,           \* map_, as the set of free blocks
    preallocated,   \* preallocated_
    fresh,          \* what clients were given and have not written to yet
    held,           \* the blocks clients have written to and still use
    task,           \* what the allocator is in the middle of
    lossy,          \* blocks may have been lost since the map was read
    preallocations, reclaims, crashes, faults   \* counters for the bounds

counters == <<preallocations, reclaims, crashes, faults>>
vars == <<heads, blank, free, preallocated, fresh, held, task, lossy, counters>>

(* BlockHead: `taken' stands for every type other than Unallocated. *)
BlockHead == [taken : BOOLEAN, age : Ages]
HeadOf(taken, age) == [taken |-> taken, age |-> age]

(* AllocatedBlock *)
Given == [block : Pool, age : Ages, erased : BOOLEAN]
Blocks(given) == {g.block : g \in given}

(* The tasks that take more than one storage operation. *)
Idle == [kind |-> "none"]
Tasks ==
    {Idle} \union
    [kind : {"erase", "mark"}, block : Pool, age : Ages] \union
    [kind : {"preallocate"}, slot : Slots, available : SUBSET Pool] \union
    [kind : {"reclaim"}, rest : SUBSET Pool]

TypeOK ==
    /\ heads \in [Pool -> BlockHead \union {NoHead}]
    /\ blank \in SUBSET {b \in Pool : heads[b] = NoHead}
    /\ free \in SUBSET Pool
    /\ preallocated \in [Slots -> Pool \union {NoBlock}]
    /\ fresh \in SUBSET Given
    /\ held \in SUBSET Pool
    /\ task \in Tasks
    /\ lossy \in BOOLEAN
    /\ preallocations \in 0 .. MaxPreallocations /\ reclaims \in 0 .. MaxReclaims
    /\ crashes \in 0 .. MaxCrashes /\ faults \in 0 .. MaxFaults

-----------------------------------------------------------------------------
(* Selecting blocks. *)

IsTaken(b) == heads[b] # NoHead /\ heads[b].taken
AgeOf(b)   == IF heads[b] = NoHead THEN 0 ELSE heads[b].age

(* Looking at the free blocks also corrects the map. *)
Available == {b \in free : ~IsTaken(b)}

(* Every loop of the allocator goes through the blocks in order and keeps   *)
(* the best so far; `better' holds the pairs whose first replaces the       *)
(* second.                                                                  *)
Places == FirstBlock - 1 .. NumberOfBlocks - 1

Select(better, among) ==
    LET best[b \in Places] ==
            IF b < FirstBlock THEN NoBlock
            ELSE IF b \in among /\ (best[b - 1] = NoBlock \/ <<b, best[b - 1]>> \in better)
            THEN b ELSE best[b - 1]
    IN  best[NumberOfBlocks - 1]

(* Mutant: the most worn block is preferred. *)
ScanMostWorn(among) ==
    Select({p \in Pool \X Pool : heads[p[1]] = NoHead \/ AgeOf(p[1]) > AgeOf(p[2])}, among)

(* scan(): a block without a head always replaces the choice so far. *)
Scan(among) ==
    Select({p \in Pool \X Pool : heads[p[1]] = NoHead \/ AgeOf(p[1]) < AgeOf(p[2])}, among)

(* take_block() *)
TakeBlock(among) ==
    Select({p \in Pool \X Pool : AgeOf(p[1]) = 0 \/ AgeOf(p[1]) < AgeOf(p[2])}, among)

FilledSlots == {i \in Slots : preallocated[i] # NoBlock}
FirstFilled == CHOOSE i \in FilledSlots : \A j \in FilledSlots : i <= j

(* What allocate() would return now; NoBlock when it would assert. *)
Offer == IF FilledSlots # {} THEN preallocated[FirstFilled] ELSE Scan(Available)

-----------------------------------------------------------------------------
(* The map is read from the heads: initialize(). *)

NoPreallocated == [i \in Slots |-> NoBlock]

(* The medium may be blank, or full of anything without valid heads. *)
Init ==
    /\ heads = [b \in Pool |-> NoHead]
    /\ blank \in {{}, Pool}
    /\ free = Pool
    /\ preallocated = NoPreallocated
    /\ fresh = {} /\ held = {}
    /\ task = Idle
    /\ lossy = FALSE
    /\ preallocations = 0 /\ reclaims = 0 /\ crashes = 0 /\ faults = 0

(* At a restart clients find again what they had written the head of. *)
RestartWith(hs, bl) ==
    /\ heads' = hs
    /\ blank' = bl
    /\ free' = {b \in Pool : ~(hs[b] # NoHead /\ hs[b].taken)}
    /\ held' = Pool \ free'
    /\ preallocated' = NoPreallocated
    /\ fresh' = {}
    /\ task' = Idle
    /\ lossy' = FALSE

-----------------------------------------------------------------------------
(* allocate(), and what clients do with the block. *)

AllocatePreallocated ==
    /\ task = Idle
    /\ FilledSlots # {}
    /\ preallocated' = [preallocated EXCEPT ![FirstFilled] = NoBlock]
    /\ fresh' = fresh \union {[block |-> Offer, age |-> 0, erased |-> TRUE]}
    /\ UNCHANGED <<heads, blank, free, held, task, lossy, counters>>

(* Mutant: the map is not told. *)
AllocateForgets ==
    /\ task = Idle
    /\ FilledSlots = {} /\ Available # {}
    /\ free' = Available
    /\ fresh' = fresh \union
                {[block |-> Offer, age |-> AgeOf(Offer), erased |-> FALSE]}
    /\ UNCHANGED <<heads, blank, preallocated, held, task, lossy, counters>>

AllocateInternal ==
    /\ task = Idle
    /\ FilledSlots = {} /\ Available # {}
    /\ free' = Available \ {Offer}
    /\ fresh' = fresh \union
                {[block |-> Offer, age |-> AgeOf(Offer), erased |-> FALSE]}
    /\ UNCHANGED <<heads, blank, preallocated, held, task, lossy, counters>>

(* No block is left: the assertion in allocate_internal() resets the device. *)
OutOfBlocks ==
    /\ task = Idle
    /\ FilledSlots = {} /\ Available = {}
    /\ RestartWith(heads, blank)
    /\ UNCHANGED counters

(* A client writes the head, after an erase unless it was told that the     *)
(* block is erased.  Files keep the age, rollover() adds one.               *)
WriteHead(g, age) ==
    /\ task = Idle
    /\ g \in fresh
    /\ age \in {g.age, g.age + 1} \intersect Ages
    /\ heads' = [heads EXCEPT ![g.block] = HeadOf(TRUE, age)]
    /\ blank' = blank \ {g.block}
    /\ fresh' = fresh \ {g}
    /\ held' = held \union {g.block}
    /\ UNCHANGED <<free, preallocated, task, lossy, counters>>

-----------------------------------------------------------------------------
(* free() *)

(* A client gives a block back; its age is read before the erase. *)
Free(b) ==
    /\ task = Idle
    /\ b \in held
    /\ AgeOf(b) < MaxAge
    /\ held' = held \ {b}
    /\ task' = [kind |-> "erase", block |-> b,
                age |-> IF heads[b] = NoHead THEN 0 ELSE heads[b].age + 1]
    /\ UNCHANGED <<heads, blank, free, preallocated, fresh, lossy, counters>>

FreeErases ==
    /\ task.kind = "erase"
    /\ heads' = [heads EXCEPT ![task.block] = NoHead]
    /\ blank' = blank \union {task.block}
    /\ task' = [task EXCEPT !.kind = "mark"]
    /\ UNCHANGED <<free, preallocated, fresh, held, lossy, counters>>

(* Mutant: the map is not told. *)
FreeForgets ==
    /\ task.kind = "mark"
    /\ heads' = [heads EXCEPT ![task.block] = HeadOf(FALSE, task.age)]
    /\ blank' = blank \ {task.block}
    /\ task' = Idle
    /\ UNCHANGED <<free, preallocated, fresh, held, lossy, counters>>

FreeMarks ==
    /\ task.kind = "mark"
    /\ heads' = [heads EXCEPT ![task.block] = HeadOf(FALSE, task.age)]
    /\ blank' = blank \ {task.block}
    /\ free' = free \union {task.block}
    /\ task' = Idle
    /\ UNCHANGED <<preallocated, fresh, held, lossy, counters>>

-----------------------------------------------------------------------------
(* preallocate() *)

(* The blocks that an earlier call set aside and nobody took are lost. *)
Preallocate ==
    /\ task = Idle
    /\ preallocations < MaxPreallocations
    /\ preallocations' = preallocations + 1
    /\ PreallocationSize > 0
    /\ free' = Available
    /\ task' = [kind |-> "preallocate", slot |-> 1, available |-> Available]
    /\ lossy' = (lossy \/ FilledSlots # {})
    /\ UNCHANGED <<heads, blank, preallocated, fresh, held, reclaims, crashes,
                   faults>>

NextTask ==
    IF task.slot = PreallocationSize THEN Idle
    ELSE [task EXCEPT !.slot = @ + 1, !.available = @ \ {TakeBlock(@)}]

PreallocateBlock ==
    LET b == TakeBlock(task.available)
    IN  /\ task.kind = "preallocate"
        /\ task.available # {}
        /\ free' = free \ {b}
        /\ heads' = [heads EXCEPT ![b] = NoHead]
        /\ blank' = blank \union {b}
        /\ preallocated' = [preallocated EXCEPT ![task.slot] = b]
        /\ task' = NextTask
        /\ UNCHANGED <<fresh, held, lossy, counters>>

(* take_block() found nothing: the assertion resets the device. *)
PreallocateRunsOut ==
    /\ task.kind = "preallocate"
    /\ task.available = {}
    /\ RestartWith(heads, blank)
    /\ UNCHANGED counters

-----------------------------------------------------------------------------
(* UnusedBlockReclaimer::reclaim, called when every client has written what *)
(* it was given, and has used up what was set aside: nobody in the sources  *)
(* does both, and blocks set aside would be offered a second time.          *)
(* `kept' are the blocks that the walks have come across.                   *)

Reclaim(kept) ==
    /\ task = Idle
    /\ fresh = {} /\ FilledSlots = {}
    /\ reclaims < MaxReclaims
    /\ reclaims' = reclaims + 1
    /\ kept \subseteq held
    /\ held' = kept
    /\ task' = [kind |-> "reclaim", rest |-> {b \in Pool \ kept : IsTaken(b)}]
    /\ UNCHANGED <<heads, blank, free, preallocated, fresh, lossy,
                   preallocations, crashes, faults>>

NextRest == CHOOSE b \in task.rest : \A c \in task.rest : b <= c

ReclaimErases ==
    /\ task.kind = "reclaim"
    /\ task.rest # {}
    /\ heads' = [heads EXCEPT ![NextRest] = NoHead]
    /\ blank' = blank \union {NextRest}
    /\ task' = [task EXCEPT !.rest = @ \ {NextRest}]
    /\ UNCHANGED <<free, preallocated, fresh, held, lossy, counters>>

(* initialize() reads the map again, but knows nothing of preallocated_. *)
ReclaimInitializes ==
    /\ task.kind = "reclaim"
    /\ task.rest = {}
    /\ free' = {b \in Pool : ~IsTaken(b)}
    /\ task' = Idle
    /\ lossy' = FALSE
    /\ UNCHANGED <<heads, blank, preallocated, fresh, held, counters>>

-----------------------------------------------------------------------------
(* Power loss, and erases or writes that the storage reports as failed.     *)

(* The block that an erase may be clearing. *)
Doomed ==
    CASE task.kind = "erase"                            -> {task.block}
      [] task.kind = "preallocate" /\ task.available # {} -> {TakeBlock(task.available)}
      [] task.kind = "reclaim" /\ task.rest # {}          -> {NextRest}
      [] OTHER                                          -> {}

(* An erase cut short has cleared the head or not, and not the rest. *)
Crash(torn) ==
    /\ crashes < MaxCrashes
    /\ crashes' = crashes + 1
    /\ torn \subseteq Doomed
    /\ RestartWith([b \in Pool |-> IF b \in torn THEN NoHead ELSE heads[b]],
                   blank \ torn)
    /\ UNCHANGED <<preallocations, reclaims, faults>>

(* free(), preallocate() and reclaim() give up at once. *)
TaskFails(done) ==
    /\ task # Idle
    /\ task.kind = "mark" \/ Doomed # {}
    /\ faults < MaxFaults
    /\ faults' = faults + 1
    /\ heads' = [b \in Pool |->
                    CASE done /\ b \in Doomed                       -> NoHead
                      [] done /\ task.kind = "mark" /\ b = task.block
                            -> HeadOf(FALSE, task.age)
                      [] OTHER                                      -> heads[b]]
    /\ blank' = {b \in Pool : heads'[b] = NoHead /\ (b \in blank \/ (done /\ b \in Doomed))}
    /\ free' = IF task.kind = "preallocate" THEN free \ Doomed ELSE free
    /\ task' = Idle
    /\ lossy' = TRUE
    /\ UNCHANGED <<preallocated, fresh, held, preallocations, reclaims, crashes>>

-----------------------------------------------------------------------------
Next ==
    \/ AllocatePreallocated
    \/ AllocateInternal
    \/ OutOfBlocks
    \/ \E g \in fresh, age \in Ages : WriteHead(g, age)
    \/ \E b \in held : Free(b)
    \/ FreeErases
    \/ FreeMarks
    \/ Preallocate
    \/ PreallocateBlock
    \/ PreallocateRunsOut
    \/ \E kept \in SUBSET held : Reclaim(kept)
    \/ ReclaimErases
    \/ ReclaimInitializes
    \/ \E torn \in SUBSET Doomed : Crash(torn)
    \/ \E done \in BOOLEAN : TaskFails(done)

Spec == Init /\ [][Next]_vars

-----------------------------------------------------------------------------
(* Properties. *)

SetAside == {preallocated[i] : i \in FilledSlots}

(* No block is given to two clients, however allocations, frees, reclaims   *)
(* and restarts follow one another: what allocate() would return is in      *)
(* nobody's hands, and nobody else was given what a client writes to.       *)
OnlyUnheldIsOffered ==
    task = Idle => Offer \notin held \union Blocks(fresh)

(* A block that is offered as erased has not been touched since its erase,  *)
(* so that a client may write to it at once.                                *)
SetAsideIsBlank == SetAside \union {g.block : g \in {h \in fresh : h.erased}}
                       \subseteq blank

(* Every block is free, set aside or in a client's hands, unless the        *)
(* storage failed or preallocate() was called before the blocks it had set  *)
(* aside were used up.                                                      *)
NoBlockIsLost ==
    task = Idle /\ ~lossy =>
        Pool = free \union SetAside \union Blocks(fresh) \union held

(* reclaim() gives everything back that was not kept: afterwards the map    *)
(* agrees with the clients.                                                 *)
ReclaimIsComplete ==
    [][task.kind = "reclaim" /\ task' = Idle /\ crashes' + faults' = crashes + faults
           => free' = Pool \ held]_vars

(* Wear leveling: nothing available is less worn than what is handed out or *)
(* set aside.                                                               *)
LeastWornIsOffered ==
    task = Idle /\ FilledSlots = {} =>
        \A b \in Available : AgeOf(Offer) <= AgeOf(b)

LeastWornAreSetAside ==
    [][\A i \in Slots : preallocated'[i] \notin {preallocated[i], NoBlock} =>
           \A b \in task.available \ SetAside' :
               AgeOf(preallocated'[i]) <= AgeOf(b)]_vars

(* The age of a block survives being freed and used again: it never falls   *)
(* as long as power stays on and nothing but free() erases blocks.          *)
Worn(b) == IF task.kind \in {"erase", "mark"} /\ task.block = b THEN task.age
                                                                ELSE AgeOf(b)

AgesNeverFall ==
    [][crashes' + reclaims' + preallocations' + faults' = 0 =>
           \A b \in Pool : Worn(b) <= Worn(b)']_vars
-----------------------------------------------------------------------------
(* Why OnlyUnheldIsOffered and NoBlockIsLost hold: a block is in one place  *)
(* at a time, and in a place that the head on the medium allows.            *)

Hands == held \union Blocks(fresh)

(* The block that free() is in the middle of is nowhere else. *)
Limbo == IF task.kind \in {"erase", "mark"} THEN {task.block} ELSE {}

OnePlaceEach ==
    /\ free \intersect Hands = {}
    /\ SetAside \intersect (free \union Hands) = {}
    /\ Limbo \intersect (free \union SetAside \union Hands) = {}
    /\ held \intersect Blocks(fresh) = {}
    /\ \A g, h \in fresh : g.block = h.block => g = h
    /\ \A i, j \in FilledSlots : preallocated[i] = preallocated[j] => i = j

HeadsAgree ==
    /\ \A b \in free : ~IsTaken(b)
    /\ \A b \in held : IsTaken(b)

(* While preallocate() runs, what it may still set aside is free, and the   *)
(* slots it has not come to are as they were before.                        *)
Preallocating ==
    task.kind = "preallocate" =>
        /\ task.available \subseteq free
        /\ ~lossy => \A i \in task.slot .. PreallocationSize : preallocated[i] = NoBlock

(* While reclaim() runs, what it has still to erase is taken and unused. *)
Reclaiming ==
    task.kind = "reclaim" =>
        /\ fresh = {} /\ FilledSlots = {}
        /\ {b \in Pool : IsTaken(b)} = held \union task.rest
        /\ held \intersect task.rest = {}

NothingLost ==
    ~lossy => task.kind = "reclaim"
              \/ Pool = free \union SetAside \union Hands \union Limbo

AllocatorInv ==
    /\ TypeOK
    /\ OnePlaceEach
    /\ HeadsAgree
    /\ SetAsideIsBlank
    /\ Preallocating
    /\ Reclaiming
    /\ NothingLost

(* Why AgesNeverFall holds: a client was told the age that its block has.   *)
OnlyFrees == crashes + reclaims + preallocations + faults = 0

AgesAreKept ==
    OnlyFrees =>
        /\ FilledSlots = {}
        /\ task.kind \in {"none", "erase", "mark"}
        /\ \A g \in fresh : g.age = AgeOf(g.block)
        /\ Limbo # {} => AgeOf(task.block) <= task.age
=============================================================================
