--------------------- MODULE SerialFlashAllocatorProofs ---------------------
(***************************************************************************)
(* No block is given to two clients, none is lost, and the least worn one  *)
(* is taken: for every size of the device and any number of preallocated   *)
(* blocks, calls, restarts and failures.                                   *)
(***************************************************************************)
EXTENDS SerialFlashAllocator, Inductions

LEMMA Ranges ==
    /\ Places \subseteq Int
    /\ FirstBlock \in Int /\ NumberOfBlocks \in Int /\ FirstBlock < NumberOfBlocks
    /\ Pool = FirstBlock .. NumberOfBlocks - 1 /\ Pool \subseteq Int
    /\ Places = FirstBlock - 1 .. NumberOfBlocks - 1
    /\ \A b \in Pool : b \in Places /\ b - 1 \in Places /\ ~(b < FirstBlock)
    /\ Ages \subseteq Int
BY MapAssumption, HeadAssumption DEF Places, Pool, Ages

-----------------------------------------------------------------------------
(* The loops that select a block.                                          *)

(* A property of `best' that every turn of the loop keeps holds at its end. *)
LEMMA LoopKeeps ==
    ASSUME NEW Good, FirstBlock - 1 \in Good,
           \A b \in Pool : b - 1 \in Good => b \in Good
    PROVE  Places \subseteq Good
<1> DEFINE lo == FirstBlock - 1
           hi == NumberOfBlocks - 1
<1>1. /\ lo \in Int /\ hi \in Int
      /\ lo + 1 .. hi = Pool /\ lo .. hi = Places
  BY Ranges
<1> HIDE DEF hi
<1> QED BY <1>1, IntervalInduction

(* `best' after each block, as the loop leaves it. *)
LoopOf(best, better, among) ==
    /\ best \in [Places -> Pool \union {NoBlock}]
    /\ best[FirstBlock - 1] = NoBlock
    /\ \A b \in Pool :
          best[b] = IF b \in among /\ (best[b - 1] = NoBlock
                                       \/ <<b, best[b - 1]>> \in better)
                    THEN b ELSE best[b - 1]

LEMMA SelectIsLoop ==
    ASSUME NEW better, NEW among
    PROVE  \E best : /\ LoopOf(best, better, among)
                     /\ Select(better, among) = best[NumberOfBlocks - 1]
<1> DEFINE Turn(b, c) == IF b \in among /\ (c = NoBlock \/ <<b, c>> \in better)
                         THEN b ELSE c
           IsBest(f)  == f = [b \in Places |-> IF b < FirstBlock THEN NoBlock
                                               ELSE IF b \in among /\ (f[b - 1] = NoBlock
                                                          \/ <<b, f[b - 1]>> \in better)
                                               THEN b ELSE f[b - 1]]
           V          == Pool \union {NoBlock}
           step       == [b \in Pool |-> [c \in V |-> Turn(b, c)]]
<1>1. PICK f \in [Places -> V] :
          /\ f[FirstBlock - 1] = NoBlock
          /\ \A b \in Pool : f[b] = step[b][f[b - 1]]
  <2> DEFINE lo == FirstBlock - 1
             hi == NumberOfBlocks - 1
  <2>1. /\ lo \in Int /\ hi \in Int /\ lo <= hi
        /\ NoBlock \in V
        /\ lo + 1 .. hi = Pool /\ lo .. hi = Places
    BY Ranges
  <2>2. step \in [lo + 1 .. hi -> [V -> V]]
    BY <2>1
  <2> HIDE DEF step, V, lo, hi
  <2>3. PICK f : IsLoop(f, lo, hi, V, NoBlock, step)
    BY <2>1, <2>2, LoopIsDefined
  <2> QED BY <2>1, <2>3 DEF lo, IsLoop
<1>2. \A b \in Pool : f[b - 1] \in V /\ f[b] = Turn(b, f[b - 1])
  BY <1>1, Ranges
<1>3. IsBest(f)
  <2>1. ASSUME NEW b \in Places, b < FirstBlock PROVE f[b] = NoBlock
    <3>1. b = FirstBlock - 1
      BY <2>1, Ranges
    <3> QED BY <3>1, <1>1
  <2>2. ASSUME NEW b \in Places, ~(b < FirstBlock) PROVE b \in Pool
    BY <2>2, Ranges
  <2> QED BY <1>1, <1>2, <2>1, <2>2
<1> DEFINE best == CHOOSE g : IsBest(g)
<1>4. IsBest(best)
  <2> HIDE DEF IsBest
  <2> QED BY <1>3
<1>5. Select(better, among) = best[NumberOfBlocks - 1]
  BY DEF Select
<1> HIDE DEF best
<1>6. best[FirstBlock - 1] = NoBlock
  <2>1. FirstBlock - 1 \in Places /\ FirstBlock - 1 < FirstBlock
    BY Ranges
  <2> QED BY <1>4, <2>1
<1>7. \A b \in Pool : best[b] = Turn(b, best[b - 1])
  BY <1>4, Ranges
<1>8. \A b \in Places : best[b] \in V
  <2> DEFINE Good == {b \in Places : best[b] \in V}
  <2>1. FirstBlock - 1 \in Good
    BY <1>6, Ranges
  <2>2. ASSUME NEW b \in Pool, b - 1 \in Good PROVE b \in Good
    BY <1>7, <2>2, Ranges
  <2>3. Places \subseteq Good
    <3> HIDE DEF Good
    <3> QED BY <2>1, <2>2, LoopKeeps
  <2> QED BY <2>3
<1>9. best \in [Places -> V]
  <2>1. best = [b \in Places |-> best[b]]
    BY <1>4
  <2> QED BY <2>1, <1>8
<1> QED BY <1>5, <1>6, <1>7, <1>9 DEF LoopOf

LEMMA SelectPicks ==
    ASSUME NEW better, NEW among \in SUBSET Pool
    PROVE  /\ among = {} => Select(better, among) = NoBlock
           /\ among # {} => Select(better, among) \in among
<1>1. PICK best : /\ LoopOf(best, better, among)
                  /\ Select(better, among) = best[NumberOfBlocks - 1]
  BY SelectIsLoop
<1> DEFINE Seen(b) == {c \in among : c <= b}
           Good    == {b \in Places : IF Seen(b) = {} THEN best[b] = NoBlock
                                                      ELSE best[b] \in Seen(b)}
<1>2. FirstBlock - 1 \in Good
  <2>1. ASSUME NEW c \in among PROVE ~(c <= FirstBlock - 1)
    BY Ranges
  <2>2. best[FirstBlock - 1] = NoBlock /\ FirstBlock - 1 \in Places
    BY <1>1, Ranges DEF LoopOf
  <2> QED BY <2>1, <2>2
<1>3. ASSUME NEW b \in Pool, b - 1 \in Good PROVE b \in Good
  <2>1. best[b] = IF b \in among /\ (best[b - 1] = NoBlock
                                     \/ <<b, best[b - 1]>> \in better)
                  THEN b ELSE best[b - 1]
    BY <1>1 DEF LoopOf
  <2>2. Seen(b) = Seen(b - 1) \union (IF b \in among THEN {b} ELSE {})
    <3>1. ASSUME NEW c \in among PROVE c <= b <=> c <= b - 1 \/ c = b
      BY Ranges
    <3> QED BY <3>1
  <2>3. NoBlock \notin Seen(b - 1) /\ b \in Places
    BY MapAssumption, Ranges
  <2>4. IF Seen(b - 1) = {} THEN best[b - 1] = NoBlock ELSE best[b - 1] \in Seen(b - 1)
    BY <1>3
  <2> HIDE DEF Seen
  <2>5. IF Seen(b) = {} THEN best[b] = NoBlock ELSE best[b] \in Seen(b)
    BY <2>1, <2>2, <2>3, <2>4
  <2> QED BY <2>3, <2>5
<1>4. NumberOfBlocks - 1 \in Good
  <2>1. NumberOfBlocks - 1 \in Places
    BY Ranges
  <2> HIDE DEF Good
  <2> QED BY <1>2, <1>3, <2>1, LoopKeeps
<1>5. Seen(NumberOfBlocks - 1) = among
  <2>1. ASSUME NEW c \in among PROVE c <= NumberOfBlocks - 1
    BY Ranges
  <2> QED BY <2>1
<1> QED BY <1>1, <1>4, <1>5

(* If replacing the choice never takes a larger measure, nor leaving it a   *)
(* smaller one, then the choice has the smallest.                           *)
LEMMA SelectPicksBest ==
    ASSUME NEW better, NEW among \in SUBSET Pool, NEW age \in [Pool -> Int],
           \A b, c \in Pool : IF <<b, c>> \in better THEN age[b] <= age[c]
                                                     ELSE age[c] <= age[b]
    PROVE  \A c \in among : age[Select(better, among)] <= age[c]
<1>1. PICK best : /\ LoopOf(best, better, among)
                  /\ Select(better, among) = best[NumberOfBlocks - 1]
  BY SelectIsLoop
<1> DEFINE Good == {b \in Places : \A c \in among :
                       c <= b => best[b] \in Pool /\ age[best[b]] <= age[c]}
<1>2. FirstBlock - 1 \in Good
  <2>1. ASSUME NEW c \in among PROVE ~(c <= FirstBlock - 1)
    BY Ranges
  <2> QED BY <2>1, Ranges
<1>3. ASSUME NEW b \in Pool, b - 1 \in Good PROVE b \in Good
  <2>1. SUFFICES ASSUME NEW c \in among, c <= b
                 PROVE  best[b] \in Pool /\ age[best[b]] <= age[c]
    BY Ranges
  <2>2. best[b] = IF b \in among /\ (best[b - 1] = NoBlock
                                     \/ <<b, best[b - 1]>> \in better)
                  THEN b ELSE best[b - 1]
    BY <1>1 DEF LoopOf
  <2>3. best[b - 1] \in Pool \union {NoBlock} /\ NoBlock \notin Pool
    BY <1>1, Ranges, MapAssumption DEF LoopOf
  <2>4. c = b \/ c <= b - 1
    BY <2>1, Ranges
  <2>5. c <= b - 1 => best[b - 1] \in Pool /\ age[best[b - 1]] <= age[c]
    BY <1>3
  <2>6. age[b] \in Int /\ age[c] \in Int /\ (best[b - 1] \in Pool => age[best[b - 1]] \in Int)
    OBVIOUS
  <2>7. best[b - 1] \in Pool => IF <<b, best[b - 1]>> \in better
                                THEN age[b] <= age[best[b - 1]]
                                ELSE age[best[b - 1]] <= age[b]
    OBVIOUS
  <2> HIDE DEF Good
  <2> QED BY <2>2, <2>3, <2>4, <2>5, <2>6, <2>7
<1>4. NumberOfBlocks - 1 \in Good
  <2>1. NumberOfBlocks - 1 \in Places
    BY Ranges
  <2> HIDE DEF Good
  <2> QED BY <1>2, <1>3, <2>1, LoopKeeps
<1>5. ASSUME NEW c \in among PROVE c <= NumberOfBlocks - 1
  BY Ranges
<1> QED BY <1>1, <1>4, <1>5

LEMMA ScanPicks ==
    ASSUME NEW among \in SUBSET Pool
    PROVE  IF among = {} THEN Scan(among) = NoBlock ELSE Scan(among) \in among
BY SelectPicks DEF Scan

LEMMA TakeBlockPicks ==
    ASSUME NEW among \in SUBSET Pool, among # {}
    PROVE  TakeBlock(among) \in among
BY SelectPicks DEF TakeBlock

LEMMA AgesAreNumbers ==
    ASSUME TypeOK, NEW b \in Pool
    PROVE  /\ AgeOf(b) \in Int /\ 0 <= AgeOf(b) /\ AgeOf(b) <= MaxAge
           /\ heads[b] = NoHead => AgeOf(b) = 0
<1>1. heads[b] \in BlockHead \union {NoHead}
  BY DEF TypeOK
<1> QED BY <1>1, HeadAssumption DEF AgeOf, BlockHead, Ages

LEMMA ScanPicksLeastWorn ==
    ASSUME TypeOK, NEW among \in SUBSET Pool, NEW c \in among
    PROVE  AgeOf(Scan(among)) <= AgeOf(c)
<1> DEFINE age    == [b \in Pool |-> AgeOf(b)]
           better == {p \in Pool \X Pool : heads[p[1]] = NoHead \/ AgeOf(p[1]) < AgeOf(p[2])}
<1>1. age \in [Pool -> Int]
  BY AgesAreNumbers
<1>2. ASSUME NEW b \in Pool, NEW d \in Pool
      PROVE  IF <<b, d>> \in better THEN age[b] <= age[d] ELSE age[d] <= age[b]
  <2>1. <<b, d>> \in better <=> heads[b] = NoHead \/ AgeOf(b) < AgeOf(d)
    OBVIOUS
  <2>2. age[b] = AgeOf(b) /\ age[d] = AgeOf(d)
    OBVIOUS
  <2> HIDE DEF age, better
  <2> QED BY <2>1, <2>2, AgesAreNumbers
<1>3. Scan(among) = Select(better, among)
  BY DEF Scan
<1>4. age[Select(better, among)] <= age[c]
  <2> HIDE DEF age, better
  <2> QED BY <1>1, <1>2, SelectPicksBest
<1>5. Select(better, among) \in Pool
  BY <1>3, ScanPicks
<1> QED BY <1>3, <1>4, <1>5

(* Wear leveling needs no more than that, and the types. *)
LEMMA LeastWornByScan == TypeOK => LeastWornIsOffered
<1> SUFFICES ASSUME TypeOK, FilledSlots = {}, NEW b \in Available
             PROVE  AgeOf(Offer) <= AgeOf(b)
  BY DEF LeastWornIsOffered
<1>1. Available \in SUBSET Pool
  BY DEF TypeOK, Available
<1> QED BY <1>1, ScanPicksLeastWorn DEF Offer

-----------------------------------------------------------------------------
(* The least slot, and the least block that is left to reclaim.            *)

LEMMA FirstFilledIsFilled ==
    FilledSlots # {} => FirstFilled \in FilledSlots
<1> SUFFICES ASSUME FilledSlots # {} PROVE FirstFilled \in FilledSlots
  OBVIOUS
<1>1. FilledSlots \in SUBSET Int /\ \A i \in FilledSlots : 1 <= i
  BY BoundsAssumption DEF FilledSlots, Slots
<1>2. \E i \in FilledSlots : \A j \in FilledSlots : i <= j
  BY <1>1, LeastInteger
<1> QED BY <1>2 DEF FirstFilled

LEMMA NextRestIsInRest ==
    ASSUME task.rest \in SUBSET Pool, task.rest # {}
    PROVE  NextRest \in task.rest
<1>1. /\ task.rest \in SUBSET Int /\ FirstBlock \in Int
      /\ \A b \in task.rest : FirstBlock <= b
  BY Ranges
<1>2. \E b \in task.rest : \A c \in task.rest : b <= c
  BY <1>1, LeastInteger
<1> QED BY <1>2 DEF NextRest

-----------------------------------------------------------------------------
(* The invariant.                                                          *)

CountersOK ==
    /\ preallocations \in 0 .. MaxPreallocations /\ reclaims \in 0 .. MaxReclaims
    /\ crashes \in 0 .. MaxCrashes /\ faults \in 0 .. MaxFaults

LEMMA InitHolds == Init => AllocatorInv
<1> SUFFICES ASSUME Init PROVE AllocatorInv
  OBVIOUS
<1>1. FilledSlots = {} /\ SetAside = {} /\ Blocks(fresh) = {} /\ Limbo = {}
  BY DEF Init, NoPreallocated, FilledSlots, SetAside, Blocks, Limbo, Idle
<1>2. TypeOK
  <2>1. blank \in SUBSET {b \in Pool : heads[b] = NoHead}
    BY DEF Init
  <2>2. CountersOK
    BY BoundsAssumption DEF Init, CountersOK
  <2> QED BY <2>1, <2>2 DEF Init, TypeOK, NoPreallocated, Tasks, CountersOK
<1>3. \A b \in Pool : ~IsTaken(b)
  BY DEF Init, IsTaken
<1> QED BY <1>1, <1>2, <1>3 DEF Init, AllocatorInv, OnePlaceEach, HeadsAgree,
           SetAsideIsBlank, Preallocating, Reclaiming, NothingLost, Hands, Idle

(* After a reset every block is free or held, as its head says. *)
LEMMA RestartHolds ==
    ASSUME NEW hs \in [Pool -> BlockHead \union {NoHead}],
           NEW bl \in SUBSET {b \in Pool : hs[b] = NoHead},
           RestartWith(hs, bl), CountersOK'
    PROVE  AllocatorInv'
<1>1. /\ FilledSlots' = {} /\ SetAside' = {} /\ Blocks(fresh)' = {} /\ Limbo' = {}
      /\ fresh' = {} /\ task' = Idle /\ Idle.kind = "none"
  BY DEF RestartWith, NoPreallocated, FilledSlots, SetAside, Blocks, Limbo, Idle
<1>2. TypeOK'
  BY DEF RestartWith, TypeOK, NoPreallocated, Tasks, CountersOK
<1>3. \A b \in Pool : IsTaken(b)' <=> b \notin free'
  BY DEF RestartWith, IsTaken
<1>4. held' = Pool \ free' /\ free' \subseteq Pool
  BY DEF RestartWith
<1> QED BY <1>1, <1>2, <1>3, <1>4 DEF AllocatorInv, OnePlaceEach, HeadsAgree,
           SetAsideIsBlank, Preallocating, Reclaiming, NothingLost, Hands

LEMMA AllocatePreallocatedHolds == AllocatorInv /\ AllocatePreallocated => AllocatorInv'
<1> SUFFICES ASSUME AllocatorInv, AllocatePreallocated PROVE AllocatorInv'
  OBVIOUS
<1> DEFINE b == preallocated[FirstFilled]
           g == [block |-> b, age |-> 0, erased |-> TRUE]
<1>1. /\ FirstFilled \in FilledSlots /\ FirstFilled \in Slots
      /\ b \in Pool /\ b \in SetAside /\ b # NoBlock
  BY FirstFilledIsFilled, MapAssumption
     DEF AllocatePreallocated, FilledSlots, SetAside, AllocatorInv, TypeOK
<1>2. fresh' = fresh \union {g}
  BY DEF AllocatePreallocated, Offer
<1>3. g \in Given /\ g.block = b /\ g.erased
  BY <1>1, HeadAssumption DEF Given, Ages
<1>4. FilledSlots' = FilledSlots \ {FirstFilled}
  BY <1>1 DEF AllocatePreallocated, FilledSlots, AllocatorInv, TypeOK
<1>5. SetAside' = SetAside \ {b}
  BY <1>1, <1>4 DEF AllocatePreallocated, SetAside, AllocatorInv, OnePlaceEach, TypeOK, FilledSlots
<1>6. Blocks(fresh)' = Blocks(fresh) \union {b}
  BY <1>2, <1>3 DEF Blocks
<1>7. /\ Limbo' = Limbo /\ task' = task /\ task.kind = "none"
      /\ \A c \in Pool : IsTaken(c)' = IsTaken(c)
  BY DEF AllocatePreallocated, Limbo, Idle, IsTaken
<1> HIDE DEF b, g
<1>8. TypeOK'
  BY <1>1, <1>2, <1>3 DEF AllocatePreallocated, AllocatorInv, TypeOK, counters
<1>9. OnePlaceEach'
  <2>1. \A h, k \in fresh' : h.block = k.block => h = k
    BY <1>1, <1>2, <1>3 DEF AllocatorInv, OnePlaceEach, Hands, Blocks
  <2>2. \A i, j \in FilledSlots' : preallocated'[i] = preallocated'[j] => i = j
    BY <1>1, <1>4 DEF AllocatorInv, OnePlaceEach, AllocatePreallocated, TypeOK, FilledSlots
  <2>3. /\ free' = free /\ held' = held /\ Hands' = Hands \union {b}
    BY <1>6 DEF AllocatePreallocated, Hands
  <2>4. b \notin free /\ b \notin Hands /\ b \notin Limbo /\ b \notin held
    BY <1>1 DEF AllocatorInv, OnePlaceEach, Hands
  <2>5. /\ free' \intersect Hands' = {}
        /\ SetAside' \intersect (free' \union Hands') = {}
        /\ Limbo' \intersect (free' \union SetAside' \union Hands') = {}
        /\ held' \intersect Blocks(fresh)' = {}
    BY <1>5, <1>6, <1>7, <2>3, <2>4 DEF AllocatorInv, OnePlaceEach
  <2> QED BY <2>1, <2>2, <2>5 DEF OnePlaceEach
<1>10. SetAsideIsBlank'
  BY <1>1, <1>2, <1>3, <1>5 DEF AllocatorInv, SetAsideIsBlank, AllocatePreallocated
<1>11. HeadsAgree'
  BY <1>7 DEF AllocatorInv, TypeOK, HeadsAgree, AllocatePreallocated
<1>12. NothingLost'
  BY <1>1, <1>5, <1>6, <1>7 DEF AllocatorInv, NothingLost, Hands, AllocatePreallocated
<1> QED BY <1>7, <1>8, <1>9, <1>10, <1>11, <1>12 DEF AllocatorInv, Preallocating, Reclaiming

LEMMA AvailableIsFree == AllocatorInv => Available = free
BY DEF AllocatorInv, HeadsAgree, Available

LEMMA AllocateInternalHolds == AllocatorInv /\ AllocateInternal => AllocatorInv'
<1> SUFFICES ASSUME AllocatorInv, AllocateInternal PROVE AllocatorInv'
  OBVIOUS
<1> DEFINE b == Offer
           g == [block |-> b, age |-> AgeOf(b), erased |-> FALSE]
<1>1. b \in free /\ b \in Pool
  BY AvailableIsFree, ScanPicks DEF AllocateInternal, Offer, AllocatorInv, TypeOK
<1>2. /\ fresh' = fresh \union {g}
      /\ free' = free \ {b}
      /\ UNCHANGED <<heads, blank, preallocated, held, task, lossy, counters>>
  BY AvailableIsFree DEF AllocateInternal
<1>3. g \in Given /\ g.block = b /\ ~g.erased
  BY <1>1, AgesAreNumbers, HeadAssumption DEF Given, Ages, AllocatorInv
<1>4. /\ FilledSlots' = FilledSlots /\ SetAside' = SetAside
      /\ Limbo' = Limbo /\ task' = task /\ task.kind = "none"
      /\ \A c \in Pool : IsTaken(c)' = IsTaken(c)
  BY <1>2 DEF FilledSlots, SetAside, Limbo, IsTaken, AllocateInternal, Idle
<1> HIDE DEF b, g
<1>5. Blocks(fresh)' = Blocks(fresh) \union {b} /\ Hands' = Hands \union {b}
  BY <1>2, <1>3 DEF Blocks, Hands
<1>6. TypeOK'
  BY <1>1, <1>2, <1>3 DEF AllocatorInv, TypeOK, counters
<1>7. b \notin SetAside /\ b \notin Hands /\ b \notin Limbo /\ b \notin held
  BY <1>1 DEF AllocatorInv, OnePlaceEach, Hands
<1>8. OnePlaceEach'
  <2>1. \A h, k \in fresh' : h.block = k.block => h = k
    BY <1>2, <1>3, <1>7 DEF AllocatorInv, OnePlaceEach, Hands, Blocks
  <2>2. \A i, j \in FilledSlots' : preallocated'[i] = preallocated'[j] => i = j
    BY <1>2, <1>4 DEF AllocatorInv, OnePlaceEach
  <2>3. /\ free' \intersect Hands' = {}
        /\ SetAside' \intersect (free' \union Hands') = {}
        /\ Limbo' \intersect (free' \union SetAside' \union Hands') = {}
        /\ held' \intersect Blocks(fresh)' = {}
    BY <1>2, <1>4, <1>5, <1>7 DEF AllocatorInv, OnePlaceEach
  <2> QED BY <2>1, <2>2, <2>3 DEF OnePlaceEach
<1>9. SetAsideIsBlank'
  BY <1>2, <1>3, <1>4 DEF AllocatorInv, SetAsideIsBlank
<1>10. HeadsAgree'
  BY <1>2, <1>4 DEF AllocatorInv, TypeOK, HeadsAgree
<1>11. NothingLost'
  BY <1>1, <1>2, <1>4, <1>5 DEF AllocatorInv, NothingLost
<1> QED BY <1>4, <1>6, <1>8, <1>9, <1>10, <1>11 DEF AllocatorInv, Preallocating, Reclaiming

LEMMA OutOfBlocksHolds == AllocatorInv /\ OutOfBlocks => AllocatorInv'
<1> SUFFICES ASSUME AllocatorInv, OutOfBlocks PROVE AllocatorInv'
  OBVIOUS
<1>1. CountersOK'
  BY DEF OutOfBlocks, counters, AllocatorInv, TypeOK, CountersOK
<1>2. RestartWith(heads, blank) /\ heads \in [Pool -> BlockHead \union {NoHead}]
      /\ blank \in SUBSET {b \in Pool : heads[b] = NoHead}
  BY DEF OutOfBlocks, AllocatorInv, TypeOK
<1> QED BY <1>1, <1>2, RestartHolds

LEMMA PreallocateRunsOutHolds == AllocatorInv /\ PreallocateRunsOut => AllocatorInv'
<1> SUFFICES ASSUME AllocatorInv, PreallocateRunsOut PROVE AllocatorInv'
  OBVIOUS
<1>1. CountersOK'
  BY DEF PreallocateRunsOut, counters, AllocatorInv, TypeOK, CountersOK
<1>2. RestartWith(heads, blank) /\ heads \in [Pool -> BlockHead \union {NoHead}]
      /\ blank \in SUBSET {b \in Pool : heads[b] = NoHead}
  BY DEF PreallocateRunsOut, AllocatorInv, TypeOK
<1> QED BY <1>1, <1>2, RestartHolds

LEMMA WrittenHeads ==
    ASSUME NEW taken \in BOOLEAN, NEW age \in Ages
    PROVE  /\ HeadOf(taken, age) \in BlockHead /\ HeadOf(taken, age) # NoHead
           /\ HeadOf(taken, age).taken <=> taken
<1>1. HeadOf(taken, age) \in BlockHead
  BY DEF HeadOf, BlockHead
<1>2. HeadOf(taken, age) # NoHead
  BY <1>1, HeadAssumption DEF BlockHead
<1>3. HeadOf(taken, age).taken <=> taken
  BY DEF HeadOf
<1> QED BY <1>1, <1>2, <1>3

(* The block goes from those given to those held. *)
LEMMA WriteHeadHolds ==
    ASSUME AllocatorInv, NEW g \in fresh, NEW age \in Ages, WriteHead(g, age)
    PROVE  AllocatorInv'
<1> DEFINE b == g.block
<1>1. b \in Pool /\ g \in Given /\ b \in Blocks(fresh)
  BY DEF AllocatorInv, TypeOK, Given, Blocks
<1>2. /\ heads' = [heads EXCEPT ![b] = HeadOf(TRUE, age)]
      /\ blank' = blank \ {b}
      /\ fresh' = fresh \ {g}
      /\ held' = held \union {b}
      /\ UNCHANGED <<free, preallocated, task, lossy, counters>>
      /\ task.kind = "none"
  BY DEF WriteHead, Idle
<1> HIDE DEF b
<1>3. /\ HeadOf(TRUE, age) \in BlockHead /\ HeadOf(TRUE, age) # NoHead
      /\ HeadOf(TRUE, age).taken
  BY WrittenHeads
<1>4. \A h \in fresh : h # g => h.block # b
  BY DEF AllocatorInv, OnePlaceEach, b
<1>5. Blocks(fresh)' = Blocks(fresh) \ {b} /\ Hands' = Hands
  BY <1>1, <1>2, <1>4 DEF Blocks, Hands, b
<1>6. /\ FilledSlots' = FilledSlots /\ SetAside' = SetAside /\ Limbo' = Limbo /\ task' = task
      /\ \A c \in Pool : IsTaken(c)' <=> c = b \/ IsTaken(c)
  BY <1>1, <1>2, <1>3 DEF FilledSlots, SetAside, Limbo, IsTaken, AllocatorInv, TypeOK
<1>7. TypeOK'
  <2>1. heads' \in [Pool -> BlockHead \union {NoHead}]
    BY <1>2, <1>3 DEF AllocatorInv, TypeOK
  <2>2. blank' \in SUBSET {c \in Pool : heads'[c] = NoHead}
    BY <1>2 DEF AllocatorInv, TypeOK
  <2> QED BY <1>1, <1>2, <2>1, <2>2 DEF AllocatorInv, TypeOK, counters
<1>8. b \notin SetAside /\ b \notin free /\ b \notin held
  BY <1>1 DEF AllocatorInv, OnePlaceEach, Hands
<1>9. OnePlaceEach'
  <2>1. \A h, k \in fresh' : h.block = k.block => h = k
    BY <1>2 DEF AllocatorInv, OnePlaceEach
  <2>2. \A i, j \in FilledSlots' : preallocated'[i] = preallocated'[j] => i = j
    BY <1>2, <1>6 DEF AllocatorInv, OnePlaceEach
  <2>3. /\ free' \intersect Hands' = {}
        /\ SetAside' \intersect (free' \union Hands') = {}
        /\ Limbo' \intersect (free' \union SetAside' \union Hands') = {}
        /\ held' \intersect Blocks(fresh)' = {}
    BY <1>2, <1>5, <1>6, <1>8 DEF AllocatorInv, OnePlaceEach
  <2> QED BY <2>1, <2>2, <2>3 DEF OnePlaceEach
<1>10. SetAsideIsBlank'
  BY <1>2, <1>4, <1>6, <1>8 DEF AllocatorInv, SetAsideIsBlank
<1>11. HeadsAgree'
  BY <1>1, <1>2, <1>6, <1>8 DEF AllocatorInv, TypeOK, HeadsAgree
<1>12. NothingLost'
  BY <1>2, <1>5, <1>6 DEF AllocatorInv, NothingLost
<1> QED BY <1>2, <1>6, <1>7, <1>9, <1>10, <1>11, <1>12 DEF AllocatorInv, Preallocating, Reclaiming

(* The block leaves the hands of its client and is in limbo. *)
LEMMA FreeHolds ==
    ASSUME AllocatorInv, NEW b \in held, Free(b)
    PROVE  AllocatorInv'
<1>1. /\ b \in Pool
      /\ held' = held \ {b}
      /\ task' = [kind |-> "erase", block |-> b,
                  age |-> IF heads[b] = NoHead THEN 0 ELSE heads[b].age + 1]
      /\ UNCHANGED <<heads, blank, free, preallocated, fresh, lossy, counters>>
  BY DEF Free, AllocatorInv, TypeOK
<1>2. (IF heads[b] = NoHead THEN 0 ELSE heads[b].age + 1) \in Ages
  <2>1. heads[b] \in BlockHead \union {NoHead} /\ AgeOf(b) < MaxAge
    BY <1>1 DEF AllocatorInv, TypeOK, Free
  <2> QED BY <2>1, HeadAssumption DEF BlockHead, AgeOf, Ages
<1>3. task' \in Tasks /\ task'.kind = "erase" /\ task'.block = b
  BY <1>1, <1>2 DEF Tasks
<1>4. Limbo = {} /\ Limbo' = {b}
  BY <1>3 DEF Limbo, Free, Idle
<1>5. /\ FilledSlots' = FilledSlots /\ SetAside' = SetAside
      /\ Blocks(fresh)' = Blocks(fresh)
      /\ \A c \in Pool : IsTaken(c)' <=> IsTaken(c)
  BY <1>1 DEF FilledSlots, SetAside, Blocks, IsTaken
<1>6. TypeOK'
  BY <1>1, <1>3 DEF AllocatorInv, TypeOK, counters
<1>7. b \notin SetAside /\ b \notin free /\ b \notin Blocks(fresh)
  BY DEF AllocatorInv, OnePlaceEach, Hands
<1>8. OnePlaceEach'
  <2>1. Hands' = Hands \ {b}
    BY <1>1, <1>5, <1>7 DEF Hands
  <2> QED BY <1>1, <1>4, <1>5, <1>7, <2>1 DEF AllocatorInv, OnePlaceEach
<1>9. SetAsideIsBlank'
  BY <1>1, <1>5 DEF AllocatorInv, SetAsideIsBlank
<1>10. HeadsAgree'
  BY <1>1, <1>5 DEF AllocatorInv, TypeOK, HeadsAgree
<1>11. NothingLost'
  <2>1. task.kind # "reclaim"
    BY DEF Free, Idle
  <2>2. Hands = Hands' \union {b}
    BY <1>1, <1>5 DEF Hands
  <2> QED BY <1>1, <1>4, <1>5, <2>1, <2>2 DEF AllocatorInv, NothingLost
<1> QED BY <1>3, <1>6, <1>8, <1>9, <1>10, <1>11 DEF AllocatorInv, Preallocating, Reclaiming

(* What is known of the task that runs. *)
LEMMA TaskInLimbo ==
    ASSUME TypeOK, task.kind \in {"erase", "mark"}
    PROVE  /\ task \in [kind : {"erase", "mark"}, block : Pool, age : Ages]
           /\ task.block \in Pool /\ task.age \in Ages /\ Limbo = {task.block}
BY DEF TypeOK, Tasks, Idle, Limbo

LEMMA FreeErasesHolds == AllocatorInv /\ FreeErases => AllocatorInv'
<1> SUFFICES ASSUME AllocatorInv, FreeErases PROVE AllocatorInv'
  OBVIOUS
<1> DEFINE b == task.block
<1>1. /\ heads' = [heads EXCEPT ![b] = NoHead]
      /\ blank' = blank \union {b}
      /\ task' = [task EXCEPT !.kind = "mark"]
      /\ UNCHANGED <<free, preallocated, fresh, held, lossy, counters>>
  BY DEF FreeErases
<1>2. /\ task \in [kind : {"erase", "mark"}, block : Pool, age : Ages]
      /\ b \in Pool /\ Limbo = {b} /\ task.kind = "erase"
  BY TaskInLimbo DEF AllocatorInv, FreeErases
<1>3. task' \in Tasks /\ task'.kind = "mark" /\ task'.block = b /\ Limbo' = Limbo
  BY <1>1, <1>2 DEF Tasks, Limbo
<1> HIDE DEF b
<1>4. /\ FilledSlots' = FilledSlots /\ SetAside' = SetAside
      /\ Blocks(fresh)' = Blocks(fresh) /\ Hands' = Hands
      /\ \A c \in Pool : IsTaken(c)' <=> c # b /\ IsTaken(c)
  BY <1>1, <1>2 DEF FilledSlots, SetAside, Blocks, Hands, IsTaken, AllocatorInv, TypeOK
<1>5. TypeOK'
  <2>1. heads' \in [Pool -> BlockHead \union {NoHead}]
    BY <1>1 DEF AllocatorInv, TypeOK
  <2>2. blank' \in SUBSET {c \in Pool : heads'[c] = NoHead}
    BY <1>1, <1>2 DEF AllocatorInv, TypeOK
  <2> QED BY <1>1, <1>3, <2>1, <2>2 DEF AllocatorInv, TypeOK, counters
<1>6. OnePlaceEach'
  BY <1>1, <1>3, <1>4 DEF AllocatorInv, OnePlaceEach
<1>7. SetAsideIsBlank'
  BY <1>1, <1>4 DEF AllocatorInv, SetAsideIsBlank
<1>8. HeadsAgree'
  BY <1>1, <1>2, <1>4 DEF AllocatorInv, TypeOK, HeadsAgree, OnePlaceEach, Hands
<1>9. NothingLost'
  BY <1>1, <1>2, <1>3, <1>4 DEF AllocatorInv, NothingLost
<1> QED BY <1>3, <1>5, <1>6, <1>7, <1>8, <1>9 DEF AllocatorInv, Preallocating, Reclaiming

LEMMA FreeMarksHolds == AllocatorInv /\ FreeMarks => AllocatorInv'
<1> SUFFICES ASSUME AllocatorInv, FreeMarks PROVE AllocatorInv'
  OBVIOUS
<1> DEFINE b == task.block
<1>1. /\ heads' = [heads EXCEPT ![b] = HeadOf(FALSE, task.age)]
      /\ blank' = blank \ {b}
      /\ free' = free \union {b}
      /\ task' = Idle
      /\ UNCHANGED <<preallocated, fresh, held, lossy, counters>>
  BY DEF FreeMarks
<1>2. b \in Pool /\ Limbo = {b} /\ task.kind = "mark" /\ task.age \in Ages
  BY TaskInLimbo DEF AllocatorInv, FreeMarks
<1>3. /\ HeadOf(FALSE, task.age) \in BlockHead /\ HeadOf(FALSE, task.age) # NoHead
      /\ ~HeadOf(FALSE, task.age).taken
  BY <1>2, WrittenHeads
<1> HIDE DEF b
<1>4. /\ FilledSlots' = FilledSlots /\ SetAside' = SetAside
      /\ Blocks(fresh)' = Blocks(fresh) /\ Hands' = Hands
      /\ \A c \in Pool : IsTaken(c)' <=> c # b /\ IsTaken(c)
      /\ Limbo' = {} /\ task'.kind = "none"
  BY <1>1, <1>2, <1>3
     DEF FilledSlots, SetAside, Blocks, Hands, IsTaken, AllocatorInv, TypeOK, Limbo, Idle
<1>5. TypeOK'
  <2>1. heads' \in [Pool -> BlockHead \union {NoHead}]
    BY <1>1, <1>3 DEF AllocatorInv, TypeOK
  <2>2. blank' \in SUBSET {c \in Pool : heads'[c] = NoHead}
    BY <1>1, <1>2 DEF AllocatorInv, TypeOK
  <2> QED BY <1>1, <1>2, <2>1, <2>2 DEF AllocatorInv, TypeOK, counters, Tasks
<1>6. OnePlaceEach'
  BY <1>1, <1>2, <1>4 DEF AllocatorInv, OnePlaceEach
<1>7. SetAsideIsBlank'
  <2>1. \A h \in fresh : h.block \in Blocks(fresh)
    BY DEF Blocks
  <2>2. b \notin SetAside /\ b \notin Blocks(fresh)
    BY <1>2 DEF AllocatorInv, OnePlaceEach, Hands
  <2> QED BY <1>1, <1>4, <2>1, <2>2 DEF AllocatorInv, SetAsideIsBlank
<1>8. HeadsAgree'
  BY <1>1, <1>2, <1>4 DEF AllocatorInv, TypeOK, HeadsAgree, OnePlaceEach, Hands
<1>9. NothingLost'
  BY <1>1, <1>2, <1>4 DEF AllocatorInv, NothingLost
<1> QED BY <1>4, <1>5, <1>6, <1>7, <1>8, <1>9 DEF AllocatorInv, Preallocating, Reclaiming

LEMMA PreallocateHolds == AllocatorInv /\ Preallocate => AllocatorInv'
<1> SUFFICES ASSUME AllocatorInv, Preallocate PROVE AllocatorInv'
  OBVIOUS
<1>1. /\ free' = free
      /\ task' = [kind |-> "preallocate", slot |-> 1, available |-> free]
      /\ lossy' = (lossy \/ FilledSlots # {})
      /\ UNCHANGED <<heads, blank, preallocated, fresh, held>>
      /\ task.kind = "none"
  BY AvailableIsFree DEF Preallocate, Idle
<1>2. task' \in Tasks /\ Limbo = {} /\ Limbo' = {}
  BY <1>1, BoundsAssumption DEF Tasks, Slots, AllocatorInv, TypeOK, Preallocate, Limbo
<1>3. /\ FilledSlots' = FilledSlots /\ SetAside' = SetAside
      /\ Blocks(fresh)' = Blocks(fresh) /\ Hands' = Hands
      /\ \A c \in Pool : IsTaken(c)' <=> IsTaken(c)
  BY <1>1 DEF FilledSlots, SetAside, Blocks, Hands, IsTaken
<1>4. TypeOK'
  <2>1. CountersOK' /\ lossy' \in BOOLEAN
    BY <1>1, BoundsAssumption DEF Preallocate, AllocatorInv, TypeOK, CountersOK
  <2> QED BY <1>1, <1>2, <2>1 DEF AllocatorInv, TypeOK, CountersOK
<1>5. Preallocating'
  <2>1. ~lossy' => \A i \in Slots : preallocated'[i] = NoBlock
    BY <1>1 DEF FilledSlots
  <2> QED BY <1>1, <2>1 DEF Preallocating, Slots
<1>6. OnePlaceEach' /\ SetAsideIsBlank' /\ HeadsAgree'
  BY <1>1, <1>2, <1>3 DEF AllocatorInv, OnePlaceEach, SetAsideIsBlank, HeadsAgree, TypeOK
<1>7. NothingLost' /\ Reclaiming'
  BY <1>1, <1>2, <1>3 DEF AllocatorInv, NothingLost, Reclaiming
<1> QED BY <1>4, <1>5, <1>6, <1>7 DEF AllocatorInv

LEMMA TaskPreallocating ==
    ASSUME TypeOK, task.kind = "preallocate"
    PROVE  /\ task \in [kind : {"preallocate"}, slot : Slots, available : SUBSET Pool]
           /\ task.slot \in Slots /\ task.available \in SUBSET Pool
BY DEF TypeOK, Tasks, Idle

(* The block goes from the free ones to a slot. *)
LEMMA PreallocateBlockHolds == AllocatorInv /\ PreallocateBlock => AllocatorInv'
<1> SUFFICES ASSUME AllocatorInv, PreallocateBlock PROVE AllocatorInv'
  OBVIOUS
<1> DEFINE b == TakeBlock(task.available)
           s == task.slot
<1>1. /\ task \in [kind : {"preallocate"}, slot : Slots, available : SUBSET Pool]
      /\ s \in Slots /\ task.available \in SUBSET Pool /\ task.kind = "preallocate"
  BY TaskPreallocating DEF PreallocateBlock, AllocatorInv
<1>2. b \in task.available /\ b \in free /\ b \in Pool /\ b # NoBlock
  BY <1>1, TakeBlockPicks, MapAssumption
     DEF PreallocateBlock, AllocatorInv, Preallocating, TypeOK
<1>3. /\ free' = free \ {b}
      /\ heads' = [heads EXCEPT ![b] = NoHead]
      /\ blank' = blank \union {b}
      /\ preallocated' = [preallocated EXCEPT ![s] = b]
      /\ task' = IF s = PreallocationSize THEN Idle
                 ELSE [task EXCEPT !.slot = s + 1, !.available = task.available \ {b}]
      /\ UNCHANGED <<fresh, held, lossy, counters>>
  BY DEF PreallocateBlock, NextTask
<1> HIDE DEF b
<1>4. task'.kind \in {"none", "preallocate"} /\ task' \in Tasks
  <2>1. CASE s = PreallocationSize
    BY <1>3, <2>1 DEF Idle, Tasks
  <2>2. CASE s # PreallocationSize
    <3>1. s + 1 \in Slots
      BY <1>1, <2>2, BoundsAssumption DEF Slots
    <3> QED BY <1>1, <1>3, <2>2, <3>1 DEF Tasks
  <2> QED BY <2>1, <2>2
<1>5. Limbo = {} /\ Limbo' = {} /\ task'.kind # "reclaim"
  BY <1>1, <1>4 DEF Limbo
<1>6. FilledSlots' = FilledSlots \union {s}
  BY <1>1, <1>2, <1>3 DEF FilledSlots, AllocatorInv, TypeOK
<1>7. /\ SetAside' \subseteq SetAside \union {b}
      /\ preallocated[s] = NoBlock => SetAside' = SetAside \union {b}
  BY <1>1, <1>2, <1>3, <1>6 DEF SetAside, FilledSlots, AllocatorInv, TypeOK
<1>8. /\ Blocks(fresh)' = Blocks(fresh) /\ Hands' = Hands
      /\ \A c \in Pool : IsTaken(c)' <=> c # b /\ IsTaken(c)
  BY <1>2, <1>3 DEF Blocks, Hands, IsTaken, AllocatorInv, TypeOK
<1>9. b \notin SetAside /\ b \notin Hands /\ b \notin held
  BY <1>2 DEF AllocatorInv, OnePlaceEach, Hands
<1>10. TypeOK'
  <2>1. heads' \in [Pool -> BlockHead \union {NoHead}]
    BY <1>3 DEF AllocatorInv, TypeOK
  <2>2. blank' \in SUBSET {c \in Pool : heads'[c] = NoHead}
    BY <1>2, <1>3 DEF AllocatorInv, TypeOK
  <2>3. preallocated' \in [Slots -> Pool \union {NoBlock}]
    BY <1>2, <1>3 DEF AllocatorInv, TypeOK
  <2> QED BY <1>3, <1>4, <2>1, <2>2, <2>3 DEF AllocatorInv, TypeOK, counters
<1>11. OnePlaceEach'
  <2>1. \A i, j \in FilledSlots' : preallocated'[i] = preallocated'[j] => i = j
    <3>1. \A i \in FilledSlots' : preallocated'[i] = IF i = s THEN b ELSE preallocated[i]
      BY <1>1, <1>3, <1>6 DEF AllocatorInv, TypeOK, FilledSlots
    <3>2. \A i \in FilledSlots : preallocated[i] \in SetAside
      BY DEF SetAside
    <3> QED BY <1>6, <1>9, <3>1, <3>2 DEF AllocatorInv, OnePlaceEach
  <2> QED BY <1>3, <1>5, <1>7, <1>8, <1>9, <2>1 DEF AllocatorInv, OnePlaceEach
<1>12. SetAsideIsBlank'
  BY <1>3, <1>7 DEF AllocatorInv, SetAsideIsBlank
<1>13. HeadsAgree'
  BY <1>3, <1>8, <1>9 DEF AllocatorInv, HeadsAgree, TypeOK
<1>14. Preallocating'
  <2> SUFFICES ASSUME task'.kind = "preallocate" PROVE Preallocating'
    BY DEF Preallocating
  <2>1. /\ s # PreallocationSize
        /\ task'.slot = s + 1 /\ task'.available = task.available \ {b}
    BY <1>1, <1>3 DEF Idle
  <2>2. ~lossy => \A i \in s + 1 .. PreallocationSize : preallocated'[i] = NoBlock
    BY <1>1, <1>3, BoundsAssumption DEF AllocatorInv, Preallocating, Slots, TypeOK
  <2> QED BY <1>1, <1>3, <2>1, <2>2 DEF AllocatorInv, Preallocating
<1>15. NothingLost'
  <2>1. ~lossy => preallocated[s] = NoBlock
    BY <1>1, BoundsAssumption DEF AllocatorInv, Preallocating, Slots
  <2> QED BY <1>1, <1>2, <1>3, <1>5, <1>7, <1>8, <2>1 DEF AllocatorInv, NothingLost
<1> QED BY <1>5, <1>10, <1>11, <1>12, <1>13, <1>14, <1>15 DEF AllocatorInv, Reclaiming

LEMMA ReclaimHolds ==
    ASSUME AllocatorInv, NEW kept \in SUBSET held, Reclaim(kept)
    PROVE  AllocatorInv'
<1>1. /\ held' = kept
      /\ task' = [kind |-> "reclaim", rest |-> {b \in Pool \ kept : IsTaken(b)}]
      /\ fresh = {} /\ FilledSlots = {}
      /\ UNCHANGED <<heads, blank, free, preallocated, fresh, lossy>>
      /\ task.kind = "none"
  BY DEF Reclaim, Idle
<1>2. /\ FilledSlots' = {} /\ SetAside' = SetAside /\ Blocks(fresh)' = Blocks(fresh)
      /\ Hands' \subseteq Hands
      /\ \A c \in Pool : IsTaken(c)' <=> IsTaken(c)
      /\ task'.kind = "reclaim" /\ Limbo' = {}
  BY <1>1 DEF FilledSlots, SetAside, Blocks, Hands, IsTaken, Limbo
<1>3. TypeOK'
  <2>1. CountersOK'
    BY BoundsAssumption DEF Reclaim, AllocatorInv, TypeOK, CountersOK
  <2>2. task' \in Tasks /\ held' \in SUBSET Pool
    BY <1>1 DEF Tasks, AllocatorInv, TypeOK
  <2> QED BY <1>1, <2>1, <2>2 DEF AllocatorInv, TypeOK, CountersOK
<1>4. Reclaiming'
  <2>1. \A b \in kept : b \in Pool /\ IsTaken(b)
    BY DEF AllocatorInv, HeadsAgree, TypeOK
  <2> QED BY <1>1, <1>2, <2>1 DEF Reclaiming
<1>5. OnePlaceEach' /\ SetAsideIsBlank' /\ HeadsAgree'
  BY <1>1, <1>2 DEF AllocatorInv, OnePlaceEach, SetAsideIsBlank, HeadsAgree, TypeOK
<1> QED BY <1>2, <1>3, <1>4, <1>5 DEF AllocatorInv, NothingLost, Preallocating

LEMMA TaskReclaiming ==
    ASSUME TypeOK, task.kind = "reclaim"
    PROVE  /\ task \in [kind : {"reclaim"}, rest : SUBSET Pool]
           /\ task.rest \in SUBSET Pool
BY DEF TypeOK, Tasks, Idle

LEMMA ReclaimErasesHolds == AllocatorInv /\ ReclaimErases => AllocatorInv'
<1> SUFFICES ASSUME AllocatorInv, ReclaimErases PROVE AllocatorInv'
  OBVIOUS
<1> DEFINE b == NextRest
<1>1. /\ task \in [kind : {"reclaim"}, rest : SUBSET Pool]
      /\ b \in task.rest /\ b \in Pool /\ task.kind = "reclaim"
  BY TaskReclaiming, NextRestIsInRest DEF ReclaimErases, AllocatorInv
<1>2. /\ heads' = [heads EXCEPT ![b] = NoHead]
      /\ blank' = blank \union {b}
      /\ task' = [task EXCEPT !.rest = task.rest \ {b}]
      /\ UNCHANGED <<free, preallocated, fresh, held, lossy, counters>>
  BY DEF ReclaimErases
<1> HIDE DEF b
<1>3. /\ task' \in Tasks /\ task'.kind = "reclaim" /\ task'.rest = task.rest \ {b}
      /\ Limbo = {} /\ Limbo' = {}
  BY <1>1, <1>2 DEF Tasks, Limbo
<1>4. /\ FilledSlots' = FilledSlots /\ SetAside' = SetAside
      /\ Blocks(fresh)' = Blocks(fresh) /\ Hands' = Hands
      /\ \A c \in Pool : IsTaken(c)' <=> c # b /\ IsTaken(c)
  BY <1>1, <1>2 DEF FilledSlots, SetAside, Blocks, Hands, IsTaken, AllocatorInv, TypeOK
<1>5. TypeOK'
  <2>1. heads' \in [Pool -> BlockHead \union {NoHead}]
    BY <1>2 DEF AllocatorInv, TypeOK
  <2>2. blank' \in SUBSET {c \in Pool : heads'[c] = NoHead}
    BY <1>1, <1>2 DEF AllocatorInv, TypeOK
  <2> QED BY <1>2, <1>3, <2>1, <2>2 DEF AllocatorInv, TypeOK, counters
<1>6. Reclaiming'
  BY <1>1, <1>2, <1>3, <1>4 DEF AllocatorInv, Reclaiming
<1>7. HeadsAgree'
  BY <1>1, <1>2, <1>4 DEF AllocatorInv, Reclaiming, HeadsAgree, TypeOK
<1>8. OnePlaceEach' /\ SetAsideIsBlank'
  BY <1>2, <1>3, <1>4 DEF AllocatorInv, OnePlaceEach, SetAsideIsBlank
<1> QED BY <1>3, <1>5, <1>6, <1>7, <1>8 DEF AllocatorInv, NothingLost, Preallocating

(* Now the map is what the heads say, and so are the clients. *)
LEMMA ReclaimInitializesHolds == AllocatorInv /\ ReclaimInitializes => AllocatorInv'
<1> SUFFICES ASSUME AllocatorInv, ReclaimInitializes PROVE AllocatorInv'
  OBVIOUS
<1>1. /\ free' = {b \in Pool : ~IsTaken(b)}
      /\ task' = Idle /\ task'.kind = "none"
      /\ lossy' = FALSE
      /\ UNCHANGED <<heads, blank, preallocated, fresh, held, counters>>
  BY DEF ReclaimInitializes, Idle
<1>2. held = {b \in Pool : IsTaken(b)} /\ fresh = {} /\ FilledSlots = {}
  BY DEF ReclaimInitializes, AllocatorInv, Reclaiming
<1>3. /\ FilledSlots' = {} /\ SetAside' = {} /\ Blocks(fresh)' = {} /\ Limbo' = {}
      /\ Hands' = held
      /\ \A c \in Pool : IsTaken(c)' <=> IsTaken(c)
  BY <1>1, <1>2 DEF FilledSlots, SetAside, Blocks, Hands, IsTaken, Limbo
<1>4. TypeOK'
  BY <1>1 DEF AllocatorInv, TypeOK, counters, Tasks
<1>5. OnePlaceEach' /\ SetAsideIsBlank' /\ HeadsAgree' /\ NothingLost'
  BY <1>1, <1>2, <1>3
     DEF AllocatorInv, OnePlaceEach, SetAsideIsBlank, HeadsAgree, NothingLost
<1> QED BY <1>1, <1>4, <1>5 DEF AllocatorInv, Preallocating, Reclaiming

(* What an erase is about to clear is in nobody's hands. *)
LEMMA DoomedIsUnheld ==
    ASSUME AllocatorInv
    PROVE  Doomed \subseteq Pool /\ Doomed \intersect held = {}
<1>1. CASE task.kind = "erase"
  BY <1>1, TaskInLimbo DEF AllocatorInv, Doomed, OnePlaceEach, Hands
<1>2. CASE task.kind = "preallocate"
  <2>1. task.available # {} => TakeBlock(task.available) \in free
    BY <1>2, TaskPreallocating, TakeBlockPicks DEF AllocatorInv, Preallocating
  <2>2. Doomed \subseteq free
    BY <1>2, <2>1 DEF Doomed
  <2> QED BY <2>2 DEF AllocatorInv, TypeOK, OnePlaceEach, Hands
<1>3. CASE task.kind = "reclaim"
  <2>1. task.rest # {} => NextRest \in task.rest
    BY <1>3, TaskReclaiming, NextRestIsInRest DEF AllocatorInv
  <2>2. Doomed \subseteq task.rest
    BY <1>3, <2>1 DEF Doomed
  <2> QED BY <1>3, <2>2, TaskReclaiming DEF AllocatorInv, Reclaiming
<1>4. CASE task.kind \notin {"erase", "preallocate", "reclaim"}
  BY <1>4 DEF Doomed
<1> QED BY <1>1, <1>2, <1>3, <1>4

LEMMA CrashHolds ==
    ASSUME AllocatorInv, NEW torn \in SUBSET Doomed, Crash(torn)
    PROVE  AllocatorInv'
<1> DEFINE hs == [b \in Pool |-> IF b \in torn THEN NoHead ELSE heads[b]]
<1>1. CountersOK'
  BY BoundsAssumption DEF Crash, AllocatorInv, TypeOK, CountersOK
<1>2. hs \in [Pool -> BlockHead \union {NoHead}]
  BY DEF AllocatorInv, TypeOK
<1>3. blank \ torn \in SUBSET {b \in Pool : hs[b] = NoHead}
  BY DEF AllocatorInv, TypeOK
<1>4. RestartWith(hs, blank \ torn)
  BY DEF Crash
<1> HIDE DEF hs
<1> QED BY <1>1, <1>2, <1>3, <1>4, RestartHolds

(* What failed may have been done; the block is lost, which lossy says. *)
LEMMA TaskFailsHolds ==
    ASSUME AllocatorInv, NEW done \in BOOLEAN, TaskFails(done)
    PROVE  AllocatorInv'
<1> DEFINE Marks(b) == done /\ task.kind = "mark" /\ b = task.block
<1>1. /\ heads' = [b \in Pool |-> CASE done /\ b \in Doomed -> NoHead
                                   [] Marks(b) -> HeadOf(FALSE, task.age)
                                   [] OTHER -> heads[b]]
      /\ blank' = {b \in Pool : heads'[b] = NoHead /\ (b \in blank \/ (done /\ b \in Doomed))}
      /\ free' \subseteq free
      /\ task' = Idle /\ task'.kind = "none" /\ lossy' = TRUE
      /\ UNCHANGED <<preallocated, fresh, held>>
  BY DEF TaskFails, Idle
<1>2. task.kind = "mark" => Doomed = {}
  BY DEF Doomed
<1>3. ASSUME NEW b \in Pool
      PROVE  IF Marks(b) THEN heads'[b] = HeadOf(FALSE, task.age)
             ELSE IF done /\ b \in Doomed THEN heads'[b] = NoHead
             ELSE heads'[b] = heads[b]
  BY <1>1, <1>2
<1>4. ASSUME NEW b \in Pool, Marks(b)
      PROVE  /\ HeadOf(FALSE, task.age) \in BlockHead
             /\ HeadOf(FALSE, task.age) # NoHead /\ ~HeadOf(FALSE, task.age).taken
             /\ b \in Limbo
  BY <1>4, TaskInLimbo, WrittenHeads DEF AllocatorInv
<1> HIDE DEF Marks
<1>5. /\ FilledSlots' = FilledSlots /\ SetAside' = SetAside
      /\ Blocks(fresh)' = Blocks(fresh) /\ Hands' = Hands /\ Limbo' = {}
  BY <1>1 DEF FilledSlots, SetAside, Blocks, Hands, Limbo
<1>6. TypeOK'
  <2>1. heads' \in [Pool -> BlockHead \union {NoHead}]
    <3>1. ASSUME NEW b \in Pool PROVE heads'[b] \in BlockHead \union {NoHead}
      BY <1>3, <1>4 DEF AllocatorInv, TypeOK
    <3>2. heads' = [b \in Pool |-> heads'[b]]
      BY <1>1
    <3> QED BY <3>1, <3>2
  <2>2. CountersOK' /\ task' \in Tasks
    BY <1>1, BoundsAssumption DEF TaskFails, AllocatorInv, TypeOK, CountersOK, Tasks
  <2>3. blank' \in SUBSET {b \in Pool : heads'[b] = NoHead}
    BY <1>1
  <2> QED BY <1>1, <2>1, <2>2, <2>3 DEF AllocatorInv, TypeOK, CountersOK
<1>7. HeadsAgree'
  <2>1. ASSUME NEW b \in free' PROVE ~IsTaken(b)'
    <3>1. b \in Pool /\ ~IsTaken(b)
      BY <1>1 DEF AllocatorInv, TypeOK, HeadsAgree
    <3> QED BY <1>3, <1>4, <3>1 DEF IsTaken
  <2>2. ASSUME NEW b \in held' PROVE IsTaken(b)'
    <3>1. b \in held /\ b \in Pool /\ IsTaken(b) /\ b \notin Limbo /\ b \notin Doomed
      BY <1>1, DoomedIsUnheld DEF AllocatorInv, TypeOK, HeadsAgree, OnePlaceEach, Hands
    <3>2. heads'[b] = heads[b]
      BY <1>3, <1>4, <3>1
    <3> QED BY <3>1, <3>2 DEF IsTaken
  <2> QED BY <2>1, <2>2 DEF HeadsAgree
<1>8. SetAsideIsBlank'
  <2> DEFINE Erased == SetAside \union {g.block : g \in {h \in fresh : h.erased}}
  <2>1. Erased \subseteq blank /\ Erased \subseteq SetAside \union Blocks(fresh)
    BY DEF AllocatorInv, SetAsideIsBlank, Blocks
  <2>2. ASSUME NEW b \in Erased PROVE b \in blank'
    <3>1. b \in Pool /\ b \in blank /\ heads[b] = NoHead /\ b \notin Limbo
      BY <2>1 DEF AllocatorInv, TypeOK, OnePlaceEach, Hands
    <3>2. heads'[b] = NoHead
      BY <1>3, <1>4, <3>1
    <3> QED BY <1>1, <3>1, <3>2
  <2> QED BY <1>1, <1>5, <2>2 DEF SetAsideIsBlank
<1>9. OnePlaceEach'
  BY <1>1, <1>5 DEF AllocatorInv, OnePlaceEach
<1> QED BY <1>1, <1>6, <1>7, <1>8, <1>9
        DEF AllocatorInv, Preallocating, Reclaiming, NothingLost

LEMMA StutterHolds == AllocatorInv /\ UNCHANGED vars => AllocatorInv'
BY DEF vars, counters, AllocatorInv, TypeOK, OnePlaceEach, HeadsAgree, SetAsideIsBlank,
       Preallocating, Reclaiming, NothingLost, Hands, Limbo, Blocks, SetAside,
       FilledSlots, IsTaken

LEMMA StepHolds == AllocatorInv /\ [Next]_vars => AllocatorInv'
<1> SUFFICES ASSUME AllocatorInv, [Next]_vars PROVE AllocatorInv'
  OBVIOUS
<1>1. CASE AllocatePreallocated
  BY <1>1, AllocatePreallocatedHolds
<1>2. CASE AllocateInternal
  BY <1>2, AllocateInternalHolds
<1>3. CASE OutOfBlocks
  BY <1>3, OutOfBlocksHolds
<1>4. CASE \E g \in fresh, age \in Ages : WriteHead(g, age)
  BY <1>4, WriteHeadHolds
<1>5. CASE \E b \in held : Free(b)
  BY <1>5, FreeHolds
<1>6. CASE FreeErases
  BY <1>6, FreeErasesHolds
<1>7. CASE FreeMarks
  BY <1>7, FreeMarksHolds
<1>8. CASE Preallocate
  BY <1>8, PreallocateHolds
<1>9. CASE PreallocateBlock
  BY <1>9, PreallocateBlockHolds
<1>10. CASE PreallocateRunsOut
  BY <1>10, PreallocateRunsOutHolds
<1>11. CASE \E kept \in SUBSET held : Reclaim(kept)
  BY <1>11, ReclaimHolds
<1>12. CASE ReclaimErases
  BY <1>12, ReclaimErasesHolds
<1>13. CASE ReclaimInitializes
  BY <1>13, ReclaimInitializesHolds
<1>14. CASE \E torn \in SUBSET Doomed : Crash(torn)
  BY <1>14, CrashHolds
<1>15. CASE \E done \in BOOLEAN : TaskFails(done)
  BY <1>15, TaskFailsHolds
<1>16. CASE UNCHANGED vars
  BY <1>16, StutterHolds
<1> QED BY <1>1, <1>2, <1>3, <1>4, <1>5, <1>6, <1>7, <1>8, <1>9, <1>10, <1>11,
           <1>12, <1>13, <1>14, <1>15, <1>16 DEF Next

(* Whatever order clients, preallocate(), reclaim(), restarts and failures   *)
(* come in, a block is in one place at a time: on the map, in a slot, given *)
(* to a client or in the middle of free(), and its head allows that place.  *)
THEOREM AllocatorIsInvariant == Spec => []AllocatorInv
<1>1. Init => AllocatorInv
  BY InitHolds
<1>2. AllocatorInv /\ [Next]_vars => AllocatorInv'
  BY StepHolds
<1> QED BY <1>1, <1>2, PTL DEF Spec

-----------------------------------------------------------------------------
(* What the allocator promises.                                            *)

LEMMA OfferIsUnheld == AllocatorInv => OnlyUnheldIsOffered
<1> SUFFICES ASSUME AllocatorInv PROVE Offer \notin Hands
  BY DEF OnlyUnheldIsOffered, Hands
<1>1. CASE FilledSlots # {}
  <2>1. Offer \in SetAside
    BY <1>1, FirstFilledIsFilled DEF Offer, SetAside
  <2> QED BY <2>1 DEF AllocatorInv, OnePlaceEach
<1>2. CASE FilledSlots = {}
  <2>1. Offer = Scan(free) /\ free \in SUBSET Pool
    BY <1>2, AvailableIsFree DEF Offer, AllocatorInv, TypeOK
  <2>2. free # {} => Offer \in free
    BY <2>1, ScanPicks
  <2>3. free = {} => Offer = NoBlock
    BY <2>1, ScanPicks
  <2>4. Hands \subseteq Pool
    BY DEF AllocatorInv, TypeOK, Hands, Blocks, Given
  <2> QED BY <2>2, <2>3, <2>4, MapAssumption DEF AllocatorInv, OnePlaceEach
<1> QED BY <1>1, <1>2

LEMMA NoneIsLost == AllocatorInv => NoBlockIsLost
<1> SUFFICES ASSUME AllocatorInv, task = Idle, ~lossy
             PROVE  Pool = free \union SetAside \union Blocks(fresh) \union held
  BY DEF NoBlockIsLost
<1>1. task.kind = "none" /\ Limbo = {}
  BY DEF Idle, Limbo
<1> QED BY <1>1 DEF AllocatorInv, NothingLost, Hands

(* allocate() never gives a block that a client has, or that another was    *)
(* given and has not begun to write, whatever went before: reclaims,        *)
(* restarts, cut erases and failures included.                              *)
THEOREM NobodysBlockIsOffered == Spec => []OnlyUnheldIsOffered
BY AllocatorIsInvariant, OfferIsUnheld, PTL

(* Without failures, and when the blocks set aside are used up before more  *)
(* are, every block stays free, set aside or in a client's hands.           *)
THEOREM EveryBlockIsAccountedFor == Spec => []NoBlockIsLost
BY AllocatorIsInvariant, NoneIsLost, PTL

(* Of the blocks available the one handed out is the least worn: the loop   *)
(* of scan() selects that one.                                              *)
THEOREM WearIsLeveled == Spec => []LeastWornIsOffered
<1>1. AllocatorInv => LeastWornIsOffered
  BY LeastWornByScan DEF AllocatorInv
<1> QED BY <1>1, AllocatorIsInvariant, PTL

(* A client that is told that its block is erased may program it at once:   *)
(* nothing was written to it since.                                         *)
THEOREM ErasedIsBlank == Spec => []SetAsideIsBlank
<1>1. AllocatorInv => SetAsideIsBlank
  BY DEF AllocatorInv
<1> QED BY <1>1, AllocatorIsInvariant, PTL

-----------------------------------------------------------------------------
(* What its steps may do.                                                  *)

(* When reclaim() ends and nothing failed, the map agrees with the clients. *)
THEOREM ReclaimIsCompleteAlways == Spec => ReclaimIsComplete
<1> DEFINE Ends == task.kind = "reclaim" /\ task' = Idle /\ crashes' + faults' = crashes + faults
<1>1. AllocatorInv /\ [Next]_vars => (Ends => free' = Pool \ held)
  <2> SUFFICES ASSUME AllocatorInv, [Next]_vars, Ends PROVE free' = Pool \ held
    OBVIOUS
  <2>1. task.kind = "reclaim" /\ task # Idle /\ task' = Idle
    BY DEF Idle
  <2>2. crashes \in Int /\ faults \in Int
    BY BoundsAssumption DEF AllocatorInv, TypeOK
  <2>3. ReclaimInitializes
    <3>1. ~ReclaimErases
      BY <2>1, TaskReclaiming DEF ReclaimErases, Idle, AllocatorInv
    <3>2. ~UNCHANGED vars
      BY <2>1 DEF vars
    <3>3. \A torn \in SUBSET Doomed : ~Crash(torn)
      BY <2>2 DEF Crash
    <3>4. \A done \in BOOLEAN : ~TaskFails(done)
      BY <2>2 DEF TaskFails
    <3> QED BY <2>1, <3>1, <3>2, <3>3, <3>4
            DEF Next, AllocatePreallocated, AllocateInternal, OutOfBlocks, WriteHead, Free,
                FreeErases, FreeMarks, Preallocate, PreallocateBlock, PreallocateRunsOut,
                Reclaim
  <2>4. free' = {b \in Pool : ~IsTaken(b)} /\ held = {b \in Pool : IsTaken(b)}
    BY <2>3 DEF ReclaimInitializes, AllocatorInv, Reclaiming
  <2> QED BY <2>4
<1> QED BY <1>1, AllocatorIsInvariant, PTL DEF Spec, ReclaimIsComplete

LEMMA ZeroSum ==
    ASSUME NEW k \in Nat, NEW l \in Nat, NEW m \in Nat, NEW n \in Nat, k + l + m + n = 0
    PROVE  k = 0 /\ l = 0 /\ m = 0 /\ n = 0
OBVIOUS

LEMMA CountersAreNumbers ==
    ASSUME TypeOK
    PROVE  /\ crashes \in Nat /\ reclaims \in Nat /\ preallocations \in Nat /\ faults \in Nat
           /\ OnlyFrees <=> /\ crashes = 0 /\ reclaims = 0
                            /\ preallocations = 0 /\ faults = 0
<1>1. crashes \in Nat /\ reclaims \in Nat /\ preallocations \in Nat /\ faults \in Nat
  BY BoundsAssumption DEF TypeOK
<1> QED BY <1>1 DEF OnlyFrees

LEMMA CountersGrow ==
    ASSUME AllocatorInv, [Next]_vars, OnlyFrees', TypeOK'
    PROVE  UNCHANGED counters /\ OnlyFrees
<1>1. /\ crashes \in Nat /\ reclaims \in Nat /\ preallocations \in Nat /\ faults \in Nat
  BY CountersAreNumbers DEF AllocatorInv
<1>2. crashes' = 0 /\ reclaims' = 0 /\ preallocations' = 0 /\ faults' = 0
  <2>1. /\ crashes' \in Nat /\ reclaims' \in Nat
        /\ preallocations' \in Nat /\ faults' \in Nat
    BY BoundsAssumption DEF TypeOK
  <2>2. crashes' + reclaims' + preallocations' + faults' = 0
    BY DEF OnlyFrees
  <2> QED BY <2>1, <2>2, ZeroSum
<1>3. UNCHANGED counters
  <2>1. CASE \E torn \in SUBSET Doomed : Crash(torn)
    BY <1>1, <1>2, <2>1 DEF Crash
  <2>2. CASE \E done \in BOOLEAN : TaskFails(done)
    BY <1>1, <1>2, <2>2 DEF TaskFails
  <2>3. CASE Preallocate \/ \E kept \in SUBSET held : Reclaim(kept)
    BY <1>1, <1>2, <2>3 DEF Preallocate, Reclaim
  <2> QED BY <2>1, <2>2, <2>3
          DEF Next, vars, AllocatePreallocated, AllocateInternal, OutOfBlocks, WriteHead, Free,
              FreeErases, FreeMarks, PreallocateBlock, PreallocateRunsOut,
              ReclaimErases, ReclaimInitializes
<1> QED BY <1>1, <1>2, <1>3 DEF counters, OnlyFrees

LEMMA AgesAreKeptByStep ==
    ASSUME AllocatorInv, AgesAreKept, [Next]_vars, TypeOK', OnlyFrees'
    PROVE  /\ AgesAreKept'
           /\ \A b \in Pool : Worn(b) <= Worn(b)'
<1>1. UNCHANGED counters /\ OnlyFrees
  BY CountersGrow
<1>2. /\ FilledSlots = {} /\ task.kind \in {"none", "erase", "mark"}
      /\ \A g \in fresh : g.age = AgeOf(g.block) /\ g.block \in Pool
      /\ Limbo # {} => AgeOf(task.block) <= task.age
      /\ \A b \in Limbo : b \in Pool /\ b = task.block
  BY <1>1, TaskInLimbo DEF AgesAreKept, AllocatorInv, TypeOK, Given, Limbo
<1>3. /\ \A b \in Pool : heads[b] \in BlockHead \union {NoHead}
      /\ \A b \in Pool : AgeOf(b) \in Int /\ 0 <= AgeOf(b)
      /\ \A b \in Pool : Worn(b) = IF b \in Limbo THEN task.age ELSE AgeOf(b)
      /\ task.kind \in {"erase", "mark"} => task.age \in Ages /\ Limbo = {task.block}
  BY <1>2, AgesAreNumbers, TaskInLimbo DEF AllocatorInv, TypeOK, Worn, Limbo
<1>4. Ages \subseteq Int /\ \A age \in Ages : 0 <= age
  BY HeadAssumption DEF Ages
<1>5. crashes = 0 /\ reclaims = 0 /\ preallocations = 0 /\ faults = 0
  BY <1>1, CountersAreNumbers DEF AllocatorInv
<1> SUFFICES /\ FilledSlots' = {}
             /\ task'.kind \in {"none", "erase", "mark"}
             /\ \A g \in fresh' : g.age = AgeOf(g.block)'
             /\ Limbo' # {} => AgeOf(task.block)' <= task'.age
             /\ \A b \in Pool : Worn(b) <= Worn(b)'
  BY DEF AgesAreKept
<1>6. ASSUME UNCHANGED <<heads, preallocated, task>>
      PROVE  /\ FilledSlots' = {} /\ task' = task /\ Limbo' = Limbo
             /\ \A b \in Pool : AgeOf(b)' = AgeOf(b)
             /\ \A b \in Pool : Worn(b) <= Worn(b)'
  <2>1. /\ FilledSlots' = FilledSlots /\ task' = task /\ Limbo' = Limbo
        /\ \A b \in Pool : AgeOf(b)' = AgeOf(b)
    BY <1>6 DEF FilledSlots, AgeOf, Limbo
  <2>2. \A b \in Pool : Worn(b)' = Worn(b) /\ Worn(b) \in Int
    BY <1>2, <1>3, <1>4, <1>6, <2>1 DEF Worn, Limbo
  <2> QED BY <1>2, <2>1, <2>2
<1>7. CASE AllocateInternal
  <2>1. Offer \in Pool
    BY <1>7, AvailableIsFree, ScanPicks DEF AllocateInternal, Offer, AllocatorInv, TypeOK
  <2>2. fresh' = fresh \union {[block |-> Offer, age |-> AgeOf(Offer), erased |-> FALSE]}
    BY <1>7 DEF AllocateInternal
  <2>3. UNCHANGED <<heads, preallocated, task>>
    BY <1>7 DEF AllocateInternal
  <2>4. \A g \in fresh' : g.age = AgeOf(g.block)'
    BY <1>2, <2>2, <2>3 DEF AgeOf
  <2>5. task = Idle /\ Limbo = {} /\ task.kind = "none"
    BY <1>7 DEF AllocateInternal, Limbo, Idle
  <2> QED BY <1>6, <2>3, <2>4, <2>5
<1>8. CASE OutOfBlocks
  <2>1. /\ heads' = heads /\ fresh' = {} /\ task' = Idle /\ task = Idle /\ FilledSlots' = {}
    BY <1>8 DEF OutOfBlocks, RestartWith, FilledSlots, NoPreallocated
  <2> QED BY <1>3, <2>1 DEF AgeOf, Limbo, Worn, Idle
<1>9. CASE \E g \in fresh, age \in Ages : WriteHead(g, age)
  <2>1. PICK g \in fresh, age \in Ages : WriteHead(g, age)
    BY <1>9
  <2>2. /\ heads' = [heads EXCEPT ![g.block] = HeadOf(TRUE, age)]
        /\ fresh' = fresh \ {g} /\ task = Idle
        /\ UNCHANGED <<preallocated, task>>
        /\ age = g.age \/ age = g.age + 1
    BY <2>1 DEF WriteHead
  <2>3. HeadOf(TRUE, age) # NoHead /\ HeadOf(TRUE, age).age = age
    BY WrittenHeads DEF HeadOf
  <2>4. /\ \A b \in Pool : AgeOf(b)' = IF b = g.block THEN age ELSE AgeOf(b)
        /\ \A h \in fresh' : h.block # g.block
    BY <1>2, <2>2, <2>3 DEF AgeOf, AllocatorInv, TypeOK, OnePlaceEach
  <2>5. g.age = AgeOf(g.block) /\ AgeOf(g.block) <= age
    BY <1>2, <1>3, <1>4, <2>2
  <2>6. Limbo = {} /\ Limbo' = {} /\ task'.kind = "none"
    BY <2>2 DEF Limbo, Idle
  <2>7. \A b \in Pool : Worn(b) = AgeOf(b) /\ Worn(b)' = AgeOf(b)'
    BY <2>2, <2>6 DEF Worn, Idle
  <2>8. \A b \in Pool : Worn(b) <= Worn(b)'
    BY <1>3, <2>4, <2>5, <2>7
  <2> QED BY <1>2, <2>2, <2>4, <2>6, <2>8 DEF FilledSlots
<1>10. CASE \E b \in held : Free(b)
  <2>1. PICK b \in held : Free(b)
    BY <1>10
  <2>2. /\ heads' = heads /\ fresh' = fresh /\ preallocated' = preallocated /\ task = Idle
        /\ task' = [kind |-> "erase", block |-> b,
                    age |-> IF heads[b] = NoHead THEN 0 ELSE heads[b].age + 1]
        /\ b \in Pool
    BY <2>1 DEF Free, AllocatorInv, TypeOK
  <2>3. task'.kind = "erase" /\ task'.block = b /\ AgeOf(b) <= task'.age
    BY <1>3, <2>2 DEF AgeOf
  <2>4. \A c \in Pool : AgeOf(c)' = AgeOf(c) /\ Worn(c) = AgeOf(c)
    BY <2>2 DEF AgeOf, Worn, Idle
  <2>5. \A c \in Pool : Worn(c) <= Worn(c)'
    BY <1>3, <2>2, <2>3, <2>4 DEF Worn
  <2> QED BY <1>2, <2>2, <2>3, <2>4, <2>5 DEF FilledSlots
<1>11. CASE FreeErases
  <2>1. /\ heads' = [heads EXCEPT ![task.block] = NoHead]
        /\ fresh' = fresh /\ preallocated' = preallocated
        /\ task' = [task EXCEPT !.kind = "mark"] /\ task.kind = "erase"
    BY <1>11 DEF FreeErases
  <2>2. /\ task \in [kind : {"erase", "mark"}, block : Pool, age : Ages]
        /\ Limbo = {task.block}
    BY <2>1, TaskInLimbo DEF AllocatorInv
  <2>3. /\ task'.kind = "mark" /\ task'.block = task.block /\ task'.age = task.age
        /\ Limbo' = Limbo
    BY <2>1, <2>2 DEF Limbo
  <2>4. \A b \in Pool : AgeOf(b)' = IF b = task.block THEN 0 ELSE AgeOf(b)
    BY <2>1 DEF AgeOf, AllocatorInv, TypeOK
  <2>5. \A g \in fresh : g.block # task.block
    BY <2>2 DEF AllocatorInv, OnePlaceEach, Hands, Blocks
  <2>6. \A b \in Pool : Worn(b)' = Worn(b) /\ Worn(b) \in Int
    BY <1>3, <1>4, <2>1, <2>3, <2>4 DEF Worn
  <2> QED BY <1>2, <1>3, <1>4, <2>1, <2>2, <2>3, <2>4, <2>5, <2>6 DEF FilledSlots
<1>12. CASE FreeMarks
  <2>1. /\ heads' = [heads EXCEPT ![task.block] = HeadOf(FALSE, task.age)]
        /\ fresh' = fresh /\ preallocated' = preallocated
        /\ task' = Idle /\ task.kind = "mark"
    BY <1>12 DEF FreeMarks
  <2>2. task.block \in Pool /\ task.age \in Ages /\ Limbo = {task.block}
    BY <2>1, TaskInLimbo DEF AllocatorInv
  <2>3. HeadOf(FALSE, task.age) # NoHead /\ HeadOf(FALSE, task.age).age = task.age
    BY <2>2, WrittenHeads DEF HeadOf
  <2>4. \A b \in Pool : AgeOf(b)' = IF b = task.block THEN task.age ELSE AgeOf(b)
    BY <2>1, <2>3 DEF AgeOf, AllocatorInv, TypeOK
  <2>5. \A g \in fresh : g.block # task.block
    BY <2>2 DEF AllocatorInv, OnePlaceEach, Hands, Blocks
  <2>6. \A b \in Pool : Worn(b)' = Worn(b) /\ Worn(b) \in Int
    BY <1>3, <1>4, <2>1, <2>2, <2>4 DEF Worn, Idle
  <2>7. task'.kind = "none" /\ Limbo' = {}
    BY <2>1 DEF Idle, Limbo
  <2> QED BY <1>2, <2>1, <2>4, <2>5, <2>6, <2>7 DEF FilledSlots
<1>13. CASE UNCHANGED vars
  BY <1>2, <1>6, <1>13 DEF vars
<1>14. ~AllocatePreallocated /\ ~PreallocateBlock /\ ~PreallocateRunsOut
       /\ ~ReclaimErases /\ ~ReclaimInitializes
  BY <1>2 DEF AllocatePreallocated, PreallocateBlock, PreallocateRunsOut, ReclaimErases,
              ReclaimInitializes
<1>15. /\ ~Preallocate /\ \A kept \in SUBSET held : ~Reclaim(kept)
       /\ \A torn \in SUBSET Doomed : ~Crash(torn)
       /\ \A done \in BOOLEAN : ~TaskFails(done)
  BY <1>1, <1>5 DEF Preallocate, Reclaim, Crash, TaskFails, counters
<1> QED BY <1>7, <1>8, <1>9, <1>10, <1>11, <1>12, <1>13, <1>14, <1>15 DEF Next

(* As long as power stays on and only free() erases blocks, the count of    *)
(* erases that a block carries is never lost, and never goes back.          *)
THEOREM AgesNeverFallAlways == Spec => AgesNeverFall
<1>1. Init => AgesAreKept
  BY DEF Init, AgesAreKept, FilledSlots, NoPreallocated, Limbo, Idle
<1>2. AllocatorInv /\ AgesAreKept /\ [Next]_vars /\ AllocatorInv' => AgesAreKept'
  <2> SUFFICES ASSUME AllocatorInv, AgesAreKept, [Next]_vars, AllocatorInv'
               PROVE  AgesAreKept'
    OBVIOUS
  <2>1. CASE OnlyFrees'
    BY <2>1, AgesAreKeptByStep DEF AllocatorInv
  <2>2. CASE ~OnlyFrees'
    BY <2>2 DEF AgesAreKept
  <2> QED BY <2>1, <2>2
<1>3. AllocatorInv /\ AgesAreKept /\ [Next]_vars /\ AllocatorInv'
          => (crashes' + reclaims' + preallocations' + faults' = 0
                  => \A b \in Pool : Worn(b) <= Worn(b)')
  BY AgesAreKeptByStep DEF AllocatorInv, OnlyFrees
<1>4. Spec => []AgesAreKept
  BY <1>1, <1>2, AllocatorIsInvariant, PTL DEF Spec
<1> QED BY <1>3, <1>4, AllocatorIsInvariant, PTL DEF Spec, AgesNeverFall
=============================================================================
