------------------------ MODULE SuperBlockStoreProofs ------------------------
(***************************************************************************)
(* ChainInv is an invariant of SuperBlock for one life of a volume; the    *)
(* promises of the super block chain, and that it implements AtomicStore,  *)
(* follow from it.  With the count of the blocks in use, NothingLeaks, it  *)
(* also gives that no block leaks.                                         *)
(***************************************************************************)
EXTENDS SuperBlockChainProofs

-----------------------------------------------------------------------------
(* The two states a volume can be in. *)

LEMMA FormattedFacts ==
    ASSUME SuperBlockInv, Formatted
    PROVE  /\ \A k \in Levels :
                 /\ Tip(k) \in Address
                 /\ Tip(k).block \in Blocks /\ Tip(k).sector \in Sectors
                 /\ IsTip(flash, Tip(k)) /\ LinkAt(flash, Tip(k)).type = TypeAt(k)
                 /\ LinkAt(flash, Tip(k)) \in Links
                 /\ Programmed(flash, Tip(k).block, Tip(k).sector)
                 /\ StampAt(flash, Tip(k)) \in Stamps /\ StampAt(flash, Tip(k)) \in Nat
                 /\ StampAt(flash, Tip(k)) < TimestampInvalid
           /\ Tip(0).block \in Anchors /\ Tip(0).block \notin Pool
           /\ \A k \in 1 .. 3 :
                 /\ Tip(k).block \in Pool /\ IsTaken(flash, Tip(k).block)
                 /\ StampAt(flash, Tip(k - 1)) < StampAt(flash, Tip(k))
           /\ \A j, k \in Levels : Tip(j).block = Tip(k).block => j = k
           /\ LinkAt(flash, Tip(3)).chained = NoBlock
           /\ \A b : Chains(b) => b \in Blocks
<1> USE DEF Levels
<1> DEFINE at == Tips(flash)
<1>1. flash \in Medium /\ IsChain(flash, at)
  BY Quiet DEF Formatted
<1> HIDE DEF at
<1>2. \A k \in Levels : Tip(k) = at[k]
  BY DEF Tip, at
<1>3. \A k \in Levels :
          /\ at[k] \in Address
          /\ at[k].block \in Blocks /\ at[k].sector \in Sectors
          /\ LinkAt(flash, at[k]) \in Links
          /\ Programmed(flash, at[k].block, at[k].sector)
          /\ StampAt(flash, at[k]) \in Stamps /\ StampAt(flash, at[k]) \in Nat
          /\ StampAt(flash, at[k]) < TimestampInvalid
  BY <1>1, ChainFacts
<1>4. \A k \in Levels : IsTip(flash, at[k]) /\ LinkAt(flash, at[k]).type = TypeAt(k)
  BY <1>1 DEF IsChain
<1>5. /\ at[0].block \in Anchors /\ at[0].block \notin Pool
      /\ LinkAt(flash, at[3]).chained = NoBlock
  BY <1>1, AnchorFacts DEF IsChain
<1>6. \A k \in 1 .. 3 : /\ at[k].block \in Pool /\ IsTaken(flash, at[k].block)
                        /\ StampAt(flash, at[k - 1]) < StampAt(flash, at[k])
  BY <1>1 DEF IsChain
<1>7. \A j, k \in Levels : at[j].block = at[k].block => j = k
  <2>1. \A k \in Levels : k = 0 \/ k \in 1 .. 3
    OBVIOUS
  <2>2. \A j, k \in 1 .. 3 : at[j].block = at[k].block => j = k
    BY <1>1 DEF IsChain
  <2> QED BY <1>5, <1>6, <2>1, <2>2
<1>8. /\ 0 \in Levels /\ 3 \in Levels
      /\ \A k \in 1 .. 3 : k \in Levels /\ k - 1 \in Levels
  OBVIOUS
<1> QED BY <1>2, <1>3, <1>4, <1>5, <1>6, <1>7, <1>8 DEF Chains

(* What a walk of a formatted volume finds. *)
LEMMA FormattedIsWalked ==
    ASSUME SuperBlockInv, Formatted
    PROVE  /\ Super(flash) = Reading(flash, Tip(3)) /\ Found(Super(flash))
           /\ Chain(flash) = {Tip(1).block, Tip(2).block, Tip(3).block}
           /\ \A k \in 1 .. 3 : Walk(flash, Tip(k).block) = Reading(flash, Tip(k - 1))
           /\ \A b \in Pool : ~Chains(b) => ~Found(Walk(flash, b))
<1>1. flash \in Medium /\ IsChain(flash, Tips(flash))
  BY Quiet DEF Formatted
<1>2. Super(flash) = Reading(flash, Tip(3))
  BY <1>1, ChainIsWalked DEF Tip
<1>3. Tip(3) # NoAddress
  BY FormattedFacts, Types DEF Levels
<1>4. Found(Super(flash))
  BY <1>2, <1>3 DEF Found, Reading
<1>5. Chain(flash) = {Tip(1).block, Tip(2).block, Tip(3).block}
  BY <1>1, ChainIsWalked DEF Tip
<1>6. \A k \in 1 .. 3 : Walk(flash, Tip(k).block) = Reading(flash, Tip(k - 1))
  BY <1>1, ChainIsWalked DEF Tip
<1>7. ASSUME NEW b \in Pool, ~Chains(b) PROVE ~Found(Walk(flash, b))
  <2>1. \A k \in 1 .. 3 : b # Tips(flash)[k].block
    BY <1>7 DEF Chains, Tip, Levels
  <2> QED BY <1>1, <2>1, ChainIsWalked
<1> QED BY <1>2, <1>4, <1>5, <1>6, <1>7

(* Nothing is found where no link ends a chain. *)
LEMMA UnformattedIsNotFound ==
    ASSUME NEW fl \in Medium,
           \A b \in Blocks, s \in Sectors :
               Programmed(fl, b, s) => fl[b][s].chained # NoBlock
    PROVE  ~Found(Super(fl))
<1> SUFFICES ASSUME Found(Super(fl)) PROVE FALSE
  OBVIOUS
<1> DEFINE walk == Super(fl)
<1>1. /\ walk.link \in Links /\ walk.where \in Address
      /\ walk.link = fl[walk.where.block][walk.where.sector]
      /\ walk.link.chained = NoBlock
  BY WalkIsSound DEF Super
<1> HIDE DEF walk
<1>2. walk.where.block \in Blocks /\ walk.where.sector \in Sectors
  BY <1>1, Types
<1> QED BY <1>1, <1>2, ErasedAssumption DEF Programmed

LEMMA NothingIsFound ==
    ASSUME NEW fl \in Medium, ~Found(Super(fl))
    PROVE  Super(fl).link.value = Nothing
<1>1. Super(fl) = Start
  BY WalkIsSound DEF Super
<1> QED BY <1>1 DEF Start, Link

LEMMA EitherFormattedOrNot ==
    ASSUME SuperBlockInv, Volume
    PROVE  /\ Formatted <=> ~Unformatted
           /\ Formatted <=> Found(Super(flash))
<1>1. flash \in Medium
  BY Quiet
<1>2. Unformatted => ~Found(Super(flash))
  BY <1>1, UnformattedIsNotFound DEF Unformatted
<1>3. Formatted => Found(Super(flash))
  BY FormattedIsWalked
<1> QED BY <1>2, <1>3 DEF Volume

-----------------------------------------------------------------------------
(* Steps that leave the chain alone. *)

KeepsChain ==
    /\ Formatted /\ Formatted'
    /\ Tips(flash') = Tips(flash)
    /\ \A k \in Levels : LinkAt(flash', Tip(k)) = LinkAt(flash, Tip(k))

(* One block that is not of the chain may be written or, also if it is an   *)
(* anchor, lose what it held.                                               *)
LEMMA ChainStays ==
    ASSUME SuperBlockInv, Formatted, flash' \in Medium, NEW c, ~Chains(c),
           \A b \in Blocks : b # c => flash'[b] = flash[b],
           c \in Pool \/ \A s \in Sectors : flash'[c][s] \in {flash[c][s], Erased}
    PROVE  KeepsChain
<1> DEFINE at == Tips(flash)
           other == OtherAnchor(at[0].block)
<1>1. flash \in Medium /\ IsChain(flash, at)
  BY Quiet DEF Formatted
<1>2. \A k \in Levels : at[k].block # c /\ at[k].block \in Blocks
  BY FormattedFacts DEF Chains, Tip
<1>3. other \in Blocks /\ other \notin Pool
  BY <1>1, AnchorFacts DEF IsChain
<1>4. \A k \in Levels : flash'[at[k].block] = flash[at[k].block]
  BY <1>2
<1>5. \A s \in Sectors : flash'[other][s] \in {flash[other][s], Erased}
  BY <1>3
<1>6. /\ IsChain(flash', at)
      /\ \A k \in Levels : LinkAt(flash', at[k]) = LinkAt(flash, at[k])
  BY <1>1, <1>4, <1>5, ChainIsUntouched
<1>7. Tips(flash') = at
  BY <1>6, ChainIsWalked
<1> QED BY <1>6, <1>7 DEF KeepsChain, Formatted, Tip

LEMMA NothingChanges ==
    ASSUME Formatted, flash' = flash
    PROVE  KeepsChain
  BY DEF KeepsChain, Formatted

LEMMA UnformattedStays ==
    ASSUME Unformatted,
           \A b \in Blocks, s \in Sectors : flash'[b][s] \in {flash[b][s], Erased}
    PROVE  Unformatted'
  BY DEF Unformatted, Programmed

LEMMA KeptFacts ==
    ASSUME KeepsChain
    PROVE  /\ \A k : Tip(k)' = Tip(k)
           /\ \A b : Chains(b)' <=> Chains(b)
           /\ \A k \in Levels : LinkAt(flash', Tip(k)) = LinkAt(flash, Tip(k))
                                /\ StampAt(flash', Tip(k)) = StampAt(flash, Tip(k))
           /\ SuperStamp' = SuperStamp
           /\ Formatted /\ Formatted'
<1>1. \A k : Tip(k)' = Tip(k)
  BY DEF KeepsChain, Tip
<1>2. \A k \in Levels : LinkAt(flash', Tip(k)) = LinkAt(flash, Tip(k))
                        /\ StampAt(flash', Tip(k)) = StampAt(flash, Tip(k))
  BY DEF KeepsChain, StampAt
<1>3. SuperStamp' = SuperStamp
  BY <1>1, <1>2 DEF SuperStamp, Levels
<1> QED BY <1>1, <1>2, <1>3 DEF Chains, KeepsChain

-----------------------------------------------------------------------------
(* While save() climbs. *)

LEMMA LocatedFacts ==
    ASSUME SuperBlockInv, Volume, Formatted, Located, location \in Address
    PROVE  /\ location.block \in Pool \ free
           /\ Astray \/ location.block = Tip(3).block
           /\ ~Astray => Accurate \/ Behind
           /\ Astray <=> ~Chains(location.block)
           /\ faults = 0 => Accurate
<1>1. /\ Tip(3).block \in Pool /\ Tip(3).block \notin free /\ Chains(Tip(3).block)
  BY FormattedFacts DEF Volume, Chains, Levels
<1>2. CASE Accurate \/ Behind
  BY <1>1, <1>2 DEF Accurate, Behind, Astray, Located
<1>3. CASE Astray
  BY <1>1, <1>3 DEF Astray, Located
<1> QED BY <1>2, <1>3 DEF Located

(* The i-th call works on level 4 - i; only the fourth is at an anchor. *)
LEMMA ClimbFacts ==
    ASSUME SuperBlockInv, ChainInv, Climbs
    PROVE  /\ Volume /\ Formatted /\ mode = "saving" /\ location \in Address
           /\ calls # <<>> /\ calls \in Seq(Call) /\ DOMAIN calls = 1 .. Len(calls)
           /\ Len(calls) \in {1, 2, 3, 4}
           /\ Top = calls[Len(calls)] /\ Top \in Call
           /\ Located /\ calls[1].addr = location /\ calls[1].link = sb
           /\ Astray => Len(calls) = 1
           /\ Len(calls) > 1 => Top.addr = Tip(4 - Len(calls))
           /\ ~Astray => \A i \in 1 .. Len(calls) :
                             calls[i].addr.block = Tip(4 - i).block
           /\ Top.addr.block \in Anchors <=> Len(calls) = 4
           /\ Top.addr.block \in Pool <=> Len(calls) # 4
           /\ Top.addr.block \notin free
<1> USE DEF Levels
<1>1. /\ calls # <<>> /\ calls \in Seq(Call) /\ mode = "saving"
      /\ location \in Address
  BY DEF Climbs, SuperBlockInv, TypeOK, Control
<1>2. /\ Len(calls) \in Nat \ {0} /\ DOMAIN calls = 1 .. Len(calls)
      /\ Top = calls[Len(calls)] /\ Top \in Call
  BY <1>1, TopType DEF Top
<1>3. /\ Volume /\ Formatted /\ Located
      /\ calls[1].addr = location /\ calls[1].link = sb
      /\ Len(calls) <= 4 /\ (Astray => Len(calls) = 1)
      /\ \A i \in 1 .. Len(calls) : i > 1 => calls[i].addr = Tip(4 - i)
  BY <1>1 DEF ChainInv, Volume, Saving, Climbing
<1>4. Len(calls) \in {1, 2, 3, 4}
  BY <1>2, <1>3
<1>5. /\ location.block \in Pool \ free
      /\ Astray \/ location.block = Tip(3).block
  BY <1>1, <1>3, LocatedFacts
<1>6. \A b \in Pool : b \notin Anchors
  BY BlocksAssumption DEF Anchors
<1>7. Len(calls) > 1 => Top.addr = Tip(4 - Len(calls))
  BY <1>2, <1>3
<1>8. ~Astray => \A i \in 1 .. Len(calls) : calls[i].addr.block = Tip(4 - i).block
  <2> SUFFICES ASSUME ~Astray, NEW i \in 1 .. Len(calls)
               PROVE  calls[i].addr.block = Tip(4 - i).block
    OBVIOUS
  <2>1. i = 1 \/ i > 1
    OBVIOUS
  <2>2. CASE i = 1
    BY <1>3, <1>5, <2>2
  <2> QED BY <1>3, <2>1, <2>2
<1>9. CASE Len(calls) = 1
  <2>1. Top.addr = location
    BY <1>2, <1>3, <1>9
  <2> QED BY <1>1, <1>2, <1>3, <1>4, <1>5, <1>6, <1>7, <1>8, <1>9, <2>1
<1>10. CASE Len(calls) = 4
  <2>1. Top.addr = Tip(0) /\ Tip(0).block \in Anchors /\ Tip(0).block \notin Pool
    BY <1>3, <1>7, <1>10, FormattedFacts
  <2>2. free \subseteq Pool
    BY Quiet
  <2> QED BY <1>1, <1>2, <1>3, <1>4, <1>7, <1>8, <1>10, <2>1, <2>2
<1>11. CASE Len(calls) \in {2, 3}
  <2>1. 4 - Len(calls) \in 1 .. 3 /\ Len(calls) > 1
    <3>1. \A n \in {2, 3} : 4 - n \in 1 .. 3 /\ n > 1
      OBVIOUS
    <3> QED BY <1>11, <3>1
  <2>2. Top.addr.block \in Pool /\ Top.addr.block \notin free
    BY <1>3, <1>7, <2>1, FormattedFacts DEF Volume
  <2> QED BY <1>1, <1>2, <1>3, <1>4, <1>6, <1>7, <1>8, <1>11, <2>2
<1> QED BY <1>4, <1>9, <1>10, <1>11

(* Each call of a climb carries the link that is to be written on its level,*)
(* newer than the one there, older than the one below.                      *)
LEMMA ClimbLinks ==
    ASSUME SuperBlockInv, ChainInv, Climbs, NEW i \in 1 .. Len(calls)
    PROVE  /\ calls[i] \in Call /\ calls[i].link \in Links
           /\ calls[i].link.timestamp \in Nat
           /\ i > 1 => /\ calls[i].addr = Tip(4 - i)
                       /\ calls[i].link.timestamp < calls[i - 1].link.timestamp
           /\ calls[i].link.type = TypeAt(4 - i)
           /\ StampAt(flash, Tip(4 - i)) < calls[i].link.timestamp
           /\ Leaves(i) => Full(calls[i].addr) /\ ~Chains(calls[i].to.block)
           /\ i < Len(calls) => Leaves(i)
           /\ Moved(calls[i]) /\ calls[i].pc # "enter" => Leaves(i)
<1>1. calls \in Seq(Call) /\ calls # <<>> /\ Len(calls) \in Nat
  BY ClimbFacts
<1>2. calls[i] \in Call /\ calls[i].link \in Links
  BY <1>1, TopType DEF Call
<1>3. calls[i].link.timestamp \in Nat
  BY <1>2, Types, GeometryAssumption DEF Stamps
<1>4. i < Len(calls) => Leaves(i)
  <2>1. i < Len(calls) => i \in 1 .. Len(calls) - 1
    BY <1>1
  <2> QED BY <2>1 DEF SuperBlockInv, Waiting, Leaves
<1> QED BY <1>2, <1>3, <1>4 DEF ChainInv, Saving, Climbing, Leaves

-----------------------------------------------------------------------------
(* What remains to be shown of a step of save(). *)

LEMMA VolumeStays ==
    ASSUME Volume, KeepsChain, saves' = saves, sb' = sb,
           mode' \in {"idle", "saving"} \/ mode' = "down",
           \A k \in 1 .. 3 : Tip(k).block \notin free'
    PROVE  Volume'
  BY KeptFacts DEF Volume

LEMMA StillSaving ==
    ASSUME ChainInv, mode' = "saving", Volume', Saving'
    PROVE  ChainInv'
  BY DEF ChainInv, Resting, CreationInv

LEMMA NowResting ==
    ASSUME ChainInv, mode' = "idle", calls' = <<>>, Volume', Resting'
    PROVE  ChainInv'
  BY DEF ChainInv, Saving, Climbing, Aiming, Descending, Climbs, Descends, CreationInv

LEMMA NowDown ==
    ASSUME mode' = "down", calls' = <<>>, Volume'
    PROVE  ChainInv'
  BY DEF ChainInv, Saving, Climbing, Aiming, Descending, Climbs, Descends,
         CreationInv, Resting

(* Nothing but an allocation, a release or a change of location_ moves what *)
(* is known of location_.                                                   *)
LEMMA LocatedStays ==
    ASSUME SuperBlockInv, Volume, Located, KeepsChain, location' = location,
           location \in Address, free' \subseteq free,
           faults' = faults \/ faults' # 0
    PROVE  /\ Located'
           /\ Astray' <=> Astray
           /\ Accurate' <=> Accurate
<1>1. location.block \in Pool \ free /\ location.block \notin free'
  BY LocatedFacts, KeptFacts
<1>2. Tip(3)' = Tip(3) /\ (Chains(location.block)' <=> Chains(location.block))
  BY KeptFacts
<1>3. (Accurate' <=> Accurate) /\ (Behind' <=> Behind)
  BY <1>2 DEF Accurate, Behind
<1>4. Astray' <=> Astray
  BY <1>1, <1>2 DEF Astray, Full
<1> QED BY <1>3, <1>4 DEF Located

(* A step of the top call on its way up. *)
LEMMA ClimbStays ==
    ASSUME SuperBlockInv, ChainInv, Climbs, NEW frame \in Call, TopGoes(frame),
           frame.addr = Top.addr, frame.link = Top.link,
           frame.pc \in {"erase", "write", "relink"},
           Moved(frame) => Full(frame.addr) /\ ~Chains(frame.to.block),
           KeepsChain, location' = location, sb' = sb, faults' = faults,
           free' \subseteq free, saves' = saves, mode' = "saving",
           Aiming'
    PROVE  ChainInv'
<1> DEFINE n == Len(calls)
<1>1. /\ Volume /\ Formatted /\ Located /\ location \in Address
      /\ calls # <<>> /\ calls \in Seq(Call) /\ n \in {1, 2, 3, 4}
      /\ Top = calls[n]
      /\ calls[1].addr = location /\ calls[1].link = sb
      /\ Astray => n = 1
  BY ClimbFacts
<1>2. /\ calls' \in Seq(Call) /\ calls' # <<>> /\ Len(calls') = n
      /\ calls'[n] = frame /\ Top' = frame
      /\ \A i \in 1 .. n : i # n => calls'[i] = calls[i]
  BY <1>1, TopReplaced
<1>3. Volume'
  BY <1>1, VolumeStays DEF Volume
<1>4. Located' /\ (Astray' <=> Astray)
  BY <1>1, LocatedStays
<1>5. \A i \in 1 .. n : calls'[i].addr = calls[i].addr /\ calls'[i].link = calls[i].link
  BY <1>1, <1>2
<1>6. ASSUME NEW i \in 1 .. n
      PROVE  /\ i > 1 => /\ calls'[i].addr = Tip(4 - i)'
                         /\ calls'[i].link.timestamp < calls'[i - 1].link.timestamp
             /\ calls'[i].link.type = TypeAt(4 - i)
             /\ StampAt(flash, Tip(4 - i))' < calls'[i].link.timestamp
             /\ Leaves(i)' => Full(calls'[i].addr) /\ ~Chains(calls[i].to.block)'
  <2>1. /\ i > 1 => /\ calls[i].addr = Tip(4 - i)
                    /\ calls[i].link.timestamp < calls[i - 1].link.timestamp
        /\ calls[i].link.type = TypeAt(4 - i)
        /\ StampAt(flash, Tip(4 - i)) < calls[i].link.timestamp
        /\ Leaves(i) => Full(calls[i].addr) /\ ~Chains(calls[i].to.block)
        /\ i < n => Leaves(i)
    BY ClimbLinks
  <2>2. /\ calls'[i].addr = calls[i].addr /\ calls'[i].link = calls[i].link
        /\ i > 1 => calls'[i - 1].link = calls[i - 1].link
    <3>1. i > 1 => i - 1 \in 1 .. n
      BY <1>1
    <3> QED BY <1>5, <3>1
  <2>3. Tip(4 - i)' = Tip(4 - i) /\ StampAt(flash, Tip(4 - i))' = StampAt(flash, Tip(4 - i))
    <3>1. 4 - i \in Levels
      BY <1>1 DEF Levels
    <3> QED BY <3>1, KeptFacts
  <2>4. Leaves(i)' => Full(calls'[i].addr) /\ ~Chains(calls'[i].to.block)
    <3>1. CASE i = n
      BY <1>2, <3>1 DEF Leaves
    <3>2. CASE i # n
      <4>1. i < n /\ calls'[i] = calls[i]
        BY <1>1, <1>2, <3>2
      <4> QED BY <2>1, <4>1
    <3> QED BY <3>1, <3>2
  <2>5. \A k : Tip(k)' = Tip(k)
    BY KeptFacts
  <2>6. Chains(calls[i].to.block)' <=> Chains(calls'[i].to.block)
    BY <2>5 DEF Chains
  <2> QED BY <2>1, <2>2, <2>3, <2>4, <2>6
<1>7. calls'[1].addr = location' /\ calls'[1].link = sb'
  BY <1>1, <1>5
<1>8. Climbing'
  <2>1. Len(calls') = n /\ n <= 4 /\ (Astray' => n = 1)
    BY <1>1, <1>2, <1>4
  <2> HIDE DEF n
  <2> QED BY <1>4, <1>6, <1>7, <2>1 DEF Climbing
<1>9. Descending'
  BY <1>2 DEF Descending, Descends
<1>10. Saving'
  BY <1>2, <1>8, <1>9 DEF Saving
<1> QED BY <1>3, <1>10, StillSaving

-----------------------------------------------------------------------------
(* The steps of a climb. *)

LEMMA NextSectorChain ==
    ASSUME SuperBlockInv, ChainInv, NextSector PROVE ChainInv'
<1> DEFINE frame == [Top EXCEPT
               !.to = At(Top.addr.block, Top.addr.sector + 1), !.pc = "write"]
<1>1. Top \in Call /\ Climbs /\ mode = "saving"
  BY ActiveCall DEF NextSector, Climbs
<1>2. Top.addr \in Address /\ Formatted /\ calls \in Seq(Call) /\ calls # <<>>
  BY <1>1, ClimbFacts, FrameType
<1>3. At(Top.addr.block, Top.addr.sector + 1) \in Address
  BY <1>2, Types DEF NextSector, Full
<1>4. /\ frame \in Call /\ frame.addr = Top.addr /\ frame.pc = "write"
      /\ frame.link = Top.link
      /\ frame.to = At(frame.addr.block, frame.addr.sector + 1)
      /\ frame.to.block = frame.addr.block
  BY <1>1, <1>3 DEF Call, At
<1>5. /\ TopGoes(frame) /\ flash' = flash /\ free' = free /\ sb' = sb
      /\ location' = location /\ mode' = "saving" /\ faults' = faults /\ saves' = saves
  BY <1>1 DEF NextSector, counters
<1> HIDE DEF frame
<1>6. ~Moved(frame) /\ KeepsChain
  BY <1>2, <1>4, <1>5, NothingChanges DEF Moved
<1>7. Top' = frame /\ calls' # <<>>
  BY <1>2, <1>4, <1>5, TopReplaced
<1>8. Aiming'
  BY <1>4, <1>7 DEF Aiming
<1> QED BY <1>1, <1>4, <1>5, <1>6, <1>8, ClimbStays

LEMMA SwapAnchorChain ==
    ASSUME SuperBlockInv, ChainInv, SwapAnchor PROVE ChainInv'
<1> DEFINE frame == [Top EXCEPT !.to = At(OtherAnchor(Top.addr.block), 0),
                                !.pc = "erase"]
<1>1. Top \in Call /\ Climbs /\ mode = "saving"
  BY ActiveCall DEF SwapAnchor, Climbs
<1>2. Top.addr \in Address /\ Formatted /\ calls \in Seq(Call) /\ calls # <<>>
  BY <1>1, ClimbFacts, FrameType
<1>3. Top.addr.block \in Anchors /\ At(OtherAnchor(Top.addr.block), 0) \in Address
  BY AnchorFacts, Types DEF SwapAnchor
<1>4. /\ frame \in Call /\ frame.addr = Top.addr /\ frame.pc = "erase"
      /\ frame.link = Top.link
      /\ frame.to = At(OtherAnchor(frame.addr.block), 0)
  BY <1>1, <1>3 DEF Call
<1>5. /\ TopGoes(frame) /\ flash' = flash /\ free' = free /\ sb' = sb
      /\ location' = location /\ mode' = "saving" /\ faults' = faults /\ saves' = saves
  BY <1>1 DEF SwapAnchor, counters
<1> HIDE DEF frame
<1>6. ~Moved(frame) /\ KeepsChain
  BY <1>2, <1>3, <1>4, <1>5, NothingChanges DEF Moved
<1>7. Top' = frame /\ calls' # <<>>
  BY <1>2, <1>4, <1>5, TopReplaced
<1>8. Aiming'
  BY <1>3, <1>4, <1>7 DEF Aiming
<1> QED BY <1>1, <1>4, <1>5, <1>6, <1>8, ClimbStays

(* A block that the allocator offers is not of the chain. *)
LEMMA FreeIsSpared ==
    ASSUME SuperBlockInv, Volume, Formatted, NEW b \in free
    PROVE  ~Chains(b)
<1>1. Tip(0).block \notin Pool /\ free \subseteq Pool
  BY FormattedFacts, Quiet
<1>2. \A k \in 1 .. 3 : Tip(k).block \notin free
  BY DEF Volume
<1>3. \A k \in Levels : k = 0 \/ k \in 1 .. 3
  BY DEF Levels
<1> QED BY <1>1, <1>2, <1>3 DEF Chains

LEMMA AllocateNextChain ==
    ASSUME SuperBlockInv, ChainInv, NEW b \in Pool, NEW erased \in BOOLEAN,
           AllocateNext(b, erased)
    PROVE  ChainInv'
<1> DEFINE frame == [Top EXCEPT !.to = At(b, 0),
                                !.pc = IF erased THEN "write" ELSE "erase"]
<1>1. Top \in Call /\ Climbs /\ mode = "saving"
  BY ActiveCall DEF AllocateNext, Climbs
<1>2. /\ Volume /\ Formatted /\ calls \in Seq(Call) /\ calls # <<>>
      /\ Top.addr.block \notin free
  BY <1>1, ClimbFacts
<1>3. At(b, 0) \in Address
  BY Types
<1>4. /\ frame \in Call /\ frame.addr = Top.addr /\ frame.link = Top.link
      /\ frame.pc \in {"erase", "write"} /\ frame.to.block = b
  BY <1>1, <1>3 DEF Call, At
<1>5. /\ TopGoes(frame) /\ flash' = flash /\ free' \subseteq free /\ sb' = sb
      /\ location' = location /\ mode' = "saving" /\ faults' = faults /\ saves' = saves
      /\ b \in free /\ Full(frame.addr) /\ frame.addr.block \notin Anchors
  BY <1>1, <1>4 DEF AllocateNext, Allocates, counters
<1> HIDE DEF frame
<1>6. KeepsChain /\ ~Chains(b) /\ Moved(frame)
  BY <1>2, <1>4, <1>5, NothingChanges, FreeIsSpared DEF Moved
<1>7. Top' = frame
  BY <1>2, <1>4, <1>5, TopReplaced
<1>8. Aiming'
  BY <1>6, <1>7 DEF Aiming, Moved
<1> QED BY <1>1, <1>4, <1>5, <1>6, <1>8, ClimbStays

LEMMA OtherAnchorIsSpared ==
    ASSUME SuperBlockInv, Formatted
    PROVE  ~Chains(OtherAnchor(Tip(0).block))
<1>1. /\ OtherAnchor(Tip(0).block) \notin Pool
      /\ OtherAnchor(Tip(0).block) # Tip(0).block
  BY FormattedFacts, AnchorFacts
<1>2. \A k \in 1 .. 3 : Tip(k).block \in Pool
  BY FormattedFacts
<1>3. \A k \in Levels : k = 0 \/ k \in 1 .. 3
  BY DEF Levels
<1> QED BY <1>1, <1>2, <1>3 DEF Chains

(* What rollover() erases on its way up, and the block it fills after       *)
(* moving to it, are not of the chain.                                      *)
LEMMA TargetIsSpared ==
    ASSUME SuperBlockInv, ChainInv, Climbs, Top.pc # "enter",
           Top.pc = "erase" \/ Moved(Top)
    PROVE  /\ Top.to \in Address /\ Top.to.block \in Blocks
           /\ ~Chains(Top.to.block)
           /\ Moved(Top) => Full(Top.addr) /\ (Top.pc # "relink" => Top.to.block \in Pool)
           /\ ~Moved(Top) => /\ Top.addr.block \in Anchors
                             /\ Top.to = At(OtherAnchor(Top.addr.block), 0)
<1>1. calls # <<>> /\ Top = calls[Len(calls)] /\ Len(calls) \in 1 .. Len(calls)
      /\ Formatted
  BY ClimbFacts
<1>2. Top.to \in Address /\ Top.to.block \in Blocks
  BY <1>1, Types DEF SuperBlockInv, TopReady
<1>3. CASE Moved(Top)
  <2>1. Full(Top.addr) /\ ~Chains(Top.to.block)
    BY <1>1, <1>3, ClimbLinks
  <2>2. Top.pc # "relink" => Top.to.block \in Pool
    BY <1>1, <1>3 DEF SuperBlockInv, TopReady, Relies, IsFresh, Climbs
  <2> QED BY <1>2, <1>3, <2>1, <2>2
<1>4. CASE ~Moved(Top)
  <2>1. /\ Top.addr.block \in Anchors
        /\ Top.to = At(OtherAnchor(Top.addr.block), 0)
    BY <1>4 DEF ChainInv, Saving, Aiming
  <2>2. Len(calls) = 4 /\ Top.addr = Tip(0)
    <3>1. Len(calls) = 4
      BY <2>1, ClimbFacts
    <3> QED BY <3>1, ClimbFacts
  <2>3. Top.to.block = OtherAnchor(Tip(0).block)
    BY <2>1, <2>2 DEF At
  <2> QED BY <1>1, <1>2, <1>4, <2>1, <2>3, OtherAnchorIsSpared
<1> QED BY <1>3, <1>4

LEMMA EraseTargetChain ==
    ASSUME SuperBlockInv, ChainInv, EraseTarget PROVE ChainInv'
<1> DEFINE frame == [Top EXCEPT !.pc = "write"]
           c == Top.to.block
<1>1. Top \in Call /\ Climbs /\ mode = "saving" /\ Top.pc = "erase"
  BY ActiveCall DEF EraseTarget, Climbs
<1>2. Formatted /\ calls \in Seq(Call) /\ calls # <<>>
  BY <1>1, ClimbFacts
<1>3. /\ c \in Blocks /\ ~Chains(c)
      /\ Moved(Top) => Full(Top.addr)
      /\ ~Moved(Top) => /\ Top.addr.block \in Anchors
                        /\ Top.to = At(OtherAnchor(Top.addr.block), 0)
  BY <1>1, TargetIsSpared
<1>4. /\ frame \in Call /\ frame.addr = Top.addr /\ frame.pc = "write"
      /\ frame.to = Top.to /\ frame.link = Top.link
  BY <1>1 DEF Call
<1>5. /\ TopGoes(frame) /\ flash' = Erasing(c) /\ free' = free /\ sb' = sb
      /\ location' = location /\ mode' = "saving" /\ faults' = faults /\ saves' = saves
  BY <1>1 DEF EraseTarget, counters
<1>6. /\ \A b \in Blocks : b # c => flash'[b] = flash[b]
      /\ \A s \in Sectors : flash'[c][s] = Erased
      /\ flash' \in Medium
  BY <1>3, <1>5, Quiet, StorageEffect, MediumType
<1> HIDE DEF frame, c
<1>7. KeepsChain
  BY <1>2, <1>3, <1>6, ChainStays
<1>8. Top' = frame /\ calls' # <<>>
  BY <1>2, <1>4, <1>5, TopReplaced
<1>9. Moved(frame) <=> Moved(Top)
  BY <1>4 DEF Moved
<1>10. Aiming'
  <2> SUFFICES ASSUME ~Moved(frame)
               PROVE  /\ frame.addr.block \in Anchors
                      /\ frame.to = At(OtherAnchor(frame.addr.block), 0)
                      /\ \A s \in Sectors : flash'[frame.to.block][s] = Erased
    BY <1>4, <1>8 DEF Aiming, Moved, Blank
  <2>1. frame.to.block = c
    BY <1>4 DEF c
  <2> QED BY <1>3, <1>4, <1>6, <1>9, <2>1
<1>11. Moved(frame) => Full(frame.addr) /\ ~Chains(frame.to.block)
  BY <1>3, <1>4, <1>9 DEF c
<1> QED BY <1>1, <1>4, <1>5, <1>7, <1>10, <1>11, ClimbStays

(* The link that names the block that was left is the one above it in the   *)
(* chain, unless location_ went astray.                                     *)
LEMMA ParentOfTop ==
    ASSUME SuperBlockInv, ChainInv, Climbs, Moved(Top)
    PROVE  /\ Len(calls) \in {1, 2, 3}
           /\ ~Astray => Walk(flash, Top.addr.block) = Reading(flash, Tip(3 - Len(calls)))
           /\ Astray => ~Found(Walk(flash, Top.addr.block))
<1> DEFINE n == Len(calls)
<1>1. /\ n \in {1, 2, 3, 4} /\ Formatted /\ Top = calls[n]
      /\ Top.addr.block \in Anchors <=> n = 4
      /\ calls[1].addr = location /\ location \in Address
      /\ Astray => n = 1
      /\ ~Astray => \A i \in 1 .. n : calls[i].addr.block = Tip(4 - i).block
  BY ClimbFacts
<1>2. n \in {1, 2, 3}
  BY <1>1 DEF Moved
<1> HIDE DEF n
<1>3. ASSUME ~Astray
      PROVE  Walk(flash, Top.addr.block) = Reading(flash, Tip(3 - n))
  <2>1. n \in 1 .. n /\ 4 - n \in 1 .. 3 /\ (4 - n) - 1 = 3 - n
    BY <1>2
  <2>2. Top.addr.block = Tip(4 - n).block
    BY <1>1, <1>3, <2>1
  <2>3. Walk(flash, Tip(4 - n).block) = Reading(flash, Tip((4 - n) - 1))
    BY <1>1, <2>1, FormattedIsWalked
  <2> QED BY <2>1, <2>2, <2>3
<1>4. ASSUME Astray PROVE ~Found(Walk(flash, Top.addr.block))
  <2>1. Top.addr = location
    BY <1>1, <1>4
  <2>2. location.block \in Pool /\ ~Chains(location.block)
    BY <1>4 DEF Astray
  <2> QED BY <1>1, <2>1, <2>2, FormattedIsWalked
<1> QED BY <1>2, <1>3, <1>4 DEF n

LEMMA RelinkChain ==
    ASSUME SuperBlockInv, ChainInv, Relink PROVE ChainInv'
<1>0. PICK n \in {1, 2, 3, 4} : n = Len(calls)
  BY ActiveCall, ClimbFacts DEF Relink, Climbs
<1> DEFINE level == 3 - n
           previous == Walk(flash, Top.addr.block)
           link == [previous.link EXCEPT !.timestamp = NextStamp(@),
                                         !.chained   = Top.to.block]
           nested == Entering(previous.where, link)
           frame == [Top EXCEPT !.pc = "free"]
           below == [calls EXCEPT ![Len(calls)].pc = "free"]
<1>1. /\ Top \in Call /\ Climbs /\ mode = "saving" /\ Top.pc = "relink"
      /\ Moved(Top)
  BY ActiveCall DEF Relink, Climbs, SuperBlockInv, TopReady
<1>2. /\ Volume /\ Formatted /\ Located /\ location \in Address
      /\ calls # <<>> /\ calls \in Seq(Call) /\ Top = calls[n]
      /\ calls[1].addr = location /\ calls[1].link = sb
      /\ Astray => n = 1
  BY <1>0, <1>1, ClimbFacts
<1>3. n \in {1, 2, 3} /\ ~Astray /\ previous = Reading(flash, Tip(level))
  BY <1>0, <1>1, ParentOfTop DEF Relink
<1>4. level \in Levels /\ level + 1 \in 1 .. 3 /\ (level + 1) - 1 = level
  BY <1>3 DEF Levels
<1>5. /\ StampAt(flash, Tip(level)) \in Nat
      /\ StampAt(flash, Tip(level)) < TimestampInvalid
      /\ LinkAt(flash, Tip(level)) \in Links
      /\ LinkAt(flash, Tip(level)).type = TypeAt(level)
      /\ Tip(level) \in Address
      /\ StampAt(flash, Tip(level)) < StampAt(flash, Tip(level + 1))
      /\ StampAt(flash, Tip(level + 1)) \in Nat
  <2>1. level + 1 \in Levels
    BY <1>4 DEF Levels
  <2>2. StampAt(flash, Tip((level + 1) - 1)) < StampAt(flash, Tip(level + 1))
    BY <1>2, <1>4, FormattedFacts
  <2> QED BY <1>2, <1>4, <2>1, <2>2, FormattedFacts
<1>6. /\ previous.link = LinkAt(flash, Tip(level)) /\ previous.where = Tip(level)
      /\ previous.link.timestamp = StampAt(flash, Tip(level))
  BY <1>3 DEF Reading, StampAt
<1>7. calls' = Append(below, nested)
  BY DEF Relink
<1>8. Top.to.block \in Blocks
  BY <1>1, TargetIsSpared
<1> HIDE DEF previous, level
<1>9. /\ link \in Links /\ link.type = TypeAt(level)
      /\ link.timestamp = StampAt(flash, Tip(level)) + 1
  <2>1. NextStamp(StampAt(flash, Tip(level))) = StampAt(flash, Tip(level)) + 1
    BY <1>5, GeometryAssumption DEF NextStamp
  <2>2. StampAt(flash, Tip(level)) + 1 \in Stamps
    BY <1>5, GeometryAssumption DEF Stamps
  <2> QED BY <1>5, <1>6, <1>8, <2>1, <2>2 DEF Links
<1> HIDE DEF link
<1>10. /\ nested \in Call /\ nested.pc = "enter" /\ nested.link = link
       /\ nested.addr = Tip(level)
  BY <1>5, <1>6, <1>9, EnteringType DEF Entering
<1> HIDE DEF nested
<1>11. /\ frame \in Call /\ frame.addr = Top.addr /\ frame.pc = "free"
       /\ frame.to = Top.to /\ frame.link = Top.link
  BY <1>1 DEF Call
<1>12. /\ below \in Seq(Call) /\ Len(below) = n
       /\ \A i \in 1 .. n : below[i] = IF i = n THEN frame ELSE calls[i]
  <2>1. n \in 1 .. n
    BY <1>3
  <2>2. below = [calls EXCEPT ![n] = frame]
    BY <1>0, <1>2
  <2> HIDE DEF below, frame
  <2> QED BY <1>0, <1>2, <1>11, <2>1, <2>2, ExceptSeq
<1> HIDE DEF below, frame
<1>13. /\ calls' \in Seq(Call) /\ calls' # <<>> /\ Len(calls') = n + 1
       /\ calls'[n + 1] = nested /\ Top' = nested
       /\ \A i \in 1 .. n : calls'[i] = IF i = n THEN frame ELSE calls[i]
  <2>1. /\ calls' \in Seq(Call) /\ calls' # <<>> /\ Len(calls') = n + 1
        /\ \A i \in 1 .. n : calls'[i] = below[i]
        /\ calls'[n + 1] = nested
    BY <1>7, <1>10, <1>12, AppendProperties
  <2>2. Top' = nested
    BY <2>1 DEF Top
  <2> QED BY <1>12, <2>1, <2>2
<1>14. \A i \in 1 .. n : /\ calls'[i].addr = calls[i].addr
                         /\ calls'[i].link = calls[i].link
                         /\ calls'[i].to = calls[i].to
  BY <1>2, <1>11, <1>13
<1>15. /\ flash' = flash /\ free' = free /\ sb' = sb /\ location' = location
       /\ mode' = "saving" /\ faults' = faults /\ saves' = saves
  BY <1>1 DEF Relink, counters
<1>16. KeepsChain
  BY <1>2, <1>15, NothingChanges
<1>17. Volume'
  BY <1>2, <1>15, <1>16, VolumeStays DEF Volume
<1>18. Located' /\ ~Astray'
  BY <1>2, <1>3, <1>15, <1>16, LocatedStays
<1>19. ASSUME NEW i \in 1 .. n
       PROVE  /\ i > 1 => /\ calls'[i].addr = Tip(4 - i)'
                          /\ calls'[i].link.timestamp < calls'[i - 1].link.timestamp
              /\ calls'[i].link.type = TypeAt(4 - i)
              /\ StampAt(flash, Tip(4 - i))' < calls'[i].link.timestamp
              /\ Leaves(i)' => Full(calls'[i].addr) /\ ~Chains(calls[i].to.block)'
  <2>1. /\ i > 1 => /\ calls[i].addr = Tip(4 - i)
                    /\ calls[i].link.timestamp < calls[i - 1].link.timestamp
        /\ calls[i].link.type = TypeAt(4 - i)
        /\ StampAt(flash, Tip(4 - i)) < calls[i].link.timestamp
        /\ Leaves(i) => Full(calls[i].addr) /\ ~Chains(calls[i].to.block)
        /\ i < n => Leaves(i)
        /\ Moved(calls[i]) /\ calls[i].pc # "enter" => Leaves(i)
    BY <1>0, <1>1, ClimbLinks
  <2>2. /\ calls'[i].addr = calls[i].addr /\ calls'[i].link = calls[i].link
        /\ calls'[i].to = calls[i].to
        /\ i > 1 => calls'[i - 1].link = calls[i - 1].link
    <3>1. i > 1 => i - 1 \in 1 .. n
      BY <1>3
    <3> QED BY <1>14, <3>1
  <2>3. Tip(4 - i)' = Tip(4 - i) /\ StampAt(flash, Tip(4 - i))' = StampAt(flash, Tip(4 - i))
    <3>1. 4 - i \in Levels
      BY <1>3 DEF Levels
    <3> QED BY <1>16, <3>1, KeptFacts
  <2>4. Leaves(i)
    <3>1. i < n \/ i = n
      BY <1>3
    <3> QED BY <1>1, <1>2, <2>1, <3>1
  <2>5. \A k : Tip(k)' = Tip(k)
    BY <1>16, KeptFacts
  <2>6. Chains(calls[i].to.block)' <=> Chains(calls'[i].to.block)
    BY <2>5 DEF Chains
  <2> QED BY <2>1, <2>2, <2>3, <2>4, <2>6
<1>20. /\ calls'[n + 1].addr = Tip(4 - (n + 1))'
       /\ calls'[n + 1].link.timestamp < calls'[(n + 1) - 1].link.timestamp
       /\ calls'[n + 1].link.type = TypeAt(4 - (n + 1))
       /\ StampAt(flash, Tip(4 - (n + 1)))' < calls'[n + 1].link.timestamp
       /\ ~Leaves(n + 1)'
  <2>1. 4 - (n + 1) = level /\ (n + 1) - 1 = n /\ n \in 1 .. n /\ 4 - n = level + 1
        /\ ~(n + 1 < n + 1)
    BY <1>3 DEF level
  <2>2. Tip(level)' = Tip(level) /\ StampAt(flash, Tip(level))' = StampAt(flash, Tip(level))
    BY <1>4, <1>16, KeptFacts
  <2>3. /\ calls[n].link.timestamp \in Nat
        /\ StampAt(flash, Tip(level + 1)) < calls[n].link.timestamp
    BY <1>0, <1>1, <2>1, ClimbLinks
  <2>4. StampAt(flash, Tip(level)) + 1 < calls[n].link.timestamp
    BY <1>5, <2>3
  <2>5. calls'[n].link = calls[n].link
    BY <1>14, <2>1
  <2>6. ~Leaves(n + 1)'
    BY <1>10, <1>13, <2>1 DEF Leaves
  <2>7. StampAt(flash, Tip(level)) < StampAt(flash, Tip(level)) + 1
    BY <1>5
  <2> QED BY <1>9, <1>10, <1>13, <2>1, <2>2, <2>4, <2>5, <2>6, <2>7
<1>21. Climbing'
  <2>1. Len(calls') <= 4 /\ Len(calls') = n + 1 /\ n + 1 > 1
    BY <1>3, <1>13
  <2>2. \A i \in 1 .. Len(calls') : i \in 1 .. n \/ i = n + 1
    BY <1>3, <2>1
  <2>3. calls'[1].addr = location' /\ calls'[1].link = sb'
    <3>1. 1 \in 1 .. n
      BY <1>3
    <3> QED BY <1>2, <1>14, <1>15, <3>1
  <2> QED BY <1>18, <1>19, <1>20, <2>1, <2>2, <2>3 DEF Climbing
<1>22. Aiming' /\ Descending'
  BY <1>10, <1>13 DEF Aiming, Descending, Descends
<1>23. Saving'
  BY <1>13, <1>21, <1>22 DEF Saving
<1> QED BY <1>15, <1>17, <1>23, StillSaving

-----------------------------------------------------------------------------
(* The write that switches. *)

(* A write that moves to no new block goes behind the newest link of its    *)
(* level, to the newest itself if an earlier write was reported as failed   *)
(* and yet took effect, or to the other anchor.                             *)
LEMMA AimIsNext ==
    ASSUME SuperBlockInv, ChainInv, Running("write"), ~Moved(Top),
           NEW m \in Levels, m = 4 - Len(calls)
    PROVE  /\ Top.to \in Address /\ ~Astray
           /\ \/ /\ Top.to.block = Tip(m).block
                 /\ Top.to.sector \in {Tip(m).sector, Tip(m).sector + 1}
              \/ /\ m = 0 /\ Top.to = At(OtherAnchor(Tip(0).block), 0)
                 /\ \A s \in Sectors : flash[OtherAnchor(Tip(0).block)][s] = Erased
           /\ faults = 0 => flash[Top.to.block][Top.to.sector] = Erased
<1>1. Climbs /\ Top.pc = "write" /\ Top \in Call
  BY ActiveCall DEF Climbs
<1>2. /\ Formatted /\ Volume /\ Located /\ calls # <<>> /\ Top = calls[Len(calls)]
      /\ Len(calls) \in {1, 2, 3, 4} /\ location \in Address
      /\ calls[1].addr = location /\ (Astray => Len(calls) = 1)
      /\ Top.addr.block \in Anchors <=> Len(calls) = 4
  BY <1>1, ClimbFacts
<1>3. Top.to \in Address
  BY <1>1, <1>2 DEF SuperBlockInv, TopReady
<1>4. \/ Top.to = At(Top.addr.block, Top.addr.sector + 1)
      \/ /\ Top.addr.block \in Anchors
         /\ Top.to = At(OtherAnchor(Top.addr.block), 0)
         /\ Blank(Top.to.block)
  BY <1>1 DEF ChainInv, Saving, Aiming
<1>5. Len(calls) > 1 => Top.addr = Tip(m)
  BY <1>1, ClimbFacts
<1>6. /\ Tip(m).sector \in Sectors /\ Tip(m).sector \in Nat
      /\ IsTip(flash, Tip(m)) /\ Tip(m).block \in Blocks
  <2>1. Tip(m) \in Address /\ IsTip(flash, Tip(m))
    BY <1>2, FormattedFacts
  <2> QED BY <2>1, AddressType
<1>7. 0 \in Sectors /\ \A s \in Sectors : s \in Nat /\ ~(s + 1 <= s)
  BY Types DEF Sectors
<1>8. CASE Top.addr.block \in Anchors /\ Top.to = At(OtherAnchor(Top.addr.block), 0)
           /\ Blank(Top.to.block)
  <2>1. Len(calls) = 4 /\ m = 0 /\ Top.addr = Tip(0) /\ ~Astray
    <3>1. Len(calls) = 4
      BY <1>2, <1>8
    <3>2. m = 0 /\ Len(calls) > 1 /\ Len(calls) # 1
      BY <3>1
    <3> QED BY <1>2, <1>5, <3>1, <3>2
  <2>2. Top.to = At(OtherAnchor(Tip(0).block), 0) /\ Top.to.sector = 0
        /\ Top.to.block = OtherAnchor(Tip(0).block)
    BY <1>8, <2>1 DEF At
  <2> QED BY <1>3, <1>7, <1>8, <2>1, <2>2 DEF Blank
<1>9. CASE Top.to = At(Top.addr.block, Top.addr.sector + 1)
  <2>1. Top.to.block = Top.addr.block /\ Top.to.sector = Top.addr.sector + 1
        /\ Top.to.sector \in Sectors
    BY <1>3, <1>9, Types DEF At
  <2>2. CASE Len(calls) > 1
    <3>1. ~Astray /\ Top.addr = Tip(m)
      BY <1>2, <1>5, <2>2
    <3>2. ~Programmed(flash, Tip(m).block, Tip(m).sector + 1)
      BY <1>6, <1>7, <2>1, <3>1 DEF IsTip
    <3> QED BY <1>3, <2>1, <3>1, <3>2 DEF Programmed
  <2>3. CASE Len(calls) = 1
    <3>1. Top.addr = location /\ m = 3
      BY <1>2, <2>3
    <3>2. ~Astray
      BY <2>1, <3>1 DEF Astray, Full
    <3>3. CASE Accurate
      <4>1. ~Programmed(flash, Tip(m).block, Tip(m).sector + 1)
        BY <1>6, <1>7, <2>1, <3>1, <3>3 DEF IsTip, Accurate
      <4> QED BY <1>3, <2>1, <3>1, <3>2, <3>3, <4>1 DEF Programmed, Accurate
    <3>4. CASE Behind /\ ~Accurate
      <4>1. faults # 0
        BY <1>2, <3>4 DEF Located
      <4> QED BY <1>3, <2>1, <3>1, <3>2, <3>4, <4>1 DEF Behind
    <3> QED BY <1>2, <3>2, <3>3, <3>4 DEF Located
  <2> QED BY <1>2, <2>2, <2>3
<1> QED BY <1>4, <1>8, <1>9

(* What the calls are about to make of the chain. *)
SwitchedTips(m) ==
    [k \in Levels |-> IF k >= m THEN calls[4 - k].to ELSE Tip(k)]

SwitchedLinks(m) ==
    [k \in Levels |-> IF k >= m THEN calls[4 - k].link ELSE LinkAt(flash, Tip(k))]

LEMMA SwitchedFacts ==
    ASSUME SuperBlockInv, ChainInv, Running("write"), ~Moved(Top),
           NEW m \in Levels, m = 4 - Len(calls)
    PROVE  /\ SwitchedTips(m) \in [Levels -> Address]
           /\ SwitchedLinks(m) \in [Levels -> Links]
           /\ IsFilled(flash, Tips(flash), m, SwitchedTips(m), SwitchedLinks(m))
           /\ IsLinked(m, SwitchedTips(m), SwitchedLinks(m))
           /\ \A k \in Levels : k > m => SwitchedTips(m)[k].block \notin free
<1> DEFINE new == SwitchedTips(m)
           lk == SwitchedLinks(m)
<1>0. PICK n \in {1, 2, 3, 4} : n = Len(calls)
  BY ActiveCall, ClimbFacts DEF Climbs
<1>1. Climbs /\ Top.pc = "write" /\ Top \in Call
  BY ActiveCall DEF Climbs
<1>2. /\ Formatted /\ calls # <<>> /\ Top = calls[n] /\ DOMAIN calls = 1 .. n
  BY <1>0, <1>1, ClimbFacts
<1>3. m = 4 - n
  BY <1>0
<1>4. \A k \in Levels : /\ k \in Nat
                        /\ k >= m => 4 - k \in 1 .. n
                        /\ k > m => 4 - k \in 1 .. n - 1 /\ 4 - k \in 1 .. n
                        /\ ~(k >= m) <=> k < m
                        /\ k > m => k >= m
                        /\ k = m => 4 - k = n
                        /\ 4 - (4 - k) = k
  BY <1>3 DEF Levels
<1>5. /\ \A k \in Levels : k >= m => new[k] = calls[4 - k].to /\ lk[k] = calls[4 - k].link
      /\ \A k \in Levels : k < m => new[k] = Tip(k) /\ lk[k] = LinkAt(flash, Tip(k))
  BY <1>4 DEF SwitchedTips, SwitchedLinks
<1>6. \A i \in 1 .. n - 1 :
          /\ calls[i].pc = "free" /\ Moved(calls[i])
          /\ calls[i].to.block \in Pool \ free /\ calls[i].to.sector = 0
          /\ flash[calls[i].to.block] = Row(calls[i].link)
          /\ ~Chains(calls[i].to.block)
          /\ i \in 1 .. n
  <2> SUFFICES ASSUME NEW i \in 1 .. n - 1
               PROVE  /\ calls[i].pc = "free" /\ Moved(calls[i])
                      /\ calls[i].to.block \in Pool \ free /\ calls[i].to.sector = 0
                      /\ flash[calls[i].to.block] = Row(calls[i].link)
                      /\ ~Chains(calls[i].to.block)
                      /\ i \in 1 .. n
    OBVIOUS
  <2>1. i \in 1 .. n /\ i < n
    OBVIOUS
  <2>2. ~Chains(calls[i].to.block)
    BY <1>0, <1>1, <2>1, ClimbLinks
  <2> QED BY <1>0, <2>1, <2>2 DEF SuperBlockInv, Waiting, IsFresh, OnlyHolds, Row
<1>7. \A i \in 1 .. n : /\ calls[i].to \in Address
                        /\ calls[i].pc \notin {"enter", "mark", "done"}
  <2> SUFFICES ASSUME NEW i \in 1 .. n
               PROVE  /\ calls[i].to \in Address
                      /\ calls[i].pc \notin {"enter", "mark", "done"}
    OBVIOUS
  <2>1. i = n \/ i \in 1 .. n - 1
    OBVIOUS
  <2>2. CASE i = n
    BY <1>1, <1>2, <2>2, AimIsNext
  <2>3. CASE i \in 1 .. n - 1
    <3>1. calls[i] \in Call
      BY <1>0, <1>1, ClimbLinks
    <3>2. calls[i].to \in Address
      BY <1>6, <2>3, <3>1, FrameType, Types DEF NoAddress
    <3> QED BY <1>6, <2>3, <3>2
  <2> QED BY <2>1, <2>2, <2>3
<1>8. new \in [Levels -> Address]
  <2>1. \A k \in Levels : new[k] \in Address
    BY <1>2, <1>4, <1>5, <1>7, FormattedFacts
  <2> QED BY <2>1 DEF SwitchedTips
<1>9. lk \in [Levels -> Links]
  <2>1. \A i \in 1 .. n : calls[i].link \in Links
    BY <1>0, <1>1, ClimbLinks
  <2>2. \A k \in Levels : lk[k] \in Links
    BY <1>2, <1>4, <1>5, <2>1, FormattedFacts
  <2> QED BY <2>2 DEF SwitchedLinks
<1> HIDE DEF new, lk
<1>10. IsFilled(flash, Tips(flash), m, new, lk)
  <2> SUFFICES ASSUME NEW k \in Levels, k > m
               PROVE  /\ new[k].block \in Pool /\ new[k].sector = 0
                      /\ flash[new[k].block] = Row(lk[k])
                      /\ \A j \in Levels : new[k].block # Tip(j).block
                      /\ \A j \in Levels : new[k].block = new[j].block => k = j
    BY DEF IsFilled, Tip
  <2>1. 4 - k \in 1 .. n - 1 /\ new[k] = calls[4 - k].to /\ lk[k] = calls[4 - k].link
    BY <1>4, <1>5
  <2>2. /\ new[k].block \in Pool /\ new[k].sector = 0
        /\ flash[new[k].block] = Row(lk[k])
        /\ \A j \in Levels : new[k].block # Tip(j).block
    BY <1>6, <2>1 DEF Chains
  <2>3. ASSUME NEW j \in Levels, new[k].block = new[j].block PROVE k = j
    <3>1. CASE j < m
      <4>1. new[j] = Tip(j)
        BY <1>5, <3>1
      <4> QED BY <2>2, <2>3, <4>1
    <3>2. CASE j >= m
      <4>1. new[j] = calls[4 - j].to /\ 4 - j \in 1 .. n /\ 4 - k \in 1 .. n
        BY <1>4, <1>5, <1>6, <2>1, <3>2
      <4>2. \A a, b \in 1 .. n : a < b => calls[b].to.block # calls[a].to.block
        BY <1>2, <1>7 DEF SuperBlockInv, Apart
      <4>3. ~(4 - j < 4 - k) /\ ~(4 - k < 4 - j)
        BY <2>1, <2>3, <4>1, <4>2
      <4> QED BY <1>4, <4>3 DEF Levels
    <3> QED BY <1>4, <3>1, <3>2
  <2> QED BY <2>2, <2>3
<1>11. IsLinked(m, new, lk)
  <2> SUFFICES ASSUME NEW k \in Levels, k >= m
               PROVE  /\ lk[k].type = TypeAt(k)
                      /\ lk[k].chained = IF k = 3 THEN NoBlock ELSE new[k + 1].block
                      /\ k < 3 => lk[k].timestamp < lk[k + 1].timestamp
    BY DEF IsLinked
  <2> DEFINE i == 4 - k
  <2>1. i \in 1 .. n /\ lk[k] = calls[i].link /\ 4 - i = k
    BY <1>4, <1>5
  <2>2. /\ lk[k].type = TypeAt(k)
        /\ i > 1 => calls[i].link.timestamp < calls[i - 1].link.timestamp
    BY <1>0, <1>1, <2>1, ClimbLinks
  <2>3. calls[i].link.chained = IF i = 1 THEN NoBlock ELSE calls[i - 1].to.block
    BY <1>2, <1>7, <2>1 DEF SuperBlockInv, Chained
  <2>4. k = 3 <=> i = 1
    BY DEF Levels
  <2>5. k < 3 => /\ i > 1 /\ i - 1 = 4 - (k + 1) /\ k + 1 \in Levels /\ k + 1 >= m
    BY <1>3 DEF Levels
  <2>6. k < 3 => new[k + 1] = calls[i - 1].to /\ lk[k + 1] = calls[i - 1].link
    BY <1>5, <2>5
  <2>7. k < 3 \/ k = 3
    BY DEF Levels
  <2> HIDE DEF i
  <2> QED BY <2>1, <2>2, <2>3, <2>4, <2>5, <2>6, <2>7
<1>12. \A k \in Levels : k > m => new[k].block \notin free
  BY <1>4, <1>5, <1>6
<1> QED BY <1>8, <1>9, <1>10, <1>11, <1>12 DEF new, lk

(* A stamp is a number. *)
LEMMA StampType == SuperBlockInv => sb.timestamp \in Nat /\ saves \in Nat
<1>1. SuperBlockInv => sb.timestamp \in Stamps
  BY Quiet, Types
<1>2. Stamps \subseteq Nat
  BY GeometryAssumption DEF Stamps
<1> QED BY <1>1, <1>2 DEF SuperBlockInv, TypeOK

LEMMA NoWrap ==
    ASSUME SuperBlockInv, Volume, OneLife
    PROVE  /\ sb.timestamp \in Nat /\ sb.timestamp < TimestampInvalid
           /\ saves \in Nat /\ sb.timestamp <= 5 + saves
<1>1. sb.timestamp \in Nat /\ saves \in Nat
  BY StampType
<1>2. sb.timestamp <= 5 + saves /\ saves <= MaxSaves /\ MaxSaves + 5 < TimestampInvalid
  BY DEF Volume, OneLife
<1>3. MaxSaves \in Nat /\ TimestampInvalid \in Nat
  BY BoundsAssumption, GeometryAssumption
<1>4. ASSUME NEW t \in Nat, NEW n \in Nat, NEW max \in Nat, NEW end \in Nat,
             t <= 5 + n, n <= max, max + 5 < end
      PROVE  t < end
  BY <1>4
<1>5. sb.timestamp < TimestampInvalid
  BY <1>1, <1>2, <1>3, <1>4
<1> QED BY <1>1, <1>2, <1>5

LEMMA WriteSwitches ==
    ASSUME SuperBlockInv, ChainInv, OneLife, Running("write"), ~Moved(Top),
           flash' = Programming(Top.to.block, Top.to.sector, Top.link),
           NEW m \in Levels, m = 4 - Len(calls)
    PROVE  /\ flash' \in Medium /\ Formatted'
           /\ Tips(flash') = SwitchedTips(m)
           /\ \A i \in 1 .. Len(calls) : SwitchedTips(m)[4 - i] = calls[i].to
           /\ LinkAt(flash', SwitchedTips(m)[3]) = sb
           /\ \A k \in 1 .. 3 : SwitchedTips(m)[k].block \notin free
           /\ \A i \in 1 .. Len(calls) - 1, k \in Levels :
                 calls[i].addr.block # SwitchedTips(m)[k].block
<1> DEFINE new == SwitchedTips(m)
           lk == SwitchedLinks(m)
           at == Tips(flash)
<1>0. PICK n \in {1, 2, 3, 4} : n = Len(calls)
  BY ActiveCall, ClimbFacts DEF Climbs
<1>1. Climbs /\ Top.pc = "write" /\ Top \in Call /\ Top.link \in Links
  BY ActiveCall, FrameType DEF Climbs
<1>2. /\ Formatted /\ Volume /\ calls # <<>> /\ Top = calls[n] /\ m = 4 - n
      /\ calls[1].link = sb /\ calls[1].addr = location
      /\ Astray => n = 1
  BY <1>0, <1>1, ClimbFacts
<1>3. /\ new \in [Levels -> Address] /\ lk \in [Levels -> Links]
      /\ IsFilled(flash, at, m, new, lk) /\ IsLinked(m, new, lk)
      /\ \A k \in Levels : k > m => new[k].block \notin free
  BY SwitchedFacts
<1>4. /\ \A k \in Levels : k >= m => new[k] = calls[4 - k].to /\ lk[k] = calls[4 - k].link
      /\ \A k \in Levels : k < m => new[k] = at[k] /\ Tip(k) = at[k]
      /\ m >= m /\ 4 - m = n /\ 3 \in Levels /\ 3 >= m
  BY <1>2 DEF SwitchedTips, SwitchedLinks, Tip, Levels
<1>5. new[m] = Top.to /\ lk[m] = Top.link /\ lk[3] = sb
  <2>1. 4 - 3 = 1
    OBVIOUS
  <2> QED BY <1>2, <1>4, <2>1
<1>6. flash' = Writing(flash, new[m], lk[m])
  BY <1>5 DEF Programming, Writing
<1>7. flash \in Medium /\ flash' \in Medium /\ IsChain(flash, at)
  <2>1. flash \in Medium
    BY Quiet
  <2> QED BY <1>1, <1>2, <2>1, MediumType DEF Formatted
<1>8. StampAt(flash, at[m]) < lk[m].timestamp
  <2>1. n \in 1 .. Len(calls)
    BY <1>0
  <2>2. StampAt(flash, Tip(4 - n)) < calls[n].link.timestamp
    BY <1>1, <2>1, ClimbLinks
  <2> QED BY <1>2, <1>5, <2>2 DEF Tip
<1>9. /\ Top.to \in Address /\ ~Astray
      /\ \/ /\ Top.to.block = at[m].block
            /\ Top.to.sector \in {at[m].sector, at[m].sector + 1}
         \/ /\ m = 0 /\ Top.to = At(OtherAnchor(at[0].block), 0)
            /\ \A s \in Sectors : flash[OtherAnchor(at[0].block)][s] = Erased
  BY AimIsNext DEF Tip
<1> HIDE DEF new, lk
<1>10. Appends(at, m, new) \/ Swaps(flash, at, m, new)
  BY <1>5, <1>9 DEF Appends, Swaps
<1>11. lk[3].timestamp < TimestampInvalid
  BY <1>2, <1>5, NoWrap
<1>12. \A k \in Levels : k < m => new[k] = at[k]
  BY <1>4
<1> HIDE DEF at
<1>13. /\ IsChain(flash', new)
       /\ \A k \in Levels : LinkAt(flash', new[k]) =
                             IF k >= m THEN lk[k] ELSE LinkAt(flash, at[k])
  BY <1>3, <1>6, <1>7, <1>8, <1>10, <1>11, <1>12, ChainSwitches
<1>14. Tips(flash') = new /\ Formatted'
  BY <1>7, <1>13, ChainIsWalked DEF Formatted
<1>15. LinkAt(flash', new[3]) = sb
  BY <1>4, <1>5, <1>13
<1>16. \A i \in 1 .. n : new[4 - i] = calls[i].to
  <2>1. \A i \in 1 .. n : 4 - i \in Levels /\ 4 - i >= m /\ 4 - (4 - i) = i
    BY <1>2 DEF Levels
  <2> QED BY <1>4, <2>1
<1>17. \A k \in 1 .. 3 : at[k].block \notin free /\ at[k].block \in Pool
  BY <1>2, FormattedFacts DEF Volume, Tip, at
<1>18. \A k \in Levels : k < m \/ k = m \/ k > m
  BY <1>2 DEF Levels
<1>19. new[m].block = at[m].block \/ (m = 0 /\ new[m].block = OtherAnchor(at[0].block))
  BY <1>5, <1>9 DEF At
<1>20. ASSUME NEW k \in 1 .. 3 PROVE new[k].block \notin free
  <2>1. k \in Levels /\ k # 0
    BY DEF Levels
  <2>2. CASE k < m
    BY <1>4, <1>17, <2>1, <2>2
  <2>3. CASE k = m
    BY <1>17, <1>19, <2>1, <2>3
  <2>4. CASE k > m
    BY <1>3, <2>1, <2>4
  <2> QED BY <1>18, <2>1, <2>2, <2>3, <2>4
<1>21. ASSUME NEW i \in 1 .. n - 1, NEW k \in Levels
       PROVE  calls[i].addr.block # new[k].block
  <2>1. /\ i \in 1 .. Len(calls) /\ i < Len(calls) /\ 4 - i \in 1 .. 3 /\ 4 - i > m
        /\ 4 - i \in Levels
    BY <1>0, <1>2 DEF Levels
  <2>2. calls[i].addr.block = at[4 - i].block
    <3>1. ~Astray
      BY <1>9
    <3> QED BY <1>1, <2>1, <3>1, ClimbFacts DEF Tip, at
  <2>3. calls[i].addr.block \in Pool
    BY <1>17, <2>1, <2>2
  <2>4. \A j, l \in Levels : at[j].block = at[l].block => j = l
    BY <1>2, FormattedFacts DEF Tip, at
  <2>5. CASE k < m
    <3>1. new[k] = at[k] /\ k # 4 - i
      BY <1>4, <2>1, <2>5 DEF Levels
    <3> QED BY <2>1, <2>2, <2>4, <3>1
  <2>6. CASE k = m
    <3>1. k # 4 - i
      BY <2>1, <2>6 DEF Levels
    <3>2. OtherAnchor(at[0].block) \notin Pool
      BY <1>7, AnchorFacts DEF IsChain
    <3> QED BY <1>19, <2>1, <2>2, <2>3, <2>4, <2>6, <3>1, <3>2
  <2>7. CASE k > m
    <3>1. \A j \in Levels : new[k].block # at[j].block
      BY <1>3, <2>7 DEF IsFilled
    <3> QED BY <2>1, <2>2, <3>1
  <2> QED BY <1>18, <2>5, <2>6, <2>7
<1> QED BY <1>0, <1>7, <1>14, <1>15, <1>16, <1>20, <1>21 DEF new

LEMMA SwitchedVolume ==
    ASSUME SuperBlockInv, ChainInv, OneLife, Running("write"), ~Moved(Top),
           flash' = Programming(Top.to.block, Top.to.sector, Top.link),
           free' = free, sb' = sb, saves' = saves
    PROVE  /\ Volume' /\ Formatted'
           /\ LinkAt(flash, Tip(3))' = sb
           /\ SuperStamp' = sb.timestamp
           /\ \A i \in 1 .. Len(calls) : Tip(4 - i)' = calls[i].to
           /\ \A i \in 1 .. Len(calls) - 1, k \in Levels :
                 calls[i].addr.block # Tip(k)'.block
<1>0. PICK n \in {1, 2, 3, 4} : n = Len(calls)
  BY ActiveCall, ClimbFacts DEF Climbs
<1>1. \A i \in {1, 2, 3, 4} : 4 - i \in Levels
  BY DEF Levels
<1>2. PICK m \in Levels : m = 4 - Len(calls)
  BY <1>0, <1>1
<1>3. /\ Formatted'
      /\ Tips(flash') = SwitchedTips(m)
      /\ \A i \in 1 .. Len(calls) : SwitchedTips(m)[4 - i] = calls[i].to
      /\ LinkAt(flash', SwitchedTips(m)[3]) = sb
      /\ \A k \in 1 .. 3 : SwitchedTips(m)[k].block \notin free
      /\ \A i \in 1 .. Len(calls) - 1, k \in Levels :
            calls[i].addr.block # SwitchedTips(m)[k].block
  BY <1>2, WriteSwitches
<1>4. \A k : Tip(k)' = SwitchedTips(m)[k]
  BY <1>3 DEF Tip
<1>5. LinkAt(flash, Tip(3))' = sb
  BY <1>3, <1>4 DEF LinkAt
<1>6. SuperStamp' = sb.timestamp
  BY <1>5 DEF SuperStamp, StampAt
<1>7. Volume
  BY DEF ChainInv
<1>8. Volume'
  BY <1>3, <1>4, <1>6, <1>7 DEF Volume
<1> QED BY <1>3, <1>4, <1>5, <1>6, <1>8

LEMMA WriteTargetClimbs ==
    ASSUME SuperBlockInv, ChainInv, WriteTarget, Moved(Top) PROVE ChainInv'
<1> DEFINE frame == [Top EXCEPT !.pc = "relink"]
           c == Top.to.block
<1>1. Top \in Call /\ Climbs /\ mode = "saving" /\ Top.pc = "write"
      /\ Top.link \in Links
  BY ActiveCall, FrameType DEF WriteTarget, Climbs
<1>2. Formatted /\ calls \in Seq(Call) /\ calls # <<>>
  BY <1>1, ClimbFacts
<1>3. c \in Blocks /\ c \in Pool /\ ~Chains(c) /\ Full(Top.addr)
  BY <1>1, TargetIsSpared
<1>4. /\ frame \in Call /\ frame.addr = Top.addr /\ frame.pc = "relink"
      /\ frame.to = Top.to /\ frame.link = Top.link
  BY <1>1 DEF Call
<1>5. /\ TopGoes(frame) /\ flash' = Programming(c, Top.to.sector, Top.link)
      /\ free' = free /\ sb' = sb
      /\ location' = location /\ mode' = "saving" /\ faults' = faults /\ saves' = saves
  BY <1>1 DEF WriteTarget, counters
<1>6. /\ \A b \in Blocks : b # c => flash'[b] = flash[b]
      /\ flash' \in Medium
  BY <1>1, <1>3, <1>5, Quiet, StorageEffect, MediumType
<1> HIDE DEF frame, c
<1>7. KeepsChain
  BY <1>2, <1>3, <1>6, ChainStays
<1>8. Top' = frame /\ calls' # <<>>
  BY <1>2, <1>4, <1>5, TopReplaced
<1>9. Moved(frame)
  BY <1>4 DEF Moved
<1>10. Aiming'
  BY <1>8, <1>9 DEF Aiming, Moved
<1>11. Moved(frame) => Full(frame.addr) /\ ~Chains(frame.to.block)
  BY <1>3, <1>4 DEF c
<1> QED BY <1>1, <1>4, <1>5, <1>7, <1>10, <1>11, ClimbStays

LEMMA WriteTargetSwitches ==
    ASSUME SuperBlockInv, ChainInv, OneLife, WriteTarget, ~Moved(Top)
    PROVE  ChainInv'
<1>0. PICK n \in {1, 2, 3, 4} : n = Len(calls)
  BY ActiveCall, ClimbFacts DEF WriteTarget, Climbs
<1> DEFINE frame == [Top EXCEPT !.pc = "done"]
<1>1. /\ Top \in Call /\ mode = "saving" /\ Running("write")
      /\ calls \in Seq(Call) /\ calls # <<>> /\ Top = calls[n]
  BY <1>0, ActiveCall DEF WriteTarget
<1>2. /\ TopGoes(frame)
      /\ flash' = Programming(Top.to.block, Top.to.sector, Top.link)
      /\ free' = free /\ sb' = sb /\ mode' = "saving" /\ saves' = saves
  BY <1>1 DEF WriteTarget, counters
<1>3. frame \in Call /\ frame.pc = "done" /\ frame.to = Top.to
  BY <1>1 DEF Call
<1> HIDE DEF frame
<1>4. /\ Len(calls') = n /\ Top' = frame /\ calls'[n] = frame /\ calls' # <<>>
      /\ \A i \in 1 .. n : i # n => calls'[i] = calls[i]
  BY <1>0, <1>1, <1>2, <1>3, TopReplaced
<1>5. /\ Volume'
      /\ LinkAt(flash, Tip(3))' = sb
      /\ \A i \in 1 .. n : Tip(4 - i)' = calls[i].to
      /\ \A i \in 1 .. n - 1, k \in Levels : calls[i].addr.block # Tip(k)'.block
  BY <1>0, <1>1, <1>2, SwitchedVolume
<1>6. ASSUME NEW i \in 1 .. n
      PROVE  /\ calls'[i].to = Tip(4 - i)'
             /\ calls'[i].pc \in {"free", "mark"} => ~Chains(calls[i].addr.block)'
  <2>1. CASE i = n
    BY <1>1, <1>3, <1>4, <1>5, <2>1
  <2>2. CASE i # n
    <3>1. i \in 1 .. n - 1 /\ calls'[i] = calls[i]
      BY <1>4, <2>2
    <3>2. ~Chains(calls[i].addr.block)'
      BY <1>5, <3>1 DEF Chains
    <3> QED BY <1>5, <3>1, <3>2
  <2> QED BY <2>1, <2>2
<1>7. Descending'
  BY <1>2, <1>3, <1>4, <1>5, <1>6 DEF Descending
<1>8. Climbing' /\ Aiming'
  BY <1>3, <1>4 DEF Climbing, Aiming, Climbs
<1>9. Saving'
  BY <1>4, <1>7, <1>8 DEF Saving
<1> QED BY <1>2, <1>5, <1>9, StillSaving

LEMMA WriteTargetChain ==
    ASSUME SuperBlockInv, ChainInv, OneLife, WriteTarget PROVE ChainInv'
  BY WriteTargetClimbs, WriteTargetSwitches
-----------------------------------------------------------------------------
(* The calls return, freeing the blocks that they left. *)

LEMMA DescendFacts ==
    ASSUME SuperBlockInv, ChainInv, Descends
    PROVE  /\ Volume /\ Formatted /\ mode = "saving"
           /\ calls # <<>> /\ calls \in Seq(Call) /\ Len(calls) \in {1, 2, 3, 4}
           /\ Top = calls[Len(calls)] /\ Top \in Call
           /\ \A i \in 1 .. Len(calls) :
                 /\ calls[i].to = Tip(4 - i)
                 /\ calls[i].pc \in {"free", "mark"} => ~Chains(calls[i].addr.block)
           /\ LinkAt(flash, Tip(3)) = sb
           /\ Top.pc \in {"free", "mark"} =>
                 Top.addr.block \in Pool /\ ~Chains(Top.addr.block)
<1>1. /\ calls # <<>> /\ calls \in Seq(Call) /\ mode = "saving"
  BY DEF Descends, SuperBlockInv, TypeOK, Control
<1>2. /\ Len(calls) \in Nat \ {0} /\ Len(calls) \in 1 .. Len(calls)
      /\ Top = calls[Len(calls)] /\ Top \in Call
  BY <1>1, TopType DEF Top
<1>3. /\ Volume /\ Formatted /\ Len(calls) <= 4
      /\ \A i \in 1 .. Len(calls) :
            /\ calls[i].to = Tip(4 - i)
            /\ calls[i].pc \in {"free", "mark"} => ~Chains(calls[i].addr.block)
      /\ LinkAt(flash, Tip(3)) = sb
  BY <1>1 DEF ChainInv, Volume, Saving, Descending
<1>4. Len(calls) \in {1, 2, 3, 4}
  <2>1. \A n \in Nat \ {0} : n <= 4 => n \in {1, 2, 3, 4}
    OBVIOUS
  <2> QED BY <1>2, <1>3, <2>1
<1>5. Top.pc \in {"free", "mark"} => Top.addr.block \in Pool
  <2>1. Top.pc \in {"free", "mark"} => Top.addr.block \notin Anchors
    BY <1>1 DEF SuperBlockInv, TopReady, Moved
  <2>2. Top.addr.block \in Blocks
    BY <1>2, FrameType, Types
  <2> QED BY <2>1, <2>2 DEF Blocks
<1> QED BY <1>1, <1>2, <1>3, <1>4, <1>5

LEMMA DescendStays ==
    ASSUME SuperBlockInv, ChainInv, Descends, Top.pc \in {"free", "mark"},
           NEW frame \in Call, TopGoes(frame),
           frame.addr = Top.addr, frame.to = Top.to, frame.pc \in {"mark", "done"},
           frame.pc = "mark" => flash'[frame.addr.block][0] = Erased,
           flash' \in Medium,
           \A b \in Blocks : b # Top.addr.block => flash'[b] = flash[b],
           free' \in {free, free \union {Top.addr.block}},
           sb' = sb, saves' = saves, mode' = "saving"
    PROVE  ChainInv'
<1>0. PICK n \in {1, 2, 3, 4} : n = Len(calls)
  BY DescendFacts
<1>1. /\ Volume /\ Formatted /\ calls # <<>> /\ calls \in Seq(Call)
      /\ Top = calls[n]
      /\ \A i \in 1 .. n :
            /\ calls[i].to = Tip(4 - i)
            /\ calls[i].pc \in {"free", "mark"} => ~Chains(calls[i].addr.block)
      /\ LinkAt(flash, Tip(3)) = sb
      /\ Top.addr.block \in Pool /\ ~Chains(Top.addr.block)
  BY <1>0, DescendFacts
<1>2. KeepsChain
  BY <1>1, ChainStays
<1>3. /\ Len(calls') = n /\ Top' = frame /\ calls'[n] = frame /\ calls' # <<>>
      /\ \A i \in 1 .. n : i # n => calls'[i] = calls[i]
  BY <1>0, <1>1, TopReplaced
<1>4. \A k \in 1 .. 3 : Tip(k).block \notin free'
  <2>1. \A k \in 1 .. 3 : k \in Levels
    BY DEF Levels
  <2> QED BY <1>1, <2>1 DEF Volume, Chains
<1>5. Volume'
  BY <1>1, <1>2, <1>4, VolumeStays
<1>6. /\ \A k : Tip(k)' = Tip(k)
      /\ \A b : Chains(b)' <=> Chains(b)
      /\ LinkAt(flash', Tip(3)) = sb
  BY <1>1, <1>2, KeptFacts DEF Levels
<1>7. ASSUME NEW i \in 1 .. n
      PROVE  /\ calls'[i].to = Tip(4 - i)'
             /\ calls'[i].pc \in {"free", "mark"} => ~Chains(calls[i].addr.block)'
  <2>1. Chains(calls[i].addr.block)' <=> Chains(calls'[i].addr.block)
    BY <1>6 DEF Chains
  <2>2. CASE i = n
    BY <1>1, <1>3, <1>6, <2>1, <2>2
  <2>3. CASE i # n
    BY <1>1, <1>3, <1>6, <2>1, <2>3
  <2> QED BY <2>2, <2>3
<1>8. LinkAt(flash, Tip(3))' = sb'
  BY <1>6 DEF LinkAt
<1>9. Descending'
  BY <1>3, <1>7, <1>8 DEF Descending
<1>10. Climbing' /\ Aiming'
  BY <1>3 DEF Climbing, Aiming, Climbs
<1>11. Saving'
  BY <1>3, <1>9, <1>10 DEF Saving
<1> QED BY <1>5, <1>11, StillSaving

LEMMA FreeErasesChain ==
    ASSUME SuperBlockInv, ChainInv, FreeErases PROVE ChainInv'
<1> DEFINE c == Top.addr.block
           frame == [Top EXCEPT !.link = FreedHead(c), !.pc = "mark"]
<1>1. Top \in Call /\ Descends /\ mode = "saving" /\ Top.pc = "free"
  BY ActiveCall DEF FreeErases, Descends
<1>2. c \in Pool /\ c \in Blocks
  BY <1>1, DescendFacts, Types
<1>3. FreedHead(c) \in Links
  BY <1>2, Quiet, FreedHeadType
<1>4. /\ frame \in Call /\ frame.addr = Top.addr /\ frame.to = Top.to
      /\ frame.pc = "mark"
  BY <1>1, <1>3 DEF Call
<1>5. /\ TopGoes(frame) /\ flash' = Erasing(c) /\ free' = free /\ sb' = sb
      /\ saves' = saves /\ mode' = "saving"
  BY <1>1 DEF FreeErases, counters
<1>6. /\ \A b \in Blocks : b # c => flash'[b] = flash[b]
      /\ flash'[c][0] = Erased
      /\ flash' \in Medium
  BY <1>2, <1>5, Quiet, StorageEffect, MediumType, Types
<1> HIDE DEF frame
<1> QED BY <1>1, <1>4, <1>5, <1>6, DescendStays

LEMMA FreeMarksChain ==
    ASSUME SuperBlockInv, ChainInv, FreeMarks PROVE ChainInv'
<1> DEFINE c == Top.addr.block
           frame == [Top EXCEPT !.pc = "done"]
<1>1. Top \in Call /\ Descends /\ mode = "saving" /\ Top.pc = "mark"
      /\ Top.link \in Links
  BY ActiveCall, FrameType DEF FreeMarks, Descends
<1>2. c \in Pool /\ c \in Blocks
  BY <1>1, DescendFacts, Types
<1>3. /\ frame \in Call /\ frame.addr = Top.addr /\ frame.to = Top.to
      /\ frame.pc = "done"
  BY <1>1 DEF Call
<1>4. /\ TopGoes(frame) /\ flash' = Programming(c, 0, Top.link)
      /\ free' = free \union {c} /\ sb' = sb
      /\ saves' = saves /\ mode' = "saving"
  BY <1>1 DEF FreeMarks, counters
<1>5. /\ \A b \in Blocks : b # c => flash'[b] = flash[b]
      /\ flash' \in Medium
  BY <1>1, <1>2, <1>4, Quiet, StorageEffect, MediumType
<1> HIDE DEF frame
<1> QED BY <1>1, <1>3, <1>4, <1>5, DescendStays

LEMMA FreeFailsChain ==
    ASSUME SuperBlockInv, ChainInv, FreeFails PROVE ChainInv'
<1> DEFINE c == Top.addr.block
           frame == [Top EXCEPT !.pc = "done"]
<1>1. Top \in Call /\ Descends /\ mode = "saving" /\ Top.pc \in {"free", "mark"}
      /\ Top.link \in Links
  BY ActiveCall, FrameType DEF FreeFails, Descends
<1>2. c \in Pool /\ c \in Blocks
  BY <1>1, DescendFacts, Types
<1>3. /\ frame \in Call /\ frame.addr = Top.addr /\ frame.to = Top.to
      /\ frame.pc = "done"
  BY <1>1 DEF Call
<1>4. /\ TopGoes(frame)
      /\ flash' \in {flash, Erasing(c), Programming(c, 0, Top.link)}
      /\ free' = free /\ sb' = sb
      /\ saves' = saves /\ mode' = "saving"
  BY <1>1 DEF FreeFails, Fault
<1>5. /\ \A b \in Blocks : b # c => flash'[b] = flash[b]
      /\ flash' \in Medium
  BY <1>1, <1>2, <1>4, Quiet, StorageEffect, MediumType
<1> HIDE DEF frame
<1> QED BY <1>1, <1>3, <1>4, <1>5, DescendStays

LEMMA RolloverReturnsChain ==
    ASSUME SuperBlockInv, ChainInv, RolloverReturns PROVE ChainInv'
<1>1. Descends /\ mode = "saving" /\ Len(calls) > 1
  BY ActiveCall DEF RolloverReturns, Descends
<1>2. PICK n \in {1, 2, 3, 4} : n = Len(calls)
  BY <1>1, DescendFacts
<1>3. /\ Volume /\ Formatted /\ calls \in Seq(Call)
      /\ \A i \in 1 .. n :
            /\ calls[i].to = Tip(4 - i)
            /\ calls[i].pc \in {"free", "mark"} => ~Chains(calls[i].addr.block)
      /\ LinkAt(flash, Tip(3)) = sb
  BY <1>1, <1>2, DescendFacts
<1>4. n - 1 \in {1, 2, 3} /\ 1 \in 1 .. n /\ n - 1 <= n
  BY <1>1, <1>2
<1>5. calls' = SubSeq(calls, 1, n - 1)
  BY <1>2 DEF RolloverReturns
<1>6. /\ Len(calls') = n - 1
      /\ \A i \in 1 .. n - 1 : calls'[i] = calls[i]
  BY <1>2, <1>3, <1>4, <1>5
<1>7. calls' # <<>> /\ Top' = calls[n - 1]
  <2>1. Top' = calls'[Len(calls')]
    BY DEF Top
  <2> QED BY <1>4, <1>6, <2>1
<1>8. Top'.pc = "free"
  BY <1>2, <1>4, <1>7 DEF SuperBlockInv, Waiting
<1>9. /\ flash' = flash /\ free' = free /\ sb' = sb /\ saves' = saves
      /\ mode' = "saving"
  BY <1>1 DEF RolloverReturns, counters
<1>10. KeepsChain
  BY <1>3, <1>9, NothingChanges
<1>11. Volume'
  BY <1>3, <1>9, <1>10, VolumeStays DEF Volume
<1>12. /\ \A k : Tip(k)' = Tip(k)
       /\ LinkAt(flash, Tip(3))' = sb'
  BY <1>3, <1>9, <1>10, KeptFacts DEF LinkAt
<1>13. ASSUME NEW i \in 1 .. n - 1
       PROVE  /\ calls'[i].to = Tip(4 - i)'
              /\ calls'[i].pc \in {"free", "mark"} => ~Chains(calls[i].addr.block)'
  <2>1. i \in 1 .. n /\ calls'[i] = calls[i]
    BY <1>4, <1>6
  <2>2. Chains(calls[i].addr.block)' <=> Chains(calls'[i].addr.block)
    BY <1>12 DEF Chains
  <2> QED BY <1>3, <1>12, <2>1, <2>2
<1>14. Descending'
  BY <1>4, <1>6, <1>8, <1>12, <1>13 DEF Descending
<1>15. Climbing' /\ Aiming'
  BY <1>8 DEF Climbing, Aiming, Climbs
<1>16. Saving'
  BY <1>7, <1>14, <1>15 DEF Saving
<1> QED BY <1>9, <1>11, <1>16, StillSaving

LEMMA SaveReturnsChain ==
    ASSUME SuperBlockInv, ChainInv, SaveReturns PROVE ChainInv'
<1>1. Descends /\ Len(calls) = 1
  BY ActiveCall DEF SaveReturns, Descends
<1>2. /\ Volume /\ Formatted /\ Top = calls[1] /\ calls[1].to = Tip(4 - 1)
      /\ LinkAt(flash, Tip(3)) = sb
  <2>1. 1 \in 1 .. Len(calls)
    BY <1>1
  <2> QED BY <1>1, <2>1, DescendFacts
<1>3. /\ location' = Tip(3) /\ mode' = "idle" /\ calls' = <<>> /\ outcome' = "ok"
      /\ flash' = flash /\ free' = free /\ sb' = sb /\ saves' = saves
  <2>1. 4 - 1 = 3
    OBVIOUS
  <2> QED BY <1>2, <2>1 DEF SaveReturns, Stop, counters
<1>4. KeepsChain
  BY <1>2, <1>3, NothingChanges
<1>5. Volume'
  BY <1>2, <1>3, <1>4, VolumeStays DEF Volume
<1>6. /\ Tip(3)' = Tip(3) /\ LinkAt(flash', Tip(3)) = sb
      /\ SuperStamp' = SuperStamp /\ SuperStamp = sb.timestamp
  BY <1>2, <1>4, KeptFacts DEF SuperStamp, StampAt, Levels
<1>7. Accurate' /\ Located'
  BY <1>3, <1>6 DEF Accurate, Located
<1>8. SuperStamp' <= sb'.timestamp
  <2>1. sb.timestamp \in Nat
    BY StampType
  <2> QED BY <1>3, <1>6, <2>1
<1>9. sb' = LinkAt(flash, Tip(3))'
  BY <1>3, <1>6 DEF LinkAt
<1>10. Resting'
  BY <1>7, <1>8, <1>9 DEF Resting
<1> QED BY <1>3, <1>5, <1>10, NowResting
-----------------------------------------------------------------------------
(* save() gives up. *)

LEMMA ClimbFails ==
    ASSUME SuperBlockInv, ChainInv, Climbs, SaveFails, KeepsChain,
           saves' = saves, faults' = faults \/ faults' # 0
    PROVE  ChainInv'
<1>1. /\ Volume /\ Formatted /\ Located /\ location \in Address
      /\ calls[1].link = sb /\ Len(calls) \in {1, 2, 3, 4}
  BY ClimbFacts
<1>2. /\ mode' = "idle" /\ calls' = <<>> /\ outcome' = "failed"
      /\ free' = free /\ sb' = sb /\ location' = location
  BY DEF SaveFails, Stop
<1>3. Volume'
  BY <1>1, <1>2, VolumeStays DEF Volume
<1>4. Located'
  BY <1>1, <1>2, LocatedStays
<1>5. SuperStamp' <= sb'.timestamp
  <2>1. 1 \in 1 .. Len(calls) /\ 4 - 1 = 3
    BY <1>1
  <2>2. StampAt(flash, Tip(3)) < sb.timestamp
    BY <1>1, <2>1, ClimbLinks
  <2>3. SuperStamp' = StampAt(flash, Tip(3))
    BY KeptFacts DEF SuperStamp
  <2>4. StampAt(flash, Tip(3)) \in Nat
    BY <1>1, FormattedFacts DEF Levels
  <2>5. sb.timestamp \in Nat
    BY StampType
  <2>6. \A x, y \in Nat : x < y => x <= y
    OBVIOUS
  <2>7. StampAt(flash, Tip(3)) <= sb.timestamp
    BY <2>2, <2>4, <2>5, <2>6
  <2> QED BY <1>2, <2>3, <2>7
<1>6. Resting'
  BY <1>2, <1>4, <1>5 DEF Resting
<1> QED BY <1>2, <1>3, <1>6, NowResting

LEMMA LinkLostChain ==
    ASSUME SuperBlockInv, ChainInv, LinkLost PROVE ChainInv'
<1>1. Climbs
  BY ActiveCall DEF LinkLost, Climbs
<1>2. SaveFails /\ flash' = flash /\ saves' = saves /\ faults' = faults
  BY DEF LinkLost, counters
<1>3. KeepsChain
  BY <1>1, <1>2, ClimbFacts, NothingChanges
<1> QED BY <1>1, <1>2, <1>3, ClimbFails

LEMMA FaultCounts ==
    ASSUME SuperBlockInv, Fault PROVE faults' # 0 /\ saves' = saves
<1>1. faults \in Nat
  BY DEF SuperBlockInv, TypeOK
<1> QED BY <1>1 DEF Fault

LEMMA EraseFailsChain ==
    ASSUME SuperBlockInv, ChainInv, EraseFails PROVE ChainInv'
<1> DEFINE c == Top.to.block
<1>1. Climbs /\ Top.pc = "erase"
  BY ActiveCall DEF EraseFails, Climbs
<1>2. SaveFails /\ flash' \in {flash, Erasing(c)} /\ saves' = saves /\ faults' # 0
  BY FaultCounts DEF EraseFails
<1>3. c \in Blocks /\ ~Chains(c)
  BY <1>1, TargetIsSpared
<1>4. Formatted
  BY <1>1, ClimbFacts
<1>5. KeepsChain
  <2>1. CASE flash' = flash
    BY <1>4, <2>1, NothingChanges
  <2>2. CASE flash' = Erasing(c)
    <3>1. /\ \A b \in Blocks : b # c => flash'[b] = flash[b]
          /\ \A s \in Sectors : flash'[c][s] = Erased
          /\ flash' \in Medium
      BY <1>3, <2>2, Quiet, StorageEffect, MediumType
    <3> QED BY <1>3, <1>4, <3>1, ChainStays
  <2> QED BY <1>2, <2>1, <2>2
<1> QED BY <1>1, <1>2, <1>5, ClimbFails

(* The write that was to switch did so, and was reported as failed.         *)
LEMMA SwitchFails ==
    ASSUME SuperBlockInv, ChainInv, OneLife, WriteFails, ~Moved(Top),
           flash' = Programming(Top.to.block, Top.to.sector, Top.link)
    PROVE  ChainInv'
<1>0. PICK n \in {1, 2, 3, 4} : n = Len(calls)
  BY ActiveCall, ClimbFacts DEF WriteFails, Climbs
<1>1. Climbs /\ Top.pc = "write" /\ Running("write")
  BY ActiveCall DEF WriteFails, Climbs
<1>2. /\ Volume /\ Formatted /\ location \in Address /\ Top = calls[n]
      /\ calls[1].addr = location
      /\ Top.addr.block \in Anchors <=> n = 4
  BY <1>0, <1>1, ClimbFacts
<1>3. /\ mode' = "idle" /\ calls' = <<>> /\ outcome' = "failed"
      /\ free' = free /\ sb' = sb /\ location' = location
      /\ saves' = saves /\ faults' # 0
  BY FaultCounts DEF WriteFails, SaveFails, Stop
<1>4. /\ Volume'
      /\ SuperStamp' = sb.timestamp
      /\ \A i \in 1 .. n : Tip(4 - i)' = calls[i].to
      /\ \A i \in 1 .. n - 1, k \in Levels : calls[i].addr.block # Tip(k)'.block
  BY <1>0, <1>1, <1>3, SwitchedVolume
<1>5. ASSUME n = 1 PROVE Located'
  <2>1. Top.to = At(Top.addr.block, Top.addr.sector + 1)
    BY <1>1, <1>2, <1>5 DEF ChainInv, Saving, Aiming
  <2>2. Tip(3)' = Top.to /\ Top.addr = location
    <3>1. 1 \in 1 .. n /\ 4 - 1 = 3
      BY <1>5
    <3> QED BY <1>2, <1>4, <1>5, <3>1
  <2>3. Behind'
    BY <1>3, <2>1, <2>2 DEF Behind, At
  <2> QED BY <1>3, <2>3 DEF Located
<1>6. ASSUME n \in {2, 3, 4} PROVE Located'
  <2>1. 1 \in 1 .. n - 1 /\ 1 \in 1 .. Len(calls) /\ 1 < Len(calls)
    BY <1>0, <1>6
  <2>2. Full(location)
    BY <1>1, <1>2, <2>1, ClimbLinks
  <2>3. location.block \in Pool \ free
    BY <1>1, <1>2, ClimbFacts, LocatedFacts
  <2>4. ~Chains(location.block)'
    BY <1>2, <1>3, <1>4, <2>1 DEF Chains
  <2>5. Astray'
    BY <1>3, <2>2, <2>3, <2>4 DEF Astray, Full, Chains
  <2> QED BY <1>3, <2>5 DEF Located
<1>7. Located'
  BY <1>5, <1>6
<1>8. SuperStamp' <= sb'.timestamp
  <2>1. sb.timestamp \in Nat
    BY StampType
  <2> QED BY <1>3, <1>4, <2>1
<1>9. Resting'
  BY <1>3, <1>7, <1>8 DEF Resting
<1> QED BY <1>3, <1>4, <1>9, NowResting

LEMMA WriteFailsChain ==
    ASSUME SuperBlockInv, ChainInv, OneLife, WriteFails PROVE ChainInv'
<1> DEFINE c == Top.to.block
<1>1. Climbs /\ Top.pc = "write" /\ Top.link \in Links
  BY ActiveCall, FrameType DEF WriteFails, Climbs
<1>2. /\ SaveFails /\ saves' = saves /\ faults' # 0
      /\ flash' \in {flash, Programming(Top.to.block, Top.to.sector, Top.link)}
  BY FaultCounts DEF WriteFails
<1>3. Formatted
  BY <1>1, ClimbFacts
<1>4. CASE flash' = flash
  <2>1. KeepsChain
    BY <1>3, <1>4, NothingChanges
  <2> QED BY <1>1, <1>2, <2>1, ClimbFails
<1>5. CASE flash' = Programming(c, Top.to.sector, Top.link) /\ Moved(Top)
  <2>1. c \in Blocks /\ c \in Pool /\ ~Chains(c)
    BY <1>1, <1>5, TargetIsSpared
  <2>2. /\ \A b \in Blocks : b # c => flash'[b] = flash[b]
        /\ flash' \in Medium
    BY <1>1, <1>5, <2>1, Quiet, StorageEffect, MediumType
  <2>3. KeepsChain
    BY <1>3, <2>1, <2>2, ChainStays
  <2> QED BY <1>1, <1>2, <2>3, ClimbFails
<1>6. CASE flash' = Programming(c, Top.to.sector, Top.link) /\ ~Moved(Top)
  BY <1>6, SwitchFails
<1> QED BY <1>2, <1>4, <1>5, <1>6
-----------------------------------------------------------------------------
(* The loss of power. *)

(* No erase that is about to happen is of a block of the chain. *)
LEMMA DoomedIsSpared ==
    ASSUME SuperBlockInv, ChainInv, Formatted, NEW b \in Doomed
    PROVE  b \in Blocks /\ ~Chains(b)
<1>1. CASE Running("erase")
  <2>1. Climbs /\ Top.pc = "erase" /\ b = Top.to.block
    BY <1>1, ActiveCall DEF Doomed, Climbs
  <2> QED BY <2>1, TargetIsSpared
<1>2. CASE Running("free") /\ ~Running("erase")
  <2>1. Descends /\ Top.pc = "free" /\ b = Top.addr.block
    BY <1>2, ActiveCall DEF Doomed, Descends
  <2> QED BY <2>1, DescendFacts, Types
<1>3. CASE ~Running("erase") /\ ~Running("free")
  <2>1. Creating("erase")
    BY <1>3 DEF Doomed
  <2>2. Unformatted
    BY <2>1 DEF ChainInv, Creating
  <2> QED BY <2>2, EitherFormattedOrNot DEF ChainInv
<1> QED BY <1>1, <1>2, <1>3

LEMMA NotBoth ==
    ASSUME flash' \in Medium, Unformatted' PROVE ~Formatted'
<1> SUFFICES ASSUME Formatted' PROVE FALSE
  OBVIOUS
<1> DEFINE at == Tips(flash')
<1>1. IsChain(flash', at)
  BY DEF Formatted
<1> HIDE DEF at
<1>2. /\ at[3].block \in Blocks /\ at[3].sector \in Sectors
      /\ Programmed(flash', at[3].block, at[3].sector)
  BY <1>1, ChainFacts DEF Levels
<1>3. flash'[at[3].block][at[3].sector].chained = NoBlock
  BY <1>1 DEF IsChain, LinkAt
<1> QED BY <1>2, <1>3 DEF Unformatted

(* Without a volume, little is promised of it. *)
LEMMA UnformattedVolume ==
    ASSUME flash' \in Medium, Unformatted', mode' \notin {"idle", "saving"},
           sb'.type = "SuperBlock", sb'.timestamp <= 5 + saves', saves' <= MaxSaves
    PROVE  Volume'
  BY NotBoth DEF Volume

LEMMA ResetChain ==
    ASSUME SuperBlockInv, ChainInv, NEW fl \in Medium, ResetTo(fl), saves' = saves,
           KeepsChain \/ Unformatted'
    PROVE  ChainInv'
<1>1. /\ flash' = fl /\ free' = {b \in Pool : ~IsTaken(fl, b)}
      /\ sb' = Link("SuperBlock", 0, NoBlock, Nothing)
      /\ mode' = "down" /\ calls' = <<>>
  BY DEF ResetTo, Stop
<1>2. /\ sb'.type = "SuperBlock" /\ sb'.timestamp = 0
      /\ saves \in Nat /\ saves <= MaxSaves
  BY <1>1 DEF Link, SuperBlockInv, TypeOK, ChainInv, Volume
<1>3. sb'.timestamp <= 5 + saves'
  BY <1>2
<1>4. CASE KeepsChain
  <2>1. Formatted' /\ Formatted /\ SuperStamp' = SuperStamp
    BY <1>4, KeptFacts
  <2>2. \A k \in 1 .. 3 : Tip(k)'.block \notin free'
    <3>1. \A k \in 1 .. 3 : IsTaken(flash', Tips(flash')[k].block)
      BY <2>1 DEF Formatted, IsChain
    <3> QED BY <1>1, <3>1 DEF Tip
  <2>3. SuperStamp' <= 5 + saves'
    BY <2>1 DEF ChainInv, Volume
  <2>4. Volume'
    BY <1>1, <1>2, <1>3, <2>1, <2>2, <2>3 DEF Volume
  <2> QED BY <1>1, <2>4, NowDown
<1>5. CASE Unformatted'
  <2>1. Volume'
    BY <1>1, <1>2, <1>3, <1>5, UnformattedVolume
  <2> QED BY <1>1, <2>1, NowDown
<1> QED BY <1>4, <1>5

LEMMA StandsStill ==
    ASSUME SuperBlockInv, ChainInv, flash' = flash
    PROVE  KeepsChain \/ Unformatted'
<1>1. CASE Formatted
  BY <1>1, NothingChanges
<1>2. CASE Unformatted
  BY <1>2, UnformattedStays
<1> QED BY <1>1, <1>2 DEF ChainInv, Volume

LEMMA OutOfBlocksChain ==
    ASSUME SuperBlockInv, ChainInv, OutOfBlocks PROVE ChainInv'
<1>1. ResetTo(flash) /\ flash \in Medium /\ saves' = saves /\ flash' = flash
  BY Quiet DEF OutOfBlocks, ResetTo, counters
<1> QED BY <1>1, StandsStill, ResetChain

LEMMA CrashChain ==
    ASSUME SuperBlockInv, ChainInv, Crash PROVE ChainInv'
<1>1. ResetTo(flash) /\ flash \in Medium /\ saves' = saves /\ flash' = flash
  BY Quiet DEF Crash, ResetTo
<1> QED BY <1>1, StandsStill, ResetChain

LEMMA CutErase ==
    ASSUME SuperBlockInv, NEW c, NEW kept,
           flash' = PartlyErasing(c, kept)
    PROVE  /\ flash' \in Medium
           /\ \A b \in Blocks : b # c => flash'[b] = flash[b]
           /\ \A b \in Blocks, s \in Sectors : flash'[b][s] \in {flash[b][s], Erased}
<1>1. flash \in Medium /\ flash' \in Medium
  BY Quiet, MediumType
<1>2. \A b \in Blocks :
          flash'[b] = IF b = c THEN [s \in Sectors |->
                                       IF s \in kept THEN flash[c][s] ELSE Erased]
                               ELSE flash[b]
  BY <1>1 DEF PartlyErasing, Medium
<1>3. ASSUME NEW b \in Blocks, NEW s \in Sectors
      PROVE  flash'[b][s] \in {flash[b][s], Erased}
  <2>1. CASE b = c
    <3>1. flash'[b][s] = IF s \in kept THEN flash[b][s] ELSE Erased
      BY <1>2, <2>1
    <3> QED BY <3>1
  <2>2. CASE b # c
    BY <1>2, <2>2
  <2> QED BY <2>1, <2>2
<1> QED BY <1>1, <1>2, <1>3

LEMMA CrashInEraseChain ==
    ASSUME SuperBlockInv, ChainInv, CrashInErase PROVE ChainInv'
<1>1. saves' = saves
  BY DEF CrashInErase
<1>2. PICK c \in Doomed, kept \in SUBSET Sectors : ResetTo(PartlyErasing(c, kept))
  BY DEF CrashInErase
<1>3. flash' = PartlyErasing(c, kept)
  BY <1>2 DEF ResetTo
<1>4. /\ flash' \in Medium
      /\ \A b \in Blocks : b # c => flash'[b] = flash[b]
      /\ \A b \in Blocks, s \in Sectors : flash'[b][s] \in {flash[b][s], Erased}
  BY <1>3, CutErase
<1>5. KeepsChain \/ Unformatted'
  <2>1. CASE Formatted
    <3>1. c \in Blocks /\ ~Chains(c)
      BY <2>1, DoomedIsSpared
    <3> QED BY <1>4, <2>1, <3>1, ChainStays
  <2>2. CASE Unformatted
    BY <1>4, <2>2, UnformattedStays
  <2> QED BY <2>1, <2>2 DEF ChainInv, Volume
<1> QED BY <1>1, <1>2, <1>3, <1>4, <1>5, ResetChain
-----------------------------------------------------------------------------
(* save() begins, and locate() has found the super block. *)

LEMMA Mounts ==
    ASSUME SuperBlockInv, ChainInv, Formatted, flash' = flash, free' = free,
           location' = Super(flash).where, sb' = Super(flash).link,
           mode' = "idle", calls' = <<>>, saves' = saves
    PROVE  ChainInv'
<1>1. Super(flash) = Reading(flash, Tip(3))
  BY FormattedIsWalked
<1>2. location' = Tip(3) /\ sb' = LinkAt(flash, Tip(3))
  BY <1>1 DEF Reading
<1>3. KeepsChain
  BY NothingChanges
<1>4. /\ Formatted' /\ \A k : Tip(k)' = Tip(k)
      /\ SuperStamp' = SuperStamp
  BY <1>3, KeptFacts
<1>5. /\ sb'.type = "SuperBlock" /\ sb'.timestamp = SuperStamp
      /\ SuperStamp \in Nat
  BY <1>2, FormattedFacts DEF Levels, TypeAt, SuperStamp, StampAt
<1>6. /\ \A k \in 1 .. 3 : Tip(k).block \notin free
      /\ SuperStamp <= 5 + saves /\ saves <= MaxSaves
  BY DEF ChainInv, Volume
<1>7. Volume'
  BY <1>4, <1>5, <1>6 DEF Volume
<1>8. Accurate' /\ sb' = LinkAt(flash, Tip(3))'
  BY <1>2, <1>4 DEF Accurate, LinkAt
<1>9. SuperStamp' <= sb'.timestamp
  BY <1>4, <1>5
<1>10. Resting'
  BY <1>8, <1>9 DEF Resting, Located
<1> QED BY <1>7, <1>10, NowResting

LEMMA MountChain == ASSUME SuperBlockInv, ChainInv, Mount PROVE ChainInv'
<1>1. Formatted
  BY EitherFormattedOrNot DEF ChainInv, Mount
<1>2. /\ flash' = flash /\ free' = free
      /\ location' = Super(flash).where /\ sb' = Super(flash).link
      /\ mode' = "idle" /\ calls' = <<>> /\ saves' = saves
  BY Quiet DEF Mount, counters
<1> QED BY <1>1, <1>2, Mounts

LEMMA SaveChain == ASSUME SuperBlockInv, ChainInv, OneLife, Save PROVE ChainInv'
<1> DEFINE record == [sb EXCEPT !.timestamp = NextStamp(@), !.value = saves + 1]
           frame == Entering(location, record)
<1>1. /\ Volume /\ Formatted /\ Located /\ SuperStamp <= sb.timestamp
      /\ location \in Address /\ saves < MaxSaves /\ mode = "idle"
  BY DEF Save, ChainInv, Volume, Resting, SuperBlockInv, Control
<1>2. /\ sb' = record /\ calls' = <<frame>> /\ mode' = "saving"
      /\ saves' = saves + 1 /\ flash' = flash /\ free' = free
      /\ location' = location /\ faults' = faults
  BY DEF Save
<1>3. /\ sb \in Links /\ sb.timestamp \in Nat /\ sb.timestamp < TimestampInvalid
      /\ saves \in Nat /\ sb.timestamp <= 5 + saves
  BY <1>1, NoWrap, Quiet
<1>4. /\ record.type = sb.type /\ record.timestamp = sb.timestamp + 1
  <2>1. NextStamp(sb.timestamp) = sb.timestamp + 1
    BY <1>3 DEF NextStamp
  <2> QED BY <1>3, <2>1 DEF Links
<1>5. frame.addr = location /\ frame.link = record /\ frame.pc = "enter"
  BY DEF Entering
<1> HIDE DEF record, frame
<1>6. /\ calls' # <<>> /\ Len(calls') = 1 /\ calls'[1] = frame /\ Top' = frame
  <2>1. Len(<<frame>>) = 1 /\ <<frame>>[1] = frame
    OBVIOUS
  <2> QED BY <1>2, <2>1 DEF Top
<1>7. KeepsChain
  BY <1>1, <1>2, NothingChanges
<1>8. /\ Formatted' /\ \A k : Tip(k)' = Tip(k)
      /\ StampAt(flash', Tip(3)) = SuperStamp
      /\ SuperStamp' = SuperStamp
  BY <1>7, KeptFacts DEF SuperStamp, Levels
<1>9. SuperStamp \in Nat
  BY <1>1, FormattedFacts DEF SuperStamp, Levels
<1>10. Volume'
  <2>1. \A k \in 1 .. 3 : Tip(k).block \notin free
    BY <1>1 DEF Volume
  <2>2. sb.type = "SuperBlock" /\ SuperStamp <= 5 + saves
    BY <1>1 DEF Volume
  <2>3. /\ SuperStamp <= 5 + (saves + 1) /\ sb.timestamp + 1 <= 5 + (saves + 1)
        /\ saves + 1 <= MaxSaves
    BY <1>1, <1>3, <1>9, <2>2, BoundsAssumption
  <2> QED BY <1>2, <1>4, <1>8, <2>1, <2>2, <2>3 DEF Volume
<1>11. Located' /\ (Astray' <=> Astray)
  BY <1>1, <1>2, <1>7, LocatedStays
<1>12. Climbing'
  <2>1. \A i \in 1 .. Len(calls') : i = 1
    BY <1>6
  <2>2. frame.link.type = TypeAt(4 - 1)
    BY <1>1, <1>4, <1>5 DEF Volume, TypeAt
  <2>3. StampAt(flash, Tip(4 - 1))' < frame.link.timestamp
    <3>1. SuperStamp < sb.timestamp + 1
      BY <1>1, <1>3, <1>9
    <3>2. StampAt(flash, Tip(4 - 1))' = SuperStamp
      BY <1>8
    <3> QED BY <1>4, <1>5, <3>1, <3>2
  <2>4. ~Leaves(1)'
    BY <1>5, <1>6 DEF Leaves
  <2>5. ~(1 > 1)
    OBVIOUS
  <2>6. Len(calls') <= 4
    BY <1>6
  <2> QED BY <1>2, <1>5, <1>6, <1>11, <2>1, <2>2, <2>3, <2>4, <2>5, <2>6 DEF Climbing
<1>13. Aiming' /\ Descending'
  BY <1>5, <1>6 DEF Aiming, Descending, Descends
<1>14. Saving'
  BY <1>6, <1>12, <1>13 DEF Saving
<1> QED BY <1>2, <1>10, <1>14, StillSaving

-----------------------------------------------------------------------------
(* create() *)

LEMMA NowCreating ==
    ASSUME mode' = "creating", calls' = <<>>, Volume', CreationInv',
           creation'.pc # "locate" => Unformatted'
    PROVE  ChainInv'
  BY DEF ChainInv, Resting, Saving, Climbing, Aiming, Descending, Climbs, Descends

(* What holds until the last write of create(). *)
LEMMA NotYetFormatted ==
    ASSUME SuperBlockInv, ChainInv, mode = "creating", creation.pc # "locate"
    PROVE  /\ Unformatted /\ calls = <<>> /\ flash \in Medium /\ Preparing
           /\ sb.type = "SuperBlock" /\ sb.timestamp <= 5 + saves
           /\ saves <= MaxSaves /\ saves \in Nat
           /\ creation.level \in 0 .. 5 /\ creation.pc \in CreationSteps
  BY Quiet, CreationFacts
  DEF ChainInv, Volume, CreationInv, Preparing, SuperBlockInv, TypeOK

LEMMA CreateChain ==
    ASSUME SuperBlockInv, ChainInv, OneLife, Create, CreationInv' PROVE ChainInv'
<1>1. formats \in Nat /\ ~(formats < MaxFormats)
  BY DEF OneLife, SuperBlockInv, TypeOK
<1>2. Unformatted
  BY <1>1, EitherFormattedOrNot DEF Create, ChainInv
<1>3. /\ mode' = "creating" /\ calls' = <<>> /\ flash' = flash /\ saves' = saves
      /\ sb' = Link("SuperBlock", 0, NoBlock, 0)
  BY Quiet DEF Create
<1>4. sb'.type = "SuperBlock" /\ sb'.timestamp = 0 /\ saves \in Nat /\ saves <= MaxSaves
  BY <1>3 DEF Link, ChainInv, Volume, SuperBlockInv, TypeOK
<1>5. sb'.timestamp <= 5 + saves'
  BY <1>3, <1>4
<1>6. Unformatted'
  BY <1>2, <1>3, UnformattedStays
<1>7. Volume'
  BY <1>3, <1>4, <1>5, <1>6, Quiet, UnformattedVolume
<1> QED BY <1>3, <1>6, <1>7, NowCreating

LEMMA CreateAllocatesChain ==
    ASSUME SuperBlockInv, ChainInv, NEW b \in Pool, CreateAllocates(b), CreationInv'
    PROVE  ChainInv'
<1>1. mode = "creating" /\ creation.pc # "locate"
  BY DEF CreateAllocates, Creating
<1>2. /\ Unformatted /\ calls = <<>> /\ flash \in Medium
      /\ sb.type = "SuperBlock" /\ sb.timestamp <= 5 + saves /\ saves <= MaxSaves
  BY <1>1, NotYetFormatted
<1>3. /\ flash' = flash /\ sb' = sb /\ saves' = saves /\ calls' = calls /\ mode' = mode
  BY DEF CreateAllocates, counters
<1>4. Unformatted'
  BY <1>2, <1>3, UnformattedStays
<1>5. Volume'
  BY <1>1, <1>2, <1>3, <1>4, UnformattedVolume
<1> QED BY <1>1, <1>2, <1>3, <1>4, <1>5, NowCreating

LEMMA CreateErasesChain ==
    ASSUME SuperBlockInv, ChainInv, CreateErases, CreationInv' PROVE ChainInv'
<1>1. mode = "creating" /\ creation.pc # "locate"
  BY DEF CreateErases, Creating
<1>2. /\ Unformatted /\ calls = <<>> /\ flash \in Medium
      /\ sb.type = "SuperBlock" /\ sb.timestamp <= 5 + saves /\ saves <= MaxSaves
      /\ saves \in Nat
  BY <1>1, NotYetFormatted
<1>3. /\ flash' = Erasing(creation.block)
      /\ sb' = sb \/ sb' = Link("SuperBlock", CreationStamp(0), NoBlock, sb.value)
      /\ saves' = saves /\ calls' = calls /\ mode' = mode
  BY DEF CreateErases, counters
<1>4. /\ flash' \in Medium
      /\ \A b \in Blocks, s \in Sectors : flash'[b][s] \in {flash[b][s], Erased}
  BY <1>2, <1>3, MediumType DEF Medium, Erasing
<1>5. Unformatted'
  BY <1>2, <1>4, UnformattedStays
<1>6. sb'.type = "SuperBlock" /\ sb'.timestamp <= 5 + saves
  BY <1>2, <1>3 DEF Link, CreationStamp
<1>7. Volume'
  BY <1>1, <1>2, <1>3, <1>4, <1>5, <1>6, UnformattedVolume
<1> QED BY <1>1, <1>2, <1>3, <1>5, <1>7, NowCreating

(* Every link that create() writes before the super block names a block.    *)
LEMMA WriteLeavesUnformatted ==
    ASSUME SuperBlockInv, ChainInv, Creating("write"), creation.level # 5,
           flash' = Programming(creation.block, 0, CreationLink)
    PROVE  Unformatted'
<1>1. /\ Unformatted /\ flash \in Medium /\ Preparing
      /\ creation.level \in {1, 2, 3, 4}
  <2>1. /\ Unformatted /\ flash \in Medium /\ Preparing
        /\ creation.level \in 0 .. 5 /\ creation.pc \in CreationSteps
    BY NotYetFormatted DEF Creating
  <2>2. creation.level # 0
    BY <2>1 DEF CreationSteps, Creating
  <2> QED BY <2>1, <2>2
<1>2. creation.chained \in Pool
  BY <1>1 DEF Preparing, Link1, Link2
<1>3. CreationLink.chained # NoBlock
  BY <1>2, Types DEF CreationLink, Link
<1>4. \A b \in Blocks, s \in Sectors : flash'[b][s] \in {flash[b][s], CreationLink}
  BY <1>1 DEF Medium, Programming
<1> QED BY <1>1, <1>3, <1>4 DEF Unformatted, Programmed

(* The last write of create() completes the chain. *)
LEMMA LastWrite ==
    ASSUME SuperBlockInv, ChainInv, Creating("write"), creation.level = 5,
           flash' = Programming(creation.block, 0, CreationLink), free' = free
    PROVE  /\ flash' \in Medium /\ Formatted'
           /\ \A k \in 1 .. 3 : Tip(k)'.block \notin free'
           /\ SuperStamp' = 5 /\ LinkAt(flash, Tip(3))' = sb
<1> DEFINE link1 == Link1
           link2 == Link2
           super == creation.super
           at == Prepared(link2, link1, super)
<1>1. /\ flash \in Medium /\ Preparing /\ creation.pc = "write"
      /\ sb \in Links /\ sb.chained = NoBlock
  BY Quiet, NotYetFormatted DEF Creating
<1>2. /\ creation.block = super
      /\ super \in Pool \ free /\ Blank(super)
      /\ sb.type = "SuperBlock" /\ sb.timestamp = 5
      /\ link1 \in Pool \ free /\ link1 # super
      /\ OnlyHolds(link1, Link("SuperBlockLink", 4, super, Nothing))
      /\ link2 \in Pool \ free /\ link2 \notin {super, link1}
      /\ OnlyHolds(link2, Link("SuperBlockLink", 3, link1, Nothing))
      /\ OnlyHolds(Anchor1, Link("Anchor", 2, link2, Nothing))
      /\ OnlyHolds(Anchor2, Link("Anchor", 1, link2, Nothing))
  BY <1>1 DEF Preparing, InPreparation
<1> HIDE DEF link1, link2, super
<1>3. super \in Blocks /\ link1 \in Blocks /\ link2 \in Blocks
      /\ Anchor1 \in Blocks /\ Anchor2 \in Blocks /\ super # Anchor1 /\ super # Anchor2
  BY <1>2, CreationFacts
<1>4. CreationLink = sb
  BY DEF CreationLink
<1>5. flash' = Programming(super, 0, sb) /\ flash' \in Medium
  BY <1>1, <1>2, <1>4, MediumType
<1>6. \A b \in Blocks : b # super => flash'[b] = flash[b]
  BY <1>1, <1>3, <1>5, StorageEffect
<1>7. flash'[super] = Row(sb)
  <2>1. flash'[super] = [flash[super] EXCEPT ![0] = sb]
    <3>1. Programming(super, 0, sb)[super] = [flash[super] EXCEPT ![0] = sb]
      BY <1>1, <1>3 DEF Programming, Medium
    <3> QED BY <1>5, <3>1
  <2>3. flash[super] \in [Sectors -> Links \union {Erased}]
    BY <1>1, <1>3, StorageEffect
  <2>2. \A s \in Sectors : flash[super][s] = Erased
    BY <1>2 DEF Blank
  <2> QED BY <2>1, <2>2, <2>3 DEF Row
<1>8. /\ flash'[Anchor1] = Row(Link("Anchor", 2, link2, Nothing))
      /\ flash'[Anchor2] = Row(Link("Anchor", 1, link2, Nothing))
      /\ flash'[link2] = Row(Link("SuperBlockLink", 3, link1, Nothing))
      /\ flash'[link1] = Row(Link("SuperBlockLink", 4, super, Nothing))
  BY <1>2, <1>3, <1>6 DEF OnlyHolds, Row
<1>9. /\ IsChain(flash', at)
      /\ at[1] = At(link2, 0) /\ at[2] = At(link1, 0)
      /\ at[3] = At(super, 0) /\ LinkAt(flash', at[3]) = sb
  BY <1>1, <1>2, <1>5, <1>7, <1>8, RowsMakeChain
<1> HIDE DEF at
<1>10. Tips(flash') = at /\ Formatted'
  BY <1>5, <1>9, ChainIsWalked DEF Formatted
<1>11. \A k \in 1 .. 3 : Tip(k)'.block \notin free'
  <2>1. \A k \in 1 .. 3 : k = 1 \/ k = 2 \/ k = 3
    OBVIOUS
  <2> QED BY <1>2, <1>9, <1>10, <2>1 DEF Tip, At
<1>12. SuperStamp' = 5 /\ LinkAt(flash, Tip(3))' = sb
  BY <1>2, <1>9, <1>10 DEF SuperStamp, StampAt, Tip, LinkAt
<1> QED BY <1>5, <1>10, <1>11, <1>12

LEMMA LastWriteVolume ==
    ASSUME SuperBlockInv, ChainInv, Creating("write"), creation.level = 5,
           flash' = Programming(creation.block, 0, CreationLink),
           free' = free, sb' = sb, saves' = saves
    PROVE  Volume'
<1>1. /\ Formatted' /\ \A k \in 1 .. 3 : Tip(k)'.block \notin free'
      /\ SuperStamp' = 5
  BY LastWrite
<1>2. /\ sb.type = "SuperBlock" /\ sb.timestamp <= 5 + saves
      /\ saves <= MaxSaves /\ saves \in Nat
  BY NotYetFormatted DEF Creating
<1>3. SuperStamp' <= 5 + saves
  BY <1>1, <1>2
<1> QED BY <1>1, <1>2, <1>3 DEF Volume

LEMMA CreateWritesChain ==
    ASSUME SuperBlockInv, ChainInv, CreateWrites, CreationInv' PROVE ChainInv'
<1>1. /\ mode = "creating" /\ creation.pc = "write" /\ Creating("write")
  BY DEF CreateWrites, Creating
<1>2. /\ Unformatted /\ calls = <<>> /\ flash \in Medium
      /\ sb.type = "SuperBlock" /\ sb.timestamp <= 5 + saves /\ saves <= MaxSaves
      /\ creation.level \in 0 .. 5
  BY <1>1, NotYetFormatted
<1>3. /\ flash' = Programming(creation.block, 0, CreationLink)
      /\ free' = free /\ sb' = sb /\ saves' = saves /\ calls' = calls /\ mode' = mode
  BY DEF CreateWrites, counters
<1>4. flash' \in Medium
  BY <1>2, <1>3, MediumType, CreationLinkType
<1>5. CASE creation.level = 5
  <2>1. creation'.pc = "locate"
    BY <1>5, CreationFacts DEF CreateWrites, Creation
  <2>2. Volume'
    BY <1>1, <1>3, <1>5, LastWriteVolume
  <2> QED BY <1>1, <1>2, <1>3, <2>1, <2>2, NowCreating
<1>6. CASE creation.level # 5
  <2>1. Unformatted'
    BY <1>1, <1>3, <1>6, WriteLeavesUnformatted
  <2>2. Volume'
    BY <1>1, <1>2, <1>3, <1>4, <2>1, UnformattedVolume
  <2> QED BY <1>1, <1>2, <1>3, <2>1, <2>2, NowCreating
<1> QED BY <1>5, <1>6

(* create() finds what it has written. *)
LEMMA LocateFormatted ==
    ASSUME SuperBlockInv, ChainInv, Creating("locate")
    PROVE  Formatted /\ LinkAt(flash, Tip(3)) = sb
<1> DEFINE at == Prepared(Link2, Link1, creation.super)
<1>1. Preparing /\ creation.pc = "locate" /\ flash \in Medium
  BY Quiet DEF Creating, ChainInv, CreationInv
<1>2. IsChain(flash, at) /\ LinkAt(flash, at[3]) = sb
  BY <1>1, PreparedChain
<1> HIDE DEF at
<1>3. Tips(flash) = at
  BY <1>1, <1>2, ChainIsWalked
<1> QED BY <1>2, <1>3 DEF Formatted, Tip

LEMMA CreateLocatesChain ==
    ASSUME SuperBlockInv, ChainInv, CreateLocates PROVE ChainInv'
<1>1. Formatted
  BY LocateFormatted DEF CreateLocates
<1>2. Found(Super(flash))
  BY <1>1, FormattedIsWalked
<1>3. /\ flash' = flash /\ free' = free
      /\ location' = Super(flash).where /\ sb' = Super(flash).link
      /\ mode' = "idle" /\ calls' = <<>> /\ saves' = saves
  BY <1>2 DEF CreateLocates, Stop, counters
<1> QED BY <1>1, <1>3, Mounts

LEMMA CreateFailsChain ==
    ASSUME SuperBlockInv, ChainInv, CreateFails PROVE ChainInv'
<1>1. /\ mode = "creating" /\ creation.pc \in {"erase", "write"}
      /\ creation.pc = "erase" => flash' \in {flash, Erasing(creation.block)}
      /\ creation.pc = "write" =>
            flash' \in {flash, Programming(creation.block, 0, CreationLink)}
  BY DEF CreateFails, Creating
<1>2. /\ Unformatted /\ flash \in Medium
      /\ sb.type = "SuperBlock" /\ sb.timestamp <= 5 + saves /\ saves <= MaxSaves
  BY <1>1, NotYetFormatted
<1>3. /\ mode' = "down" /\ calls' = <<>> /\ free' = free /\ sb' = sb /\ saves' = saves
  BY DEF CreateFails, Stop, Fault
<1>4. flash' \in Medium
  BY <1>1, <1>2, MediumType, CreationLinkType
<1>5. CASE \A b \in Blocks, s \in Sectors : flash'[b][s] \in {flash[b][s], Erased}
  <2>1. Unformatted'
    BY <1>2, <1>5, UnformattedStays
  <2>2. Volume'
    BY <1>2, <1>3, <1>4, <2>1, UnformattedVolume
  <2> QED BY <1>3, <2>2, NowDown
<1>6. CASE creation.pc = "write" /\ flash' = Programming(creation.block, 0, CreationLink)
  <2>1. Creating("write")
    BY <1>1, <1>6 DEF Creating
  <2>2. CASE creation.level = 5
    <3>1. Volume'
      BY <1>3, <1>6, <2>1, <2>2, LastWriteVolume
    <3> QED BY <1>3, <3>1, NowDown
  <2>3. CASE creation.level # 5
    <3>1. Unformatted'
      BY <1>6, <2>1, <2>3, WriteLeavesUnformatted
    <3>2. Volume'
      BY <1>2, <1>3, <1>4, <3>1, UnformattedVolume
    <3> QED BY <1>3, <3>2, NowDown
  <2> QED BY <2>2, <2>3
<1>7. \A b : \A x \in Blocks, s \in Sectors : Erasing(b)[x][s] \in {flash[x][s], Erased}
  BY <1>2 DEF Medium, Erasing
<1> QED BY <1>1, <1>5, <1>6, <1>7
-----------------------------------------------------------------------------
(* ChainInv is an invariant. *)

LEMMA ChainStutters ==
    ASSUME ChainInv, UNCHANGED vars PROVE ChainInv'
<1>1. /\ flash' = flash /\ free' = free /\ sb' = sb /\ location' = location
      /\ mode' = mode /\ calls' = calls /\ creation' = creation
      /\ outcome' = outcome /\ saves' = saves /\ faults' = faults
  BY DEF vars, counters
<1>2. \A k : Tip(k)' = Tip(k)
  BY <1>1 DEF Tip
<1>3. /\ \A b : Chains(b)' <=> Chains(b)
      /\ SuperStamp' = SuperStamp
      /\ \A k : LinkAt(flash, Tip(k))' = LinkAt(flash, Tip(k))
                /\ StampAt(flash, Tip(k))' = StampAt(flash, Tip(k))
      /\ Top' = Top
  BY <1>1, <1>2 DEF Chains, SuperStamp, LinkAt, StampAt, Top
<1>4. (Formatted' <=> Formatted) /\ (Unformatted' <=> Unformatted)
  BY <1>1 DEF Formatted, Unformatted
<1>5. Volume'
  BY <1>1, <1>2, <1>3, <1>4 DEF ChainInv, Volume
<1>6. (Accurate' <=> Accurate) /\ (Behind' <=> Behind) /\ (Astray' <=> Astray)
  BY <1>1, <1>2, <1>3 DEF Accurate, Behind, Astray, Full, Chains
<1>7. Located' <=> Located
  BY <1>1, <1>6 DEF Located
<1>8. Resting'
  BY <1>1, <1>3, <1>6, <1>7 DEF ChainInv, Resting
<1>9. (Climbs' <=> Climbs) /\ (Descends' <=> Descends)
  BY <1>1, <1>3 DEF Climbs, Descends
<1>10. \A i : /\ Chains(calls[i].to.block)' <=> Chains(calls[i].to.block)
              /\ Chains(calls[i].addr.block)' <=> Chains(calls[i].addr.block)
              /\ Leaves(i)' <=> Leaves(i)
  BY <1>1, <1>2 DEF Chains, Leaves
<1>11. Climbing'
  BY <1>1, <1>2, <1>3, <1>6, <1>7, <1>9, <1>10 DEF ChainInv, Saving, Climbing
<1>12. Aiming'
  BY <1>1, <1>3, <1>9 DEF ChainInv, Saving, Aiming, Blank
<1>13. Descending'
  BY <1>1, <1>2, <1>3, <1>9, <1>10 DEF ChainInv, Saving, Descending
<1>14. Saving'
  BY <1>1, <1>11, <1>12, <1>13 DEF ChainInv, Saving
<1>15. CreationInv'
  BY <1>1 DEF ChainInv, CreationInv, Preparing, CreationSteps, InPreparation,
              Link1, Link2, OnlyHolds, Blank
<1> QED BY <1>1, <1>4, <1>5, <1>8, <1>14, <1>15 DEF ChainInv

LEMMA ChainStep ==
    ASSUME SuperBlockInv, ChainInv, OneLife, [Next]_vars
    PROVE  ChainInv'
<1>1. CreationInv'
  BY CreationStays DEF ChainInv
<1>2. CASE Mount \/ Save \/ Create
  BY <1>1, <1>2, MountChain, SaveChain, CreateChain
<1>3. CASE Step
  <2>1. CASE NextSector \/ SwapAnchor \/ OutOfBlocks
    BY <2>1, NextSectorChain, SwapAnchorChain, OutOfBlocksChain
  <2>2. CASE \E b \in Pool, erased \in BOOLEAN : AllocateNext(b, erased)
    BY <2>2, AllocateNextChain
  <2>3. CASE EraseTarget \/ WriteTarget \/ Relink \/ LinkLost
    BY <2>3, EraseTargetChain, WriteTargetChain, RelinkChain, LinkLostChain
  <2>4. CASE FreeErases \/ FreeMarks \/ RolloverReturns \/ SaveReturns
    BY <2>4, FreeErasesChain, FreeMarksChain, RolloverReturnsChain, SaveReturnsChain
  <2>5. CASE \E b \in Pool : CreateAllocates(b)
    BY <1>1, <2>5, CreateAllocatesChain
  <2>6. CASE CreateErases \/ CreateWrites \/ CreateLocates
    BY <1>1, <2>6, CreateErasesChain, CreateWritesChain, CreateLocatesChain
  <2> QED BY <1>3, <2>1, <2>2, <2>3, <2>4, <2>5, <2>6 DEF Step
<1>4. CASE Crash \/ CrashInErase
  BY <1>4, CrashChain, CrashInEraseChain
<1>5. CASE EraseFails \/ WriteFails \/ FreeFails \/ CreateFails
  BY <1>5, EraseFailsChain, WriteFailsChain, FreeFailsChain, CreateFailsChain
<1>6. CASE UNCHANGED vars
  BY <1>6, ChainStutters
<1> QED BY <1>2, <1>3, <1>4, <1>5, <1>6 DEF Next

LEMMA ChainInit == Init => ChainInv
<1> SUFFICES ASSUME Init PROVE ChainInv
  OBVIOUS
<1>1. /\ flash = [b \in Blocks |-> [s \in Sectors |-> Erased]]
      /\ sb = Link("SuperBlock", 0, NoBlock, Nothing)
      /\ mode = "down" /\ calls = <<>> /\ saves = 0
  BY DEF Init
<1>2. Unformatted
  BY <1>1 DEF Unformatted, Programmed
<1>3. SuperBlockInv
  BY InitInv
<1>4. ~Formatted
  <2> SUFFICES ASSUME Formatted PROVE FALSE
    OBVIOUS
  <2>1. Programmed(flash, Tip(3).block, Tip(3).sector) /\ Tip(3).block \in Blocks
        /\ Tip(3).sector \in Sectors
    BY <1>3, FormattedFacts DEF Levels
  <2> QED BY <1>1, <2>1 DEF Programmed
<1>5. Volume
  BY <1>1, <1>2, <1>4, BoundsAssumption DEF Volume, Link
<1> QED BY <1>1, <1>5 DEF ChainInv, Resting, Saving, Climbing, Aiming, Descending,
                          Climbs, Descends, CreationInv

(* The inductive invariant, for one life of a volume: from create() on,     *)
(* through any number of losses of power, reported failures and mounts, as  *)
(* long as it is not formatted again and its stamps do not wrap around.     *)
THEOREM ChainIsInvariant == ASSUME OneLife PROVE Spec => []ChainInv
<1>1. Init => ChainInv
  BY ChainInit
<1>2. SuperBlockInv /\ ChainInv /\ [Next]_vars => ChainInv'
  BY ChainStep
<1> QED BY <1>1, <1>2, SuperBlockIsInvariant, PTL DEF Spec
-----------------------------------------------------------------------------
(* What follows from it. *)

LEMMA FoundIsFormatted ==
    ASSUME SuperBlockInv, ChainInv
    PROVE  Found(Super(flash)) => /\ Formatted /\ Volume
                                  /\ Super(flash) = Reading(flash, Tip(3))
  BY EitherFormattedOrNot, FormattedIsWalked DEF ChainInv

(* No block of the chain is ever free for the allocator to hand out, or     *)
(* about to be erased: at every depth of rollover(), through failures and   *)
(* losses of power, for every size of the medium.                           *)
THEOREM ChainStaysKept == ASSUME OneLife PROVE Spec => []ChainIsKept
<1>1. SuperBlockInv /\ ChainInv => ChainIsKept
  <2> SUFFICES ASSUME SuperBlockInv, ChainInv, Found(Super(flash))
               PROVE  Chain(flash) \intersect (free \union Doomed) = {}
    BY DEF ChainIsKept
  <2>1. Formatted /\ Volume
    BY FoundIsFormatted
  <2>2. Chain(flash) = {Tip(1).block, Tip(2).block, Tip(3).block}
    BY <2>1, FormattedIsWalked
  <2>3. \A b \in Chain(flash) : Chains(b)
    BY <2>2 DEF Chains, Levels
  <2>4. \A b \in free : ~Chains(b)
    BY <2>1, FreeIsSpared
  <2>5. \A b \in Doomed : ~Chains(b)
    BY <2>1, DoomedIsSpared
  <2> QED BY <2>3, <2>4, <2>5
<1> QED BY <1>1, ChainIsInvariant, SuperBlockIsInvariant, PTL

(* In every block of the chain nothing was written behind the link that     *)
(* find_link() selects: no write is lost behind a link with a larger stamp. *)
THEOREM NewestStaysLast == ASSUME OneLife PROVE Spec => []NewestIsLast
<1>1. SuperBlockInv /\ ChainInv => NewestIsLast
  <2> SUFFICES ASSUME SuperBlockInv, ChainInv, Found(Super(flash)),
                      NEW k \in Levels, ~Full(Tip(k))
               PROVE  flash[Tip(k).block][Tip(k).sector + 1] = Erased
    <3> DEFINE top    == AnchorLink(flash)
               first  == Below(flash, top)
               second == Below(flash, first)
    <3>1. /\ top.where = Tip(0) /\ first.where = Tip(1)
          /\ second.where = Tip(2) /\ Super(flash).where = Tip(3)
      BY DEF Tip, Tips, Levels
    <3> HIDE DEF top, first, second
    <3>2. 0 \in Levels /\ 1 \in Levels /\ 2 \in Levels /\ 3 \in Levels
      BY DEF Levels
    <3> QED BY <3>1, <3>2 DEF NewestIsLast, top, first, second
  <2>1. IsTip(flash, Tip(k)) /\ Tip(k).sector \in Nat /\ Tip(k) \in Address
    BY FoundIsFormatted, FormattedFacts, AddressType
  <2>2. Tip(k).sector + 1 \in Sectors /\ ~(Tip(k).sector + 1 <= Tip(k).sector)
    BY <2>1 DEF Full
  <2> QED BY <2>1, <2>2 DEF IsTip, Programmed
<1> QED BY <1>1, ChainIsInvariant, SuperBlockIsInvariant, PTL

(* rollover() finds the link that names the block it has left, at every     *)
(* depth: without failures save() never gives up halfway.                   *)
THEOREM ParentStaysFound == ASSUME OneLife PROVE Spec => []ParentIsFound
<1>1. SuperBlockInv /\ ChainInv => ParentIsFound
  <2> SUFFICES ASSUME SuperBlockInv, ChainInv, faults = 0, Running("relink")
               PROVE  Found(Walk(flash, Top.addr.block))
    BY DEF ParentIsFound
  <2>1. Climbs /\ Top.pc = "relink" /\ Moved(Top)
    BY ActiveCall DEF Climbs, SuperBlockInv, TopReady
  <2>2. /\ Formatted /\ Located /\ Len(calls) \in {1, 2, 3}
        /\ Accurate
    BY <2>1, ClimbFacts, ParentOfTop DEF Located
  <2>3. ~Astray
    BY <2>2 DEF Accurate, Astray, Chains, Levels
  <2>4. Walk(flash, Top.addr.block) = Reading(flash, Tip(3 - Len(calls)))
    BY <2>1, <2>3, ParentOfTop
  <2>5. 3 - Len(calls) \in Levels
    <3>1. \A n \in {1, 2, 3} : 3 - n \in Levels
      BY DEF Levels
    <3> QED BY <2>2, <3>1
  <2>6. Tip(3 - Len(calls)) \in Address
    BY <2>2, <2>5, FormattedFacts
  <2> QED BY <2>4, <2>6, Types DEF Found, Reading
<1> QED BY <1>1, ChainIsInvariant, SuperBlockIsInvariant, PTL

(* After every successful create(), save() and locate(), location_ and the  *)
(* caller's copy are what a fresh walk of the chain would find.             *)
THEOREM LocationStaysNewest == ASSUME OneLife PROVE Spec => []LocationIsNewest
<1>1. SuperBlockInv /\ ChainInv => LocationIsNewest
  <2> SUFFICES ASSUME SuperBlockInv, ChainInv, mode = "idle", outcome # "failed"
               PROVE  location = Super(flash).where /\ sb = Super(flash).link
    BY DEF LocationIsNewest
  <2>1. Formatted /\ Accurate /\ sb = LinkAt(flash, Tip(3))
    BY DEF ChainInv, Volume, Resting
  <2>2. Super(flash) = Reading(flash, Tip(3))
    BY <2>1, FormattedIsWalked
  <2> QED BY <2>1, <2>2 DEF Reading, Accurate
<1> QED BY <1>1, ChainIsInvariant, SuperBlockIsInvariant, PTL

(* What locate() finds, and what the program holds after it, was written as *)
(* a super block, never a link or an anchor.                                *)
THEOREM SuperBlockIsLocated ==
    ASSUME OneLife PROVE Spec => [](LocatedIsSuperBlock /\ MountedIsSuperBlock)
<1>1. SuperBlockInv /\ ChainInv => LocatedIsSuperBlock /\ MountedIsSuperBlock
  <2> SUFFICES ASSUME SuperBlockInv, ChainInv
               PROVE  LocatedIsSuperBlock /\ MountedIsSuperBlock
    OBVIOUS
  <2>1. MountedIsSuperBlock
    BY DEF ChainInv, Volume, MountedIsSuperBlock
  <2>2. ASSUME Found(Super(flash)) PROVE Super(flash).link.type = "SuperBlock"
    <3>1. Formatted /\ Super(flash) = Reading(flash, Tip(3))
      BY <2>2, FoundIsFormatted
    <3>2. LinkAt(flash, Tip(3)).type = "SuperBlock"
      BY <3>1, FormattedFacts DEF Levels, TypeAt
    <3> QED BY <3>1, <3>2 DEF Reading
  <2> QED BY <2>1, <2>2 DEF LocatedIsSuperBlock
<1> QED BY <1>1, ChainIsInvariant, SuperBlockIsInvariant, PTL

(* Unless the storage failed before, nothing is programmed over what was    *)
(* programmed: by save(), by free(), by create().                           *)
THEOREM SectorsWrittenAreErased == ASSUME OneLife PROVE Spec => []WritesErasedSectors
<1>1. SuperBlockInv /\ ChainInv => WritesErasedSectors
  <2> SUFFICES ASSUME SuperBlockInv, ChainInv, faults = 0
               PROVE  /\ Running("write") => flash[Top.to.block][Top.to.sector] = Erased
                      /\ Running("mark") => flash[Top.addr.block][0] = Erased
                      /\ Creating("write") => flash[creation.block][0] = Erased
    BY DEF WritesErasedSectors
  <2>1. ASSUME Running("write"), Moved(Top)
        PROVE  flash[Top.to.block][Top.to.sector] = Erased
    <3>1. calls # <<>> /\ Top.pc = "write"
      BY <2>1, ActiveCall
    <3>2. Blank(Top.to.block) /\ Top.to.sector = 0
      BY <2>1, <3>1 DEF SuperBlockInv, TopReady, Relies, IsFresh
    <3> QED BY <3>2, Types DEF Blank
  <2>2. ASSUME Running("write"), ~Moved(Top)
        PROVE  flash[Top.to.block][Top.to.sector] = Erased
    <3>1. Len(calls) \in {1, 2, 3, 4}
      BY <2>2, ActiveCall, ClimbFacts DEF Climbs
    <3>2. \A n \in {1, 2, 3, 4} : 4 - n \in Levels
      BY DEF Levels
    <3>3. PICK m \in Levels : m = 4 - Len(calls)
      BY <3>1, <3>2
    <3> QED BY <2>2, <3>3, AimIsNext
  <2>3. ASSUME Running("mark") PROVE flash[Top.addr.block][0] = Erased
    <3>1. Descends /\ Top.pc = "mark"
      BY <2>3, ActiveCall DEF Descends
    <3> QED BY <3>1 DEF ChainInv, Saving, Descending
  <2>4. ASSUME Creating("write") PROVE flash[creation.block][0] = Erased
    BY <2>4, Types DEF Creating, ChainInv, CreationInv, Preparing, Blank
  <2> QED BY <2>1, <2>2, <2>3, <2>4
<1> QED BY <1>1, ChainIsInvariant, SuperBlockIsInvariant, PTL

-----------------------------------------------------------------------------
(* What the steps make of what is stored. *)

Stored == Super(flash).link.value

LEMMA StoredStays ==
    ASSUME SuperBlockInv, flash' \in Medium,
           KeepsChain \/ (Unformatted /\ Unformatted')
    PROVE  Stored' = Stored
<1>1. CASE KeepsChain
  <2>1. Super(flash) = Reading(flash, Tip(3))
    BY <1>1, KeptFacts, FormattedIsWalked
  <2>2. /\ IsChain(flash', Tips(flash')) /\ Tips(flash')[3] = Tip(3)
        /\ LinkAt(flash', Tip(3)) = LinkAt(flash, Tip(3))
    BY <1>1 DEF KeepsChain, Formatted, Tip, Levels
  <2>3. Super(flash') = Reading(flash', Tip(3))
    BY <2>2, ChainIsWalked
  <2> QED BY <2>1, <2>2, <2>3 DEF Stored, Reading
<1>2. CASE Unformatted /\ Unformatted'
  <2>1. Super(flash).link.value = Nothing
    BY <1>2, Quiet, UnformattedIsNotFound, NothingIsFound DEF Unformatted
  <2>2. Super(flash').link.value = Nothing
    BY <1>2, UnformattedIsNotFound, NothingIsFound DEF Unformatted
  <2> QED BY <2>1, <2>2 DEF Stored
<1> QED BY <1>1, <1>2

LEMMA StoredSwitches ==
    ASSUME flash' \in Medium, Formatted', LinkAt(flash, Tip(3))' = sb
    PROVE  Stored' = sb.value
<1>1. Super(flash') = Reading(flash', Tips(flash')[3])
  BY ChainIsWalked DEF Formatted
<1>2. LinkAt(flash', Tips(flash')[3]) = sb
  BY DEF LinkAt, Tip
<1> QED BY <1>1, <1>2 DEF Stored, Reading

LEMMA UnchangedFlash ==
    ASSUME flash' = flash PROVE Stored' = Stored
  BY DEF Stored

LEMMA EraseKeeps ==
    ASSUME SuperBlockInv, ChainInv, NEW c \in Doomed,
           flash' = Erasing(c) \/ \E kept : flash' = PartlyErasing(c, kept)
    PROVE  Stored' = Stored
<1>1. PICK kept : flash' = PartlyErasing(c, kept)
  <2>1. Erasing(c) = PartlyErasing(c, {})
    BY DEF Erasing, PartlyErasing
  <2> QED BY <2>1
<1>2. /\ flash' \in Medium
      /\ \A b \in Blocks : b # c => flash'[b] = flash[b]
      /\ \A b \in Blocks, s \in Sectors : flash'[b][s] \in {flash[b][s], Erased}
  BY <1>1, CutErase
<1>3. CASE Formatted
  <2>1. c \in Blocks /\ ~Chains(c)
    BY <1>3, DoomedIsSpared
  <2>2. KeepsChain
    BY <1>2, <1>3, <2>1, ChainStays
  <2> QED BY <1>2, <2>2, StoredStays
<1>4. CASE Unformatted
  BY <1>2, <1>4, UnformattedStays, StoredStays
<1> QED BY <1>3, <1>4 DEF ChainInv, Volume

LEMMA MarkKeeps ==
    ASSUME SuperBlockInv, ChainInv, Running("mark"),
           flash' = Programming(Top.addr.block, 0, Top.link)
    PROVE  Stored' = Stored
<1>1. Descends /\ Top.pc = "mark" /\ Top.link \in Links
  BY ActiveCall, FrameType DEF Descends
<1>2. Formatted /\ Top.addr.block \in Pool /\ ~Chains(Top.addr.block)
  BY <1>1, DescendFacts
<1>3. /\ flash' \in Medium
      /\ \A b \in Blocks : b # Top.addr.block => flash'[b] = flash[b]
  BY <1>1, <1>2, Quiet, StorageEffect, MediumType, Types
<1> QED BY <1>2, <1>3, ChainStays, StoredStays

LEMMA WriteEffect ==
    ASSUME SuperBlockInv, ChainInv, OneLife, Running("write"),
           flash' = Programming(Top.to.block, Top.to.sector, Top.link)
    PROVE  Stored' \in {Stored, sb.value}
<1>1. Climbs /\ Top.pc = "write" /\ Top.link \in Links
  BY ActiveCall, FrameType DEF Climbs
<1>2. CASE Moved(Top)
  <2>1. /\ Top.to.block \in Blocks /\ Top.to.block \in Pool
        /\ ~Chains(Top.to.block) /\ Formatted
    BY <1>1, <1>2, TargetIsSpared, ClimbFacts
  <2>2. /\ \A b \in Blocks : b # Top.to.block => flash'[b] = flash[b]
        /\ flash' \in Medium
    BY <1>1, <2>1, Quiet, StorageEffect, MediumType
  <2> QED BY <2>1, <2>2, ChainStays, StoredStays
<1>3. CASE ~Moved(Top)
  <2>1. Len(calls) \in {1, 2, 3, 4}
    BY <1>1, ClimbFacts
  <2>2. \A n \in {1, 2, 3, 4} : 4 - n \in Levels
    BY DEF Levels
  <2>3. PICK m \in Levels : m = 4 - Len(calls)
    BY <2>1, <2>2
  <2>4. /\ flash' \in Medium /\ Formatted'
        /\ Tips(flash') = SwitchedTips(m)
        /\ LinkAt(flash', SwitchedTips(m)[3]) = sb
    BY <1>3, <2>3, WriteSwitches
  <2>5. LinkAt(flash, Tip(3))' = sb
    BY <2>4 DEF LinkAt, Tip
  <2> QED BY <2>4, <2>5, StoredSwitches
<1> QED BY <1>2, <1>3

LEMMA CreateWriteEffect ==
    ASSUME SuperBlockInv, ChainInv, Creating("write"), free' = free,
           flash' = Programming(creation.block, 0, CreationLink)
    PROVE  Stored' \in {Stored, sb.value}
<1>1. CASE creation.level = 5
  <2>1. flash' \in Medium /\ Formatted' /\ LinkAt(flash, Tip(3))' = sb
    BY <1>1, LastWrite
  <2> QED BY <2>1, StoredSwitches
<1>2. CASE creation.level # 5
  <2>1. Unformatted /\ flash' \in Medium
    BY Quiet, NotYetFormatted, MediumType, CreationLinkType DEF Creating
  <2>2. Unformatted'
    BY <1>2, WriteLeavesUnformatted
  <2> QED BY <2>1, <2>2, StoredStays
<1> QED BY <1>1, <1>2
(* One write at most takes the volume from the contents saved last to those *)
(* being saved, and no other step changes what locate() finds.              *)
LEMMA StepEffect ==
    ASSUME SuperBlockInv, ChainInv, OneLife, [Next]_vars
    PROVE  \/ Stored' = Stored
           \/ mode \in {"saving", "creating"} /\ Stored' = sb.value
<1>1. CASE flash' = flash
  BY <1>1, UnchangedFlash
<1>2. CASE EraseTarget \/ EraseFails \/ FreeErases
           \/ (FreeFails /\ Running("free")) \/ CreateErases
           \/ (CreateFails /\ Creating("erase")) \/ CrashInErase
  <2>1. ASSUME NEW c \in Doomed, flash' \in {flash, Erasing(c)}
        PROVE  Stored' = Stored
    BY <2>1, UnchangedFlash, EraseKeeps
  <2>2. CASE EraseTarget \/ EraseFails
    BY <2>1, <2>2 DEF EraseTarget, EraseFails, Doomed
  <2>3. CASE FreeErases \/ (FreeFails /\ Running("free"))
    BY <2>1, <2>3 DEF FreeErases, FreeFails, Doomed, Running
  <2>4. CASE CreateErases \/ (CreateFails /\ Creating("erase"))
    <3>1. ~Running("erase") /\ ~Running("free") /\ Creating("erase")
      BY <2>4, Quiet DEF CreateErases, Creating, Running
    <3> QED BY <2>1, <2>4, <3>1 DEF CreateErases, CreateFails, Doomed, Creating
  <2>5. CASE CrashInErase
    <3>1. \E c \in Doomed, kept \in SUBSET Sectors : flash' = PartlyErasing(c, kept)
      BY <2>5 DEF CrashInErase, ResetTo
    <3> QED BY <3>1, EraseKeeps
  <2> QED BY <1>2, <2>2, <2>3, <2>4, <2>5
<1>3. CASE FreeMarks \/ (FreeFails /\ Running("mark"))
  <2>1. /\ Running("mark")
        /\ flash' \in {flash, Programming(Top.addr.block, 0, Top.link)}
    BY <1>3 DEF FreeMarks, FreeFails, Running
  <2> QED BY <2>1, UnchangedFlash, MarkKeeps
<1>4. CASE WriteTarget \/ WriteFails
  <2>1. /\ Running("write") /\ mode = "saving"
        /\ flash' \in {flash, Programming(Top.to.block, Top.to.sector, Top.link)}
    BY <1>4, ActiveCall DEF WriteTarget, WriteFails
  <2> QED BY <2>1, UnchangedFlash, WriteEffect
<1>5. CASE CreateWrites \/ (CreateFails /\ Creating("write"))
  <2>1. /\ Creating("write") /\ mode = "creating" /\ free' = free
        /\ flash' \in {flash, Programming(creation.block, 0, CreationLink)}
    BY <1>5 DEF CreateWrites, CreateFails, Creating
  <2> QED BY <2>1, UnchangedFlash, CreateWriteEffect
<1>6. CASE CreateLocates
  <2>1. Found(Super(flash))
    BY <1>6, LocateFormatted, FormattedIsWalked DEF CreateLocates
  <2>2. flash' = flash
    BY <1>6, <2>1 DEF CreateLocates
  <2> QED BY <2>2, UnchangedFlash
<1>7. CASE Mount \/ Save \/ Create \/ NextSector \/ SwapAnchor \/ OutOfBlocks
           \/ (\E b \in Pool, erased \in BOOLEAN : AllocateNext(b, erased))
           \/ Relink \/ LinkLost \/ RolloverReturns \/ SaveReturns \/ Crash
           \/ (\E b \in Pool : CreateAllocates(b)) \/ UNCHANGED vars
  <2>1. flash' = flash
    BY <1>7 DEF Mount, Save, Create, NextSector, SwapAnchor, OutOfBlocks, ResetTo,
                AllocateNext, Relink, LinkLost, RolloverReturns, SaveReturns,
                Crash, CreateAllocates, vars
  <2> QED BY <2>1, UnchangedFlash
<1>8. FreeFails => Running("free") \/ Running("mark")
  BY DEF FreeFails
<1>9. CreateFails => Creating("erase") \/ Creating("write")
  BY DEF CreateFails
<1> QED BY <1>2, <1>3, <1>4, <1>5, <1>6, <1>7, <1>8, <1>9 DEF Next, Step

(* No step, of rollover(), free(), a reset or a cut erase, changes what     *)
(* locate() finds, but for the one write that makes it what is being saved. *)
THEOREM StoredChangesAtOnce == ASSUME OneLife PROVE Spec => ChangesAtOnce
<1>1. SuperBlockInv /\ ChainInv /\ [Next]_vars =>
          [flash' # flash =>
              \/ Super(flash').link.value = Super(flash).link.value
              \/ /\ mode \in {"saving", "creating"}
                 /\ Super(flash').link.value = sb.value]_vars
  BY StepEffect DEF Stored
<1> QED BY <1>1, ChainIsInvariant, SuperBlockIsInvariant, PTL
        DEF Spec, ChangesAtOnce

-----------------------------------------------------------------------------
(* The refinement of AtomicStore. *)

(* What is being saved is contents, not the absence of any. *)
Offering == mode \in {"saving", "creating"} => sb.value \in Value

LEMMA OfferingStep ==
    ASSUME SuperBlockInv, Offering, [Next]_vars PROVE Offering'
<1>1. /\ saves \in Nat /\ sb \in Links
      /\ \A n \in Nat : n <= MaxSaves => n \in Value
  BY BoundsAssumption, Quiet DEF SuperBlockInv, TypeOK
<1>2. CASE Save
  <2>1. sb'.value = saves + 1 /\ saves + 1 <= MaxSaves /\ saves + 1 \in Nat
    BY <1>1, <1>2, BoundsAssumption DEF Save, Links
  <2> QED BY <1>1, <2>1 DEF Offering
<1>3. CASE Create
  <2>1. sb'.value = 0 /\ 0 <= MaxSaves
    BY <1>3, BoundsAssumption DEF Create, Link
  <2> QED BY <1>1, <2>1 DEF Offering
<1>4. CASE CreateErases
  <2>1. mode = "creating" /\ sb'.value = sb.value
    BY <1>4 DEF CreateErases, Creating, Link
  <2> QED BY <2>1 DEF Offering
<1>5. CASE Mount \/ OutOfBlocks \/ LinkLost \/ SaveReturns \/ CreateLocates
           \/ Crash \/ CrashInErase \/ EraseFails \/ WriteFails \/ CreateFails
  <2>1. mode' \notin {"saving", "creating"}
    BY <1>5 DEF Mount, OutOfBlocks, LinkLost, SaveFails, SaveReturns, CreateLocates,
                Crash, CrashInErase, ResetTo, EraseFails, WriteFails, CreateFails
  <2> QED BY <2>1 DEF Offering
<1>6. CASE NextSector \/ SwapAnchor \/ EraseTarget \/ WriteTarget \/ Relink
           \/ (\E b \in Pool, erased \in BOOLEAN : AllocateNext(b, erased))
           \/ FreeErases \/ FreeMarks \/ RolloverReturns \/ FreeFails
           \/ (\E b \in Pool : CreateAllocates(b)) \/ CreateWrites \/ UNCHANGED vars
  <2>1. mode' = mode /\ sb' = sb
    BY <1>6 DEF NextSector, SwapAnchor, EraseTarget, WriteTarget, Relink,
                AllocateNext, FreeErases, FreeMarks, RolloverReturns, FreeFails,
                CreateAllocates, CreateWrites, vars
  <2> QED BY <2>1 DEF Offering
<1> QED BY <1>2, <1>3, <1>4, <1>5, <1>6 DEF Next, Step

LEMMA OfferingIsInvariant == Spec => []Offering
<1>1. Init => Offering
  BY DEF Init, Offering
<1>2. SuperBlockInv /\ Offering /\ [Next]_vars => Offering'
  BY OfferingStep
<1> QED BY <1>1, <1>2, SuperBlockIsInvariant, PTL DEF Spec

(* What is on offer, and what AtomicStore sees of a state. *)
Offered == IF mode \in {"saving", "creating"} THEN sb.value ELSE Nothing

LEMMA BeginsStore ==
    ASSUME SuperBlockInv, Offering', Mount \/ Save \/ Create
    PROVE  Store!StoreNext
<1>1. Stored' = Stored
  BY UnchangedFlash DEF Mount, Save, Create
<1>2. CASE Mount
  <2>1. Offered = Nothing /\ Offered' = Nothing /\ outcome' = "none"
    BY <1>2 DEF Mount, Offered
  <2> QED BY <1>1, <2>1 DEF Store!StoreNext, Store!Recover, Stored, Offered
<1>3. CASE Save \/ Create
  <2>1. Offered = Nothing /\ outcome' = "none" /\ Offered' \in Value
    BY <1>3 DEF Save, Create, Offered, Offering
  <2> QED BY <1>1, <2>1 DEF Store!StoreNext, Store!Begin, Stored, Offered
<1> QED BY <1>2, <1>3

(* A step inside a call: the cell stays, or it switches.                    *)
LEMMA InsideStore ==
    ASSUME Offering, mode \in {"saving", "creating"}, mode' = mode,
           outcome' = outcome, sb'.value = sb.value,
           Stored' \in {Stored, sb.value}
    PROVE  Store!Commit \/ UNCHANGED Store!storeVars
<1>1. Offered # Nothing /\ Offered' = Offered /\ Offered = sb.value
  BY ContentsAssumption DEF Offered, Offering
<1>2. CASE Stored' = Stored
  BY <1>1, <1>2 DEF Store!storeVars, Stored, Offered
<1>3. CASE Stored' = sb.value
  BY <1>1, <1>3 DEF Store!Commit, Stored, Offered
<1> QED BY <1>2, <1>3

LEMMA FailsStore ==
    ASSUME Offering, mode \in {"saving", "creating"},
           mode' \notin {"saving", "creating"}, outcome' = "failed",
           Stored' \in {Stored, sb.value}
    PROVE  Store!Fail
<1>1. Offered # Nothing /\ Offered' = Nothing /\ Offered = sb.value
  BY ContentsAssumption DEF Offered, Offering
<1> QED BY <1>1 DEF Store!Fail, Stored, Offered

LEMMA SucceedsStore ==
    ASSUME Offering, mode \in {"saving", "creating"},
           mode' \notin {"saving", "creating"}, outcome' = "ok",
           Stored' = Stored, Stored = sb.value
    PROVE  Store!Succeed
<1>1. Offered # Nothing /\ Offered' = Nothing /\ Offered = sb.value
  BY ContentsAssumption DEF Offered, Offering
<1> QED BY <1>1 DEF Store!Succeed, Stored, Offered

LEMMA CutsStore ==
    ASSUME SuperBlockInv, ChainInv, OutOfBlocks \/ Crash \/ CrashInErase
    PROVE  Store!Cut
<1>1. Stored' = Stored
  <2>1. CASE OutOfBlocks \/ Crash
    BY <2>1, UnchangedFlash DEF OutOfBlocks, Crash, ResetTo
  <2>2. CASE CrashInErase
    <3>1. \E c \in Doomed, kept \in SUBSET Sectors : flash' = PartlyErasing(c, kept)
      BY <2>2 DEF CrashInErase, ResetTo
    <3> QED BY <3>1, EraseKeeps
  <2> QED BY <2>1, <2>2
<1>2. Offered' = Nothing /\ outcome' = "cut"
  BY DEF OutOfBlocks, Crash, CrashInErase, ResetTo, Stop, Offered
<1> QED BY <1>1, <1>2 DEF Store!Cut, Stored, Offered

LEMMA StoreStep ==
    ASSUME SuperBlockInv, ChainInv, OneLife, Offering, Offering', [Next]_vars
    PROVE  [Store!StoreNext]_(Store!storeVars)
<1>1. Stored' \in {Stored, sb.value}
  BY StepEffect
<1>2. CASE Mount \/ Save \/ Create
  BY <1>2, BeginsStore
<1>3. CASE NextSector \/ SwapAnchor \/ EraseTarget \/ WriteTarget \/ Relink
           \/ (\E b \in Pool, erased \in BOOLEAN : AllocateNext(b, erased))
           \/ FreeErases \/ FreeMarks \/ RolloverReturns \/ FreeFails
  <2>1. /\ calls # <<>> /\ mode' = mode /\ sb' = sb /\ outcome' = outcome
    BY <1>3 DEF NextSector, SwapAnchor, EraseTarget, WriteTarget, Relink,
                AllocateNext, FreeErases, FreeMarks, RolloverReturns, FreeFails,
                Running
  <2>2. mode = "saving"
    BY <2>1, Quiet
  <2> QED BY <1>1, <2>1, <2>2, InsideStore DEF Store!StoreNext
<1>4. CASE (\E b \in Pool : CreateAllocates(b)) \/ CreateErases \/ CreateWrites
  <2>1. /\ mode = "creating" /\ mode' = mode /\ outcome' = outcome
        /\ sb'.value = sb.value
    <3>1. CASE CreateErases
      BY <3>1 DEF CreateErases, Creating, Link
    <3>2. CASE (\E b \in Pool : CreateAllocates(b)) \/ CreateWrites
      BY <3>2 DEF CreateAllocates, CreateWrites, Creating
    <3> QED BY <1>4, <3>1, <3>2
  <2> QED BY <1>1, <2>1, InsideStore DEF Store!StoreNext
<1>5. CASE LinkLost \/ EraseFails \/ WriteFails
  <2>1. calls # <<>> /\ mode' = "idle" /\ outcome' = "failed"
    BY <1>5 DEF LinkLost, EraseFails, WriteFails, SaveFails, Stop, Running
  <2>2. mode = "saving"
    BY <2>1, Quiet
  <2> QED BY <1>1, <2>1, <2>2, FailsStore DEF Store!StoreNext
<1>6. CASE CreateFails
  <2>1. mode = "creating" /\ mode' = "down" /\ outcome' = "failed"
    BY <1>6 DEF CreateFails, Creating, Stop
  <2> QED BY <1>1, <2>1, FailsStore DEF Store!StoreNext
<1>7. CASE SaveReturns
  <2>1. Descends /\ mode = "saving"
    BY <1>7, ActiveCall DEF SaveReturns, Descends
  <2>2. Formatted /\ LinkAt(flash, Tip(3)) = sb
    BY <2>1, DescendFacts
  <2>3. Super(flash) = Reading(flash, Tip(3))
    BY <2>2, FormattedIsWalked
  <2>4. Stored = sb.value
    BY <2>2, <2>3 DEF Stored, Reading
  <2>5. mode' = "idle" /\ outcome' = "ok" /\ Stored' = Stored
    BY <1>7, UnchangedFlash DEF SaveReturns, Stop
  <2> QED BY <2>1, <2>4, <2>5, SucceedsStore DEF Store!StoreNext
<1>8. CASE CreateLocates
  <2>1. Formatted /\ LinkAt(flash, Tip(3)) = sb /\ mode = "creating"
    BY <1>8, LocateFormatted DEF CreateLocates, Creating
  <2>2. Super(flash) = Reading(flash, Tip(3)) /\ Found(Super(flash))
    BY <2>1, FormattedIsWalked
  <2>3. Stored = sb.value
    BY <2>1, <2>2 DEF Stored, Reading
  <2>4. mode' = "idle" /\ outcome' = "ok" /\ Stored' = Stored
    BY <1>8, <2>2, UnchangedFlash DEF CreateLocates, Stop
  <2> QED BY <2>1, <2>3, <2>4, SucceedsStore DEF Store!StoreNext
<1>9. CASE OutOfBlocks \/ Crash \/ CrashInErase
  BY <1>9, CutsStore DEF Store!StoreNext
<1>10. CASE UNCHANGED vars
  BY <1>10 DEF vars, Store!storeVars
<1> QED BY <1>2, <1>3, <1>4, <1>5, <1>6, <1>7, <1>8, <1>9, <1>10 DEF Next, Step

(* The volume is one atomic and durable cell: whatever the storage reports  *)
(* and whenever power is lost, it holds what was saved last or what is      *)
(* being saved, and an operation that reports success has saved it.         *)
THEOREM ChainIsAtomicStore == ASSUME OneLife PROVE Spec => ActsAsStore
<1>1. Init => Store!StoreInit
  <2> SUFFICES ASSUME Init PROVE Store!StoreInit
    OBVIOUS
  <2>1. flash = [b \in Blocks |-> [s \in Sectors |-> Erased]]
        /\ mode = "down" /\ outcome = "none" /\ flash \in Medium
    BY InitInv, Quiet DEF Init
  <2>2. Unformatted
    BY <2>1 DEF Unformatted, Programmed
  <2>3. Super(flash).link.value = Nothing
    BY <2>1, <2>2, UnformattedIsNotFound, NothingIsFound DEF Unformatted
  <2> QED BY <2>1, <2>3 DEF Store!StoreInit
<1>2. /\ SuperBlockInv /\ ChainInv /\ Offering /\ Offering' /\ [Next]_vars
      => [Store!StoreNext]_(Store!storeVars)
  BY StoreStep
<1> QED BY <1>1, <1>2, ChainIsInvariant, SuperBlockIsInvariant, OfferingIsInvariant,
           PTL DEF Spec, ActsAsStore, Store!StoreSpec

-----------------------------------------------------------------------------
(* No block leaks.  A step of save() on its way up adds to what is moved to *)
(* whatever it takes from the allocator; the write that switches turns what *)
(* the calls moved to into the chain, and the chain into what they left;    *)
(* the calls give that back as they return.                                 *)

LEMMA Untroubled ==
    ASSUME SuperBlockInv, crashes + faults = 0 PROVE crashes = 0 /\ faults = 0
  BY CountersType DEF SuperBlockInv

(* Without failures the calls of a climb stand on the chain. *)
LEMMA ClimbIsSure ==
    ASSUME SuperBlockInv, ChainInv, Climbs, faults = 0
    PROVE  /\ ~Astray
           /\ \A i \in 1 .. Len(calls) : calls[i].addr.block = Tip(4 - i).block
<1>1. ~Astray
  BY ClimbFacts, LocatedFacts DEF Accurate, Astray, Chains, Levels, Located
<1> QED BY <1>1, ClimbFacts

LEMMA InUseClimbing ==
    ASSUME SuperBlockInv, Climbs, NEW b PROVE InUse(b) <=> Chains(b) \/ MovedTo(b)
<1>1. mode = "saving" /\ ~Descends
  BY DEF Climbs, Descends, SuperBlockInv, Control
<1> QED BY <1>1 DEF InUse

LEMMA InUseDescending ==
    ASSUME SuperBlockInv, Descends, NEW b PROVE InUse(b) <=> Chains(b) \/ LeftBehind(b)
<1>1. mode = "saving" /\ ~Climbs
  BY DEF Climbs, Descends, SuperBlockInv, Control
<1> QED BY <1>1 DEF InUse

LEMMA InUseQuiet ==
    ASSUME calls = <<>>, NEW b
    PROVE  InUse(b) <=> \/ mode \in {"idle", "saving"} /\ Chains(b)
                        \/ mode = "creating" /\ SetUp(b)
  BY DEF InUse, Climbs, Descends

(* A step of the top call on its way up. *)
LEMMA ClimbTracks ==
    ASSUME SuperBlockInv, ChainInv, NothingLeaks, crashes + faults = 0, Climbs,
           NEW frame \in Call, TopGoes(frame),
           frame.pc \in {"erase", "write", "relink"}, KeepsChain, mode' = "saving",
           \A b \in free' : b \in free /\ flash'[b][0] \in {flash[b][0], Erased},
           \/ /\ free' = free /\ Top.pc # "enter"
              /\ Moved(frame) <=> Moved(Top)
              /\ frame.to = Top.to
           \/ free' = free /\ Top.pc = "enter" /\ ~Moved(frame)
           \/ /\ Top.pc = "enter" /\ Moved(frame)
              /\ free' = free \ {frame.to.block}
    PROVE  NothingLeaks'
<1>0. PICK n \in {1, 2, 3, 4} : n = Len(calls)
  BY ClimbFacts
<1>1. calls \in Seq(Call) /\ calls # <<>>
  BY ClimbFacts
<1>2. /\ Len(calls') = n /\ Top' = frame /\ calls' # <<>>
      /\ \A i \in 1 .. n - 1 : calls'[i] = calls[i]
  <2>1. \A i \in 1 .. n - 1 : i \in 1 .. n /\ i # n
    OBVIOUS
  <2> QED BY <1>0, <1>1, <2>1, TopReplaced
<1>3. \A b \in free' : ~IsTaken(flash', b)
  BY DEF NothingLeaks, IsTaken
<1>4. ASSUME NEW b \in Pool PROVE b \in free' <=> ~InUse(b)'
  <2> DEFINE enclosing == \E i \in 1 .. n - 1 : b = calls[i].to.block
  <2>1. InUse(b) <=> Chains(b) \/ MovedTo(b)
    BY InUseClimbing
  <2>2. MovedTo(b) <=> enclosing \/ (Top.pc # "enter" /\ Moved(Top) /\ b = Top.to.block)
    BY <1>0 DEF MovedTo
  <2>3. MovedTo(b)' <=> enclosing \/ (Moved(frame) /\ b = frame.to.block)
    <3>1. (\E i \in 1 .. Len(calls') - 1 : b = calls'[i].to.block) <=> enclosing
      BY <1>2
    <3> QED BY <1>2, <3>1 DEF MovedTo, Moved
  <2>4. InUse(b)' <=> Chains(b)' \/ MovedTo(b)'
    BY <1>2 DEF InUse, Climbs, Descends
  <2>5. Chains(b)' <=> Chains(b)
    BY KeptFacts
  <2>6. b \in free <=> ~InUse(b)
    BY DEF NothingLeaks
  <2> HIDE DEF enclosing
  <2> QED BY <2>1, <2>2, <2>3, <2>4, <2>5, <2>6
<1>5. LeftApart'
  BY <1>2 DEF LeftApart, Descends
<1> QED BY <1>3, <1>4, <1>5 DEF NothingLeaks

(* Of a step that starts with no failure counted. *)
LEMMA SavingStart ==
    ASSUME SuperBlockInv, ChainInv, Climbs, UNCHANGED counters,
           (crashes + faults = 0)'
    PROVE  /\ crashes + faults = 0 /\ faults = 0 /\ mode = "saving" /\ Formatted
           /\ Top \in Call /\ calls \in Seq(Call) /\ calls # <<>>
           /\ Top = calls[Len(calls)]
<1>1. crashes + faults = 0
  BY DEF counters
<1> QED BY <1>1, Untroubled, ClimbFacts

LEMMA NextSectorTracks ==
    ASSUME SuperBlockInv, ChainInv, NothingLeaks, NextSector PROVE NothingLeaks'
<1> SUFFICES ASSUME (crashes + faults = 0)' PROVE NothingLeaks'
  BY DEF NothingLeaks
<1> DEFINE frame == [Top EXCEPT
               !.to = At(Top.addr.block, Top.addr.sector + 1), !.pc = "write"]
<1>1. Climbs /\ Top.pc = "enter" /\ UNCHANGED counters
  BY ActiveCall DEF NextSector, Climbs
<1>2. /\ crashes + faults = 0 /\ mode = "saving" /\ Formatted /\ Top \in Call
      /\ Top.addr \in Address
  BY <1>1, SavingStart, FrameType
<1>3. At(Top.addr.block, Top.addr.sector + 1) \in Address
  BY <1>2, Types DEF NextSector, Full
<1>4. /\ frame \in Call /\ frame.pc = "write" /\ frame.to.block = frame.addr.block
  BY <1>2, <1>3 DEF Call, At
<1>5. TopGoes(frame) /\ flash' = flash /\ free' = free /\ mode' = "saving"
  BY <1>2 DEF NextSector
<1> HIDE DEF frame
<1> QED BY <1>1, <1>2, <1>4, <1>5, ClimbTracks, NothingChanges DEF Moved

LEMMA SwapAnchorTracks ==
    ASSUME SuperBlockInv, ChainInv, NothingLeaks, SwapAnchor PROVE NothingLeaks'
<1> SUFFICES ASSUME (crashes + faults = 0)' PROVE NothingLeaks'
  BY DEF NothingLeaks
<1> DEFINE frame == [Top EXCEPT !.to = At(OtherAnchor(Top.addr.block), 0),
                                !.pc = "erase"]
<1>1. Climbs /\ Top.pc = "enter" /\ UNCHANGED counters
  BY ActiveCall DEF SwapAnchor, Climbs
<1>2. /\ crashes + faults = 0 /\ mode = "saving" /\ Formatted /\ Top \in Call
  BY <1>1, SavingStart
<1>3. Top.addr.block \in Anchors /\ At(OtherAnchor(Top.addr.block), 0) \in Address
  BY AnchorFacts, Types DEF SwapAnchor
<1>4. frame \in Call /\ frame.pc = "erase" /\ frame.addr = Top.addr
  BY <1>2, <1>3 DEF Call
<1>5. TopGoes(frame) /\ flash' = flash /\ free' = free /\ mode' = "saving"
  BY <1>2 DEF SwapAnchor
<1> HIDE DEF frame
<1> QED BY <1>1, <1>2, <1>3, <1>4, <1>5, ClimbTracks, NothingChanges DEF Moved

LEMMA AllocateNextTracks ==
    ASSUME SuperBlockInv, ChainInv, NothingLeaks, NEW c \in Pool, NEW erased \in BOOLEAN,
           AllocateNext(c, erased)
    PROVE  NothingLeaks'
<1> SUFFICES ASSUME (crashes + faults = 0)' PROVE NothingLeaks'
  BY DEF NothingLeaks
<1> DEFINE frame == [Top EXCEPT !.to = At(c, 0),
                                !.pc = IF erased THEN "write" ELSE "erase"]
<1>1. Climbs /\ Top.pc = "enter" /\ UNCHANGED counters
  BY ActiveCall DEF AllocateNext, Climbs
<1>2. /\ crashes + faults = 0 /\ mode = "saving" /\ Formatted /\ Top \in Call
      /\ Top.addr.block \notin free
  BY <1>1, SavingStart, ClimbFacts
<1>3. At(c, 0) \in Address
  BY Types
<1>4. /\ frame \in Call /\ frame.pc \in {"erase", "write"} /\ frame.addr = Top.addr
      /\ frame.to.block = c
  BY <1>2, <1>3 DEF Call, At
<1>5. /\ TopGoes(frame) /\ flash' = flash /\ free' = free \ {c} /\ mode' = "saving"
      /\ c \in free /\ Top.addr.block \notin Anchors
  BY <1>2 DEF AllocateNext, Allocates
<1> HIDE DEF frame
<1>6. Moved(frame) /\ KeepsChain
  BY <1>2, <1>4, <1>5, NothingChanges DEF Moved
<1> QED BY <1>1, <1>2, <1>4, <1>5, <1>6, ClimbTracks

LEMMA EraseTargetTracks ==
    ASSUME SuperBlockInv, ChainInv, NothingLeaks, EraseTarget PROVE NothingLeaks'
<1> SUFFICES ASSUME (crashes + faults = 0)' PROVE NothingLeaks'
  BY DEF NothingLeaks
<1> DEFINE frame == [Top EXCEPT !.pc = "write"]
           c == Top.to.block
<1>1. Climbs /\ Top.pc = "erase" /\ UNCHANGED counters
  BY ActiveCall DEF EraseTarget, Climbs
<1>2. /\ crashes + faults = 0 /\ mode = "saving" /\ Formatted /\ Top \in Call
  BY <1>1, SavingStart
<1>3. c \in Blocks /\ ~Chains(c)
  BY <1>1, TargetIsSpared
<1>4. /\ frame \in Call /\ frame.pc = "write" /\ frame.addr = Top.addr
      /\ frame.to = Top.to
  BY <1>2 DEF Call
<1>5. TopGoes(frame) /\ flash' = Erasing(c) /\ free' = free /\ mode' = "saving"
  BY <1>2 DEF EraseTarget
<1>6. /\ \A b \in Blocks : b # c => flash'[b] = flash[b]
      /\ \A s \in Sectors : flash'[c][s] = Erased
      /\ flash' \in Medium
  BY <1>3, <1>5, Quiet, StorageEffect, MediumType
<1> HIDE DEF frame, c
<1>7. KeepsChain
  BY <1>2, <1>3, <1>6, ChainStays
<1>8. \A b \in free : b \in Blocks /\ flash'[b][0] \in {flash[b][0], Erased}
  BY <1>6, Quiet, Types
<1>9. Moved(frame) <=> Moved(Top)
  BY <1>4 DEF Moved
<1> QED BY <1>1, <1>2, <1>4, <1>5, <1>7, <1>8, <1>9, ClimbTracks

LEMMA WriteTargetTracks ==
    ASSUME SuperBlockInv, ChainInv, NothingLeaks, WriteTarget, Moved(Top)
    PROVE  NothingLeaks'
<1> SUFFICES ASSUME (crashes + faults = 0)' PROVE NothingLeaks'
  BY DEF NothingLeaks
<1> DEFINE frame == [Top EXCEPT !.pc = "relink"]
           c == Top.to.block
<1>1. Climbs /\ Top.pc = "write" /\ UNCHANGED counters
  BY ActiveCall DEF WriteTarget, Climbs
<1>2. /\ crashes + faults = 0 /\ mode = "saving" /\ Formatted /\ Top \in Call
      /\ calls # <<>>
  BY <1>1, SavingStart
<1>3. c \in Pool /\ c \in Blocks /\ ~Chains(c) /\ c \notin free
  BY <1>1, <1>2, TargetIsSpared DEF SuperBlockInv, TopReady, Relies, IsFresh
<1>4. /\ frame \in Call /\ frame.pc = "relink" /\ frame.addr = Top.addr
      /\ frame.to = Top.to
  BY <1>2 DEF Call
<1>5. /\ TopGoes(frame) /\ free' = free /\ mode' = "saving"
      /\ flash' = Programming(c, Top.to.sector, Top.link)
  BY <1>2 DEF WriteTarget
<1>6. /\ \A b \in Blocks : b # c => flash'[b] = flash[b]
      /\ flash' \in Medium
  <2>1. Top.link \in Links
    BY <1>2, FrameType
  <2> QED BY <1>3, <1>5, <2>1, Quiet, StorageEffect, MediumType
<1> HIDE DEF frame, c
<1>7. KeepsChain
  BY <1>2, <1>3, <1>6, ChainStays
<1>8. \A b \in free : flash'[b][0] = flash[b][0]
  BY <1>3, <1>6, Quiet, Types
<1>9. Moved(frame) <=> Moved(Top)
  BY <1>4 DEF Moved
<1> QED BY <1>1, <1>2, <1>4, <1>5, <1>7, <1>8, <1>9, ClimbTracks

LEMMA RelinkTracks ==
    ASSUME SuperBlockInv, ChainInv, NothingLeaks, Relink PROVE NothingLeaks'
<1> SUFFICES ASSUME (crashes + faults = 0)' PROVE NothingLeaks'
  BY DEF NothingLeaks
<1>0. PICK n \in {1, 2, 3, 4} : n = Len(calls)
  BY ActiveCall, ClimbFacts DEF Relink, Climbs
<1> DEFINE previous == Walk(flash, Top.addr.block)
           link == [previous.link EXCEPT !.timestamp = NextStamp(@),
                                         !.chained   = Top.to.block]
           nested == Entering(previous.where, link)
           below == [calls EXCEPT ![Len(calls)].pc = "free"]
<1>1. Climbs /\ Top.pc = "relink" /\ Moved(Top) /\ UNCHANGED counters
  BY ActiveCall DEF Relink, Climbs, SuperBlockInv, TopReady
<1>2. /\ crashes + faults = 0 /\ mode = "saving" /\ Formatted
      /\ Top \in Call /\ calls \in Seq(Call) /\ Top = calls[n]
  BY <1>0, <1>1, SavingStart
<1>3. /\ calls' = Append(below, nested) /\ flash' = flash /\ free' = free
      /\ mode' = "saving"
  BY <1>2 DEF Relink
<1>4. /\ Len(calls') = n + 1 /\ calls'[n + 1].pc = "enter" /\ calls' # <<>>
      /\ \A i \in 1 .. n : calls'[i].to = calls[i].to
  <2>1. /\ DOMAIN calls = 1 .. n /\ \A i \in 1 .. n : calls[i] \in Call
    BY <1>0, <1>2
  <2>2. /\ below \in Seq(Call)
        /\ Len(below) = n /\ \A i \in 1 .. n : below[i].to = calls[i].to
    <3>1. DOMAIN below = 1 .. n
      BY <1>0, <2>1
    <3>2. \A i \in 1 .. n : below[i] = IF i = n THEN [calls[n] EXCEPT !.pc = "free"]
                                               ELSE calls[i]
      BY <1>0, <2>1
    <3>3. LET left == [calls[n] EXCEPT !.pc = "free"]
          IN  left \in Call /\ left.to = calls[n].to
      BY <2>1 DEF Call
    <3>4. \A i \in 1 .. n : below[i] \in Call /\ below[i].to = calls[i].to
      BY <2>1, <3>2, <3>3
    <3>5. below = [i \in 1 .. n |-> below[i]]
      BY <1>0, <2>1
    <3> HIDE DEF below
    <3> QED BY <3>1, <3>4, <3>5
  <2> HIDE DEF below
  <2>3. nested.pc = "enter"
    BY DEF Entering
  <2> HIDE DEF nested
  <2> QED BY <1>3, <2>2, <2>3
<1>5. Top' = calls'[n + 1] /\ Climbs' /\ ~Descends'
  BY <1>4 DEF Top, Climbs, Descends
<1>6. ASSUME NEW b \in Pool PROVE b \in free' <=> ~InUse(b)'
  <2>1. InUse(b) <=> Chains(b) \/ MovedTo(b)
    BY <1>1, InUseClimbing
  <2>2. MovedTo(b) <=> \E i \in 1 .. n : b = calls[i].to.block
    <3>1. \A i : i \in 1 .. n <=> i \in 1 .. n - 1 \/ i = n
      OBVIOUS
    <3> QED BY <1>0, <1>1, <1>2, <3>1 DEF MovedTo
  <2>3. MovedTo(b)' <=> \E i \in 1 .. n : b = calls[i].to.block
    <3>1. \A i : i \in 1 .. Len(calls') - 1 <=> i \in 1 .. n
      BY <1>4
    <3> QED BY <1>4, <1>5, <3>1 DEF MovedTo
  <2>4. InUse(b)' <=> Chains(b)' \/ MovedTo(b)'
    BY <1>3, <1>5 DEF InUse
  <2>5. Chains(b)' <=> Chains(b)
    BY <1>2, <1>3, NothingChanges, KeptFacts
  <2>6. b \in free <=> ~InUse(b)
    BY <1>2 DEF NothingLeaks
  <2> QED BY <1>3, <2>1, <2>2, <2>3, <2>4, <2>5, <2>6
<1>7. \A b \in free' : ~IsTaken(flash', b)
  BY <1>2, <1>3 DEF NothingLeaks
<1> QED BY <1>3, <1>5, <1>6, <1>7 DEF NothingLeaks, LeftApart

(* The write that switches: what the calls moved to becomes the chain, and  *)
(* what was the chain becomes what they left.                               *)
LEMMA SwitchTracks ==
    ASSUME SuperBlockInv, ChainInv, NothingLeaks, OneLife, WriteTarget, ~Moved(Top)
    PROVE  NothingLeaks'
<1> SUFFICES ASSUME (crashes + faults = 0)' PROVE NothingLeaks'
  BY DEF NothingLeaks
<1>0. PICK n \in {1, 2, 3, 4} : n = Len(calls)
  BY ActiveCall, ClimbFacts DEF WriteTarget, Climbs
<1> DEFINE frame == [Top EXCEPT !.pc = "done"]
           m == 4 - n
<1>1. /\ Running("write") /\ Climbs /\ Top.pc = "write" /\ UNCHANGED counters
  BY ActiveCall DEF WriteTarget, Climbs
<1>2. /\ crashes + faults = 0 /\ faults = 0 /\ mode = "saving" /\ Formatted
      /\ Top \in Call /\ calls \in Seq(Call) /\ calls # <<>> /\ Top = calls[n]
  BY <1>0, <1>1, SavingStart
<1>3. /\ TopGoes(frame) /\ free' = free /\ mode' = "saving"
      /\ flash' = Programming(Top.to.block, Top.to.sector, Top.link)
  BY <1>2 DEF WriteTarget
<1>4. frame \in Call /\ frame.pc = "done" /\ frame.addr = Top.addr
  BY <1>2 DEF Call
<1> HIDE DEF frame
<1>5. /\ Len(calls') = n /\ Top' = frame /\ calls' # <<>>
      /\ \A i \in 1 .. n : calls'[i].addr = calls[i].addr
  BY <1>0, <1>2, <1>3, <1>4, TopReplaced
<1>6. m \in Levels /\ \A i \in 1 .. n : 4 - i \in Levels
  BY DEF Levels
<1>7. \A i \in 1 .. n : calls[i].addr.block = Tip(4 - i).block
  BY <1>0, <1>1, <1>2, ClimbIsSure
<1>8. /\ Tips(flash') = SwitchedTips(m)
      /\ \A i \in 1 .. n : SwitchedTips(m)[4 - i] = calls[i].to
      /\ \A k \in Levels : k < m => SwitchedTips(m)[k] = Tip(k)
  <2>1. m = 4 - Len(calls) /\ m \in Levels
    BY <1>0, <1>6
  <2> HIDE DEF m
  <2>2. /\ Tips(flash') = SwitchedTips(m)
        /\ \A i \in 1 .. Len(calls) : SwitchedTips(m)[4 - i] = calls[i].to
    BY <1>1, <1>3, <2>1, WriteSwitches
  <2>3. \A k \in Levels : k < m => SwitchedTips(m)[k] = Tip(k)
    <3>1. \A k \in Levels : k < m => ~(k >= m)
      BY <2>1 DEF Levels
    <3> QED BY <3>1 DEF SwitchedTips
  <2> QED BY <1>0, <2>2, <2>3
<1>9. /\ \A i \in 1 .. n : Tip(4 - i)' = calls[i].to
      /\ \A k \in Levels : k < m => Tip(k)' = Tip(k)
  BY <1>8 DEF Tip
<1>10. /\ \/ Top.to.block = Tip(m).block
          \/ Top.to.block \notin Pool /\ Tip(m).block \notin Pool
       /\ Top.to.block \notin free /\ Top.to.block \in Blocks
  <2>1. /\ Top.to \in Address
        /\ \/ Top.to.block = Tip(m).block
           \/ m = 0 /\ Top.to = At(OtherAnchor(Tip(0).block), 0)
    <3>1. m = 4 - Len(calls) /\ m \in Levels
      BY <1>0, <1>6
    <3> HIDE DEF m
    <3> QED BY <1>1, <3>1, AimIsNext
  <2>2. /\ Tip(0).block \notin Pool /\ OtherAnchor(Tip(0).block) \notin Pool
    BY <1>2, FormattedFacts, AnchorFacts
  <2>3. Tip(m).block \notin free
    BY <1>1, <1>2, <1>6, FormattedFacts, FreeIsSpared, ClimbFacts DEF Chains
  <2> QED BY <2>1, <2>2, <2>3, Quiet, Types DEF At
<1>11. \A b \in free' : ~IsTaken(flash', b)
  <2>1. \A b \in free : flash'[b] = flash[b]
    <3>1. Top.link \in Links /\ free \subseteq Blocks
      BY <1>2, FrameType, Quiet, Types
    <3> QED BY <1>3, <1>10, <3>1, Quiet, StorageEffect
  <2> QED BY <1>2, <1>3, <2>1 DEF NothingLeaks, IsTaken
<1>12. \A i \in 1 .. n : i \in 1 .. n - 1 \/ i = n
  OBVIOUS
<1>13. \A i \in 1 .. n - 1 : i \in 1 .. n
  OBVIOUS
<1>14. ASSUME NEW b \in Pool PROVE b \in free' <=> ~InUse(b)'
  <2> DEFINE lower == \E k \in Levels : k < m /\ b = Tip(k).block
             left == \E i \in 1 .. n - 1 : b = calls[i].addr.block
             entered == \E i \in 1 .. n - 1 : b = calls[i].to.block
  <2>1. \A k \in Levels : k < m \/ \E i \in 1 .. n : k = 4 - i
    <3>1. \A k \in 0 .. 3 : ~(k < 4 - n) => 4 - k \in 1 .. n /\ k = 4 - (4 - k)
      OBVIOUS
    <3> QED BY <3>1 DEF Levels
  <2> HIDE DEF m
  <2>2. Chains(b) <=> lower \/ left \/ b = Tip(m).block
    <3>1. \A i \in 1 .. n - 1 : 4 - i \in Levels /\ calls[i].addr.block = Tip(4 - i).block
      BY <1>6, <1>7, <1>13
    <3>2. 4 - n = m
      BY DEF m
    <3>3. Chains(b) => lower \/ left \/ b = Tip(m).block
      BY <1>12, <2>1, <3>1, <3>2 DEF Chains
    <3> QED BY <1>6, <3>1, <3>3 DEF Chains
  <2>3. Chains(b)' <=> lower \/ entered \/ b = Top.to.block
    <3>1. \A i \in 1 .. n - 1 : 4 - i \in Levels /\ Tip(4 - i)' = calls[i].to
      BY <1>6, <1>9, <1>13
    <3>2. Tip(m)' = Top.to
      <4>1. n \in 1 .. n /\ 4 - n = m
        BY DEF m
      <4> QED BY <1>2, <1>9, <4>1
    <3>3. Chains(b)' <=> \E k \in Levels : b = Tip(k)'.block
      BY DEF Chains
    <3>4. 4 - n = m
      BY DEF m
    <3>5. Chains(b)' => lower \/ entered \/ b = Top.to.block
      BY <1>9, <1>12, <2>1, <3>1, <3>2, <3>3, <3>4
    <3> QED BY <1>6, <1>9, <3>1, <3>2, <3>3, <3>5
  <2>4. InUse(b) <=> Chains(b) \/ entered
    <3>1. MovedTo(b) <=> entered
      BY <1>0 DEF MovedTo
    <3> QED BY <1>1, <3>1, InUseClimbing
  <2>5. InUse(b)' <=> Chains(b)' \/ left
    <3>1. \A i \in 1 .. n - 1 : calls'[i].addr = calls[i].addr
      BY <1>5, <1>13
    <3>2. (\E i \in 1 .. Len(calls') - 1 : b = calls'[i].addr.block) <=> left
      BY <1>5, <3>1
    <3>3. LeftBehind(b)' <=> left
      BY <1>4, <1>5, <3>2 DEF LeftBehind
    <3> QED BY <1>3, <1>4, <1>5, <3>3 DEF InUse, Climbs, Descends
  <2>6. b = Top.to.block <=> b = Tip(m).block
    BY <1>10 DEF m
  <2>7. b \in free <=> ~InUse(b)
    BY <1>2 DEF NothingLeaks
  <2> HIDE DEF lower, left, entered
  <2> QED BY <1>3, <2>2, <2>3, <2>4, <2>5, <2>6, <2>7
<1>15. LeftApart'
  <2>1. ASSUME NEW i \in 1 .. n, NEW j \in 1 .. n,
               calls[i].addr.block = calls[j].addr.block
        PROVE  i = j
    <3>1. 4 - i = 4 - j
      BY <1>2, <1>6, <1>7, <2>1, FormattedFacts
    <3> QED BY <3>1
  <2> QED BY <1>4, <1>5, <2>1 DEF LeftApart
<1> QED BY <1>3, <1>11, <1>14, <1>15 DEF NothingLeaks

(* The calls return. *)
LEMMA DescendingStart ==
    ASSUME SuperBlockInv, ChainInv, Descends, UNCHANGED counters,
           (crashes + faults = 0)'
    PROVE  /\ crashes + faults = 0 /\ mode = "saving" /\ Formatted
           /\ Top \in Call /\ calls \in Seq(Call) /\ calls # <<>>
           /\ Top = calls[Len(calls)]
<1>1. crashes + faults = 0
  BY DEF counters
<1> QED BY <1>1, DescendFacts

LEMMA FreeErasesTracks ==
    ASSUME SuperBlockInv, ChainInv, NothingLeaks, FreeErases PROVE NothingLeaks'
<1> SUFFICES ASSUME (crashes + faults = 0)' PROVE NothingLeaks'
  BY DEF NothingLeaks
<1> DEFINE frame == [Top EXCEPT !.link = FreedHead(Top.addr.block), !.pc = "mark"]
           c == Top.addr.block
<1>1. Descends /\ Top.pc = "free" /\ UNCHANGED counters
  BY ActiveCall DEF FreeErases, Descends
<1>0. PICK n \in {1, 2, 3, 4} : n = Len(calls)
  BY <1>1, DescendFacts
<1>2. /\ crashes + faults = 0 /\ mode = "saving" /\ Formatted
      /\ Top \in Call /\ calls \in Seq(Call) /\ calls # <<>> /\ Top = calls[n]
  BY <1>0, <1>1, DescendingStart
<1>3. c \in Pool /\ ~Chains(c) /\ c \in Blocks
  BY <1>1, DescendFacts, Types
<1>4. /\ frame \in Call /\ frame.pc = "mark" /\ frame.addr = Top.addr
      /\ frame.link.type = "Unallocated"
  BY <1>2, <1>3, FreedHeadType, Quiet DEF Call, FreedHead, Link
<1>5. TopGoes(frame) /\ flash' = Erasing(c) /\ free' = free /\ mode' = "saving"
  BY <1>2 DEF FreeErases
<1>6. /\ \A b \in Blocks : b # c => flash'[b] = flash[b]
      /\ \A s \in Sectors : flash'[c][s] = Erased
      /\ flash' \in Medium
  BY <1>3, <1>5, Quiet, StorageEffect, MediumType
<1> HIDE DEF frame, c
<1>7. KeepsChain
  BY <1>2, <1>3, <1>6, ChainStays
<1>8. /\ Len(calls') = n /\ Top' = frame /\ calls' # <<>>
      /\ \A i \in 1 .. n : calls'[i].addr = calls[i].addr
  BY <1>0, <1>2, <1>4, <1>5, TopReplaced
<1>9. \A b \in free' : ~IsTaken(flash', b)
  <2>1. \A b \in free : b \in Blocks /\ flash'[b][0] \in {flash[b][0], Erased}
    BY <1>6, Quiet, Types
  <2> QED BY <1>2, <1>5, <2>1 DEF NothingLeaks, IsTaken
<1>10. ASSUME NEW b \in Pool PROVE b \in free' <=> ~InUse(b)'
  <2> DEFINE left == \E i \in 1 .. n - 1 : b = calls[i].addr.block
  <2>1. InUse(b) <=> Chains(b) \/ left \/ b = Top.addr.block
    <3>1. LeftBehind(b) <=> left \/ b = Top.addr.block
      BY <1>0, <1>1 DEF LeftBehind
    <3> QED BY <1>1, <3>1, InUseDescending
  <2>2. InUse(b)' <=> Chains(b)' \/ left \/ b = Top.addr.block
    <3>1. (\E i \in 1 .. Len(calls') - 1 : b = calls'[i].addr.block) <=> left
      BY <1>8
    <3>2. LeftBehind(b)' <=> left \/ b = Top.addr.block
      BY <1>4, <1>8, <3>1 DEF LeftBehind
    <3> QED BY <1>4, <1>5, <1>8, <3>2 DEF InUse, Climbs, Descends
  <2>3. Chains(b)' <=> Chains(b)
    BY <1>7, KeptFacts
  <2>4. b \in free <=> ~InUse(b)
    BY <1>2 DEF NothingLeaks
  <2> HIDE DEF left
  <2> QED BY <1>5, <2>1, <2>2, <2>3, <2>4
<1>11. LeftApart'
  <2>1. \A i, j \in 1 .. n : calls[i].addr.block = calls[j].addr.block => i = j
    BY <1>0, <1>1, <1>2 DEF NothingLeaks, LeftApart
  <2> QED BY <1>4, <1>8, <2>1 DEF LeftApart
<1> QED BY <1>5, <1>9, <1>10, <1>11 DEF NothingLeaks

LEMMA FreeMarksTracks ==
    ASSUME SuperBlockInv, ChainInv, NothingLeaks, FreeMarks PROVE NothingLeaks'
<1> SUFFICES ASSUME (crashes + faults = 0)' PROVE NothingLeaks'
  BY DEF NothingLeaks
<1> DEFINE frame == [Top EXCEPT !.pc = "done"]
           c == Top.addr.block
<1>1. Descends /\ Top.pc = "mark" /\ UNCHANGED counters
  BY ActiveCall DEF FreeMarks, Descends
<1>0. PICK n \in {1, 2, 3, 4} : n = Len(calls)
  BY <1>1, DescendFacts
<1>2. /\ crashes + faults = 0 /\ mode = "saving" /\ Formatted
      /\ Top \in Call /\ calls \in Seq(Call) /\ calls # <<>> /\ Top = calls[n]
  BY <1>0, <1>1, DescendingStart
<1>3. c \in Pool /\ ~Chains(c) /\ c \in Blocks
  BY <1>1, DescendFacts, Types
<1>4. frame \in Call /\ frame.pc = "done" /\ frame.addr = Top.addr
  BY <1>2 DEF Call
<1>5. /\ TopGoes(frame) /\ free' = free \union {c} /\ mode' = "saving"
      /\ flash' = Programming(c, 0, Top.link)
  BY <1>2 DEF FreeMarks
<1>6. /\ \A b \in Blocks : b # c => flash'[b] = flash[b]
      /\ flash'[c][0] = Top.link
      /\ flash' \in Medium
  <2>1. Top.link \in Links /\ 0 \in Sectors
    BY <1>2, FrameType, Types
  <2> HIDE DEF c
  <2>2. /\ flash \in Medium /\ flash[c] \in [Sectors -> Links \union {Erased}]
        /\ flash'[c] = [flash[c] EXCEPT ![0] = Top.link]
        /\ \A b \in Blocks : b # c => flash'[b] = flash[b]
    <3>1. flash \in Medium
      BY Quiet
    <3>2. flash[c] \in [Sectors -> Links \union {Erased}]
      BY <1>3, <3>1, StorageEffect
    <3>3. Programming(c, 0, Top.link)[c] = [flash[c] EXCEPT ![0] = Top.link]
      BY <1>3, <3>1, StorageEffect
    <3>4. \A b \in Blocks : b # c => Programming(c, 0, Top.link)[b] = flash[b]
      BY <1>3, <3>1, StorageEffect
    <3> QED BY <1>5, <3>1, <3>2, <3>3, <3>4
  <2>3. flash'[c][0] = Top.link
    BY <2>1, <2>2
  <2>4. flash' \in Medium
    BY <1>5, <2>1, <2>2, MediumType
  <2> QED BY <2>2, <2>3, <2>4
<1>7. \A i, j \in 1 .. n : calls[i].addr.block = calls[j].addr.block => i = j
  BY <1>0, <1>1, <1>2 DEF NothingLeaks, LeftApart
<1>8. Top.link.type = "Unallocated"
  BY <1>1, <1>2 DEF NothingLeaks, LeftApart
<1> HIDE DEF frame, c
<1>9. KeepsChain
  BY <1>2, <1>3, <1>6, ChainStays
<1>10. /\ Len(calls') = n /\ Top' = frame /\ calls' # <<>>
       /\ \A i \in 1 .. n : calls'[i].addr = calls[i].addr
  BY <1>0, <1>2, <1>4, <1>5, TopReplaced
<1>11. \A b \in free' : ~IsTaken(flash', b)
  <2>1. \A b \in free : b # c => flash'[b] = flash[b]
    BY <1>6, Quiet, Types
  <2>2. ~IsTaken(flash', c)
    BY <1>6, <1>8 DEF IsTaken
  <2> QED BY <1>2, <1>5, <2>1, <2>2 DEF NothingLeaks, IsTaken
<1>12. ASSUME NEW b \in Pool PROVE b \in free' <=> ~InUse(b)'
  <2> DEFINE left == \E i \in 1 .. n - 1 : b = calls[i].addr.block
  <2>1. InUse(b) <=> Chains(b) \/ left \/ b = c
    <3>1. LeftBehind(b) <=> left \/ b = c
      BY <1>0, <1>1 DEF LeftBehind, c
    <3> QED BY <1>1, <3>1, InUseDescending
  <2>2. InUse(b)' <=> Chains(b)' \/ left
    <3>1. (\E i \in 1 .. Len(calls') - 1 : b = calls'[i].addr.block) <=> left
      BY <1>10
    <3>2. LeftBehind(b)' <=> left
      BY <1>4, <1>10, <3>1 DEF LeftBehind
    <3> QED BY <1>4, <1>5, <1>10, <3>2 DEF InUse, Climbs, Descends
  <2>3. Chains(b)' <=> Chains(b)
    BY <1>9, KeptFacts
  <2>4. b \in free <=> ~InUse(b)
    BY <1>2 DEF NothingLeaks
  <2>5. b = c => ~Chains(b) /\ ~left
    <3>1. \A i \in 1 .. n - 1 : i \in 1 .. n /\ n \in 1 .. n /\ i # n
      OBVIOUS
    <3> QED BY <1>2, <1>3, <1>7, <3>1 DEF c
  <2> HIDE DEF left
  <2> QED BY <1>5, <2>1, <2>2, <2>3, <2>4, <2>5
<1>13. LeftApart'
  BY <1>4, <1>7, <1>10 DEF LeftApart
<1> QED BY <1>5, <1>11, <1>12, <1>13 DEF NothingLeaks

LEMMA RolloverReturnsTracks ==
    ASSUME SuperBlockInv, ChainInv, NothingLeaks, RolloverReturns PROVE NothingLeaks'
<1> SUFFICES ASSUME (crashes + faults = 0)' PROVE NothingLeaks'
  BY DEF NothingLeaks
<1>1. Descends /\ Top.pc = "done" /\ UNCHANGED counters
  BY ActiveCall DEF RolloverReturns, Descends
<1>0. PICK n \in {2, 3, 4} : n = Len(calls)
  BY <1>1, DescendFacts DEF RolloverReturns
<1>2. /\ crashes + faults = 0 /\ mode = "saving" /\ Formatted
      /\ Top \in Call /\ calls \in Seq(Call) /\ calls # <<>> /\ Top = calls[n]
  BY <1>0, <1>1, DescendingStart
<1>3. /\ calls' = SubSeq(calls, 1, n - 1) /\ flash' = flash /\ free' = free
      /\ mode' = "saving"
  BY <1>0, <1>2 DEF RolloverReturns
<1>4. /\ Len(calls') = n - 1 /\ calls' # <<>>
      /\ \A i \in 1 .. n - 1 : calls'[i] = calls[i]
  BY <1>0, <1>2, <1>3
<1>5. Top' = calls[n - 1] /\ calls[n - 1].pc = "free"
  <2>1. n - 1 \in 1 .. n - 1
    OBVIOUS
  <2>2. Top' = calls'[n - 1]
    BY <1>4 DEF Top
  <2> QED BY <1>0, <1>4, <2>1, <2>2 DEF SuperBlockInv, Waiting
<1>6. \A b \in free' : ~IsTaken(flash', b)
  BY <1>2, <1>3 DEF NothingLeaks
<1>7. ASSUME NEW b \in Pool PROVE b \in free' <=> ~InUse(b)'
  <2> DEFINE left == \E i \in 1 .. n - 1 : b = calls[i].addr.block
  <2>1. InUse(b) <=> Chains(b) \/ left
    <3>1. LeftBehind(b) <=> left
      BY <1>0, <1>1 DEF LeftBehind
    <3> QED BY <1>1, <3>1, InUseDescending
  <2>2. InUse(b)' <=> Chains(b)' \/ left
    <3>1. \A i : i \in 1 .. n - 1 <=> i \in 1 .. (n - 1) - 1 \/ i = n - 1
      OBVIOUS
    <3>2. \A i \in 1 .. (n - 1) - 1 : calls'[i] = calls[i]
      BY <1>4, <3>1
    <3>3. LeftBehind(b)' <=> \/ \E i \in 1 .. (n - 1) - 1 : b = calls[i].addr.block
                             \/ b = calls[n - 1].addr.block
      BY <1>4, <1>5, <3>2 DEF LeftBehind
    <3>4. LeftBehind(b)' <=> left
      BY <3>1, <3>3
    <3>5. Descends' /\ ~Climbs'
      BY <1>4, <1>5 DEF Descends, Climbs
    <3> QED BY <1>3, <3>4, <3>5 DEF InUse
  <2>3. Chains(b)' <=> Chains(b)
    BY <1>2, <1>3, NothingChanges, KeptFacts
  <2>4. b \in free <=> ~InUse(b)
    BY <1>2 DEF NothingLeaks
  <2> HIDE DEF left
  <2> QED BY <1>3, <2>1, <2>2, <2>3, <2>4
<1>8. LeftApart'
  <2>1. \A i, j \in 1 .. n : calls[i].addr.block = calls[j].addr.block => i = j
    BY <1>0, <1>1, <1>2 DEF NothingLeaks, LeftApart
  <2>2. \A i \in 1 .. n - 1 : i \in 1 .. n
    OBVIOUS
  <2> QED BY <1>4, <1>5, <2>1, <2>2 DEF LeftApart
<1> QED BY <1>3, <1>6, <1>7, <1>8 DEF NothingLeaks

LEMMA SaveReturnsTracks ==
    ASSUME SuperBlockInv, ChainInv, NothingLeaks, SaveReturns PROVE NothingLeaks'
<1> SUFFICES ASSUME (crashes + faults = 0)' PROVE NothingLeaks'
  BY DEF NothingLeaks
<1>1. Descends /\ Top.pc = "done" /\ UNCHANGED counters /\ Len(calls) = 1
  BY ActiveCall DEF SaveReturns, Descends
<1>2. /\ crashes + faults = 0 /\ mode = "saving" /\ Formatted
  BY <1>1, DescendingStart
<1>3. calls' = <<>> /\ flash' = flash /\ free' = free /\ mode' = "idle"
  BY DEF SaveReturns, Stop
<1>4. \A b \in free' : ~IsTaken(flash', b)
  BY <1>2, <1>3 DEF NothingLeaks
<1>5. ASSUME NEW b \in Pool PROVE b \in free' <=> ~InUse(b)'
  <2>1. InUse(b) <=> Chains(b)
    BY <1>1, InUseDescending DEF LeftBehind
  <2>2. InUse(b)' <=> Chains(b)'
    BY <1>3 DEF InUse, Climbs, Descends
  <2>3. Chains(b)' <=> Chains(b)
    BY <1>2, <1>3, NothingChanges, KeptFacts
  <2> QED BY <1>2, <1>3, <2>1, <2>2, <2>3 DEF NothingLeaks
<1> QED BY <1>3, <1>4, <1>5 DEF NothingLeaks, LeftApart, Descends

-----------------------------------------------------------------------------
(* The other calls. *)

LEMMA SaveTracks ==
    ASSUME SuperBlockInv, ChainInv, NothingLeaks, Save PROVE NothingLeaks'
<1> SUFFICES ASSUME (crashes + faults = 0)' PROVE NothingLeaks'
  BY DEF NothingLeaks
<1>1. /\ crashes + faults = 0 /\ mode = "idle" /\ calls = <<>> /\ mode' = "saving"
      /\ flash' = flash /\ free' = free
  BY Quiet DEF Save
<1>2. PICK link : calls' = <<Entering(location, link)>>
  BY DEF Save
<1>3. /\ Len(calls') = 1 /\ calls' # <<>> /\ Top' = Entering(location, link)
      /\ Top'.pc = "enter"
  BY <1>2 DEF Top, Entering
<1>4. Climbs' /\ ~Descends'
  BY <1>3 DEF Climbs, Descends
<1>5. \A b \in free' : ~IsTaken(flash', b)
  BY <1>1 DEF NothingLeaks
<1>6. ASSUME NEW b \in Pool PROVE b \in free' <=> ~InUse(b)'
  <2>1. ~MovedTo(b)'
    BY <1>3 DEF MovedTo
  <2>2. InUse(b)' <=> Chains(b)'
    BY <1>1, <1>4, <2>1 DEF InUse
  <2>3. InUse(b) <=> Chains(b)
    BY <1>1, InUseQuiet
  <2>4. Formatted
    BY <1>1 DEF ChainInv, Volume
  <2>5. Chains(b)' <=> Chains(b)
    BY <1>1, <2>4, NothingChanges, KeptFacts
  <2> QED BY <1>1, <2>2, <2>3, <2>5 DEF NothingLeaks
<1> QED BY <1>1, <1>4, <1>5, <1>6 DEF NothingLeaks, LeftApart

(* What is to be shown of a step of create(). *)
LEMMA StillCreating ==
    ASSUME mode' = "creating", calls' = <<>>,
           \A b \in free' : ~IsTaken(flash', b),
           \A b \in Pool : b \in free' <=> ~SetUp(b)'
    PROVE  NothingLeaks'
<1>1. \A b \in Pool : InUse(b)' <=> SetUp(b)'
  BY DEF InUse, Climbs, Descends
<1> QED BY <1>1 DEF NothingLeaks, LeftApart, Descends

LEMMA CreateTracks ==
    ASSUME SuperBlockInv, ChainInv, NothingLeaks, OneLife, Create PROVE NothingLeaks'
<1> SUFFICES ASSUME (crashes + faults = 0)' PROVE NothingLeaks'
  BY DEF NothingLeaks
<1>1. /\ crashes + faults = 0 /\ mode \in {"down", "idle"} /\ calls = <<>>
      /\ calls' = <<>> /\ mode' = "creating" /\ creation' = NoCreation
      /\ flash' = flash /\ free' = free
  BY Quiet DEF Create
<1>2. mode = "down"
  <2>1. ~Found(Super(flash))
    BY CountersType DEF Create, OneLife, SuperBlockInv
  <2> QED BY <1>1, <2>1, EitherFormattedOrNot DEF ChainInv, Volume
<1>3. \A b \in Pool : ~InUse(b)
  BY <1>1, <1>2, InUseQuiet
<1>4. \A b \in Pool : ~SetUp(b)'
  BY <1>1 DEF SetUp, NoCreation
<1> QED BY <1>1, <1>3, <1>4, StillCreating DEF NothingLeaks

LEMMA CreatingStart ==
    ASSUME SuperBlockInv, ChainInv, NothingLeaks, mode = "creating",
           UNCHANGED counters, (crashes + faults = 0)'
    PROVE  /\ crashes + faults = 0 /\ calls = <<>> /\ Preparing
           /\ \A b \in free : ~IsTaken(flash, b)
           /\ \A b \in Pool : b \in free <=> ~SetUp(b)
<1>1. crashes + faults = 0 /\ calls = <<>> /\ Preparing
  BY Quiet DEF counters, ChainInv, CreationInv
<1>2. \A b \in Pool : InUse(b) <=> SetUp(b)
  BY <1>1, InUseQuiet
<1> QED BY <1>1, <1>2 DEF NothingLeaks

LEMMA CreateAllocatesTracks ==
    ASSUME SuperBlockInv, ChainInv, NothingLeaks, NEW c \in Pool, CreateAllocates(c)
    PROVE  NothingLeaks'
<1> SUFFICES ASSUME (crashes + faults = 0)' PROVE NothingLeaks'
  BY DEF NothingLeaks
<1>1. mode = "creating" /\ creation.pc = "allocate" /\ UNCHANGED counters
  BY DEF CreateAllocates, Creating
<1>2. /\ calls = <<>> /\ Preparing
      /\ \A b \in free : ~IsTaken(flash, b)
      /\ \A b \in Pool : b \in free <=> ~SetUp(b)
  BY <1>1, CreatingStart
<1>3. creation.level \in {0, 1, 2}
  BY <1>1, <1>2, CreationFacts DEF Preparing, CreationSteps
<1>4. /\ creation'.level = creation.level /\ creation'.pc = "erase"
      /\ creation'.block = c /\ creation'.chained = creation.chained
      /\ creation'.super = IF creation.level = 0 THEN c ELSE creation.super
      /\ flash' = flash /\ free' = free \ {c} /\ mode' = "creating" /\ calls' = <<>>
  BY <1>1, <1>2, CreationFacts DEF CreateAllocates, Allocates, Creation
<1>5. \A b \in Pool : SetUp(b)' <=> SetUp(b) \/ b = c
  <2>1. CASE creation.level = 0
    BY <1>1, <1>4, <2>1 DEF SetUp
  <2>2. CASE creation.level = 1
    BY <1>1, <1>4, <2>2 DEF SetUp
  <2>3. CASE creation.level = 2
    BY <1>1, <1>4, <2>3 DEF SetUp, Link1
  <2> QED BY <1>3, <2>1, <2>2, <2>3
<1> QED BY <1>2, <1>4, <1>5, StillCreating

LEMMA CreateErasesTracks ==
    ASSUME SuperBlockInv, ChainInv, NothingLeaks, CreateErases PROVE NothingLeaks'
<1> SUFFICES ASSUME (crashes + faults = 0)' PROVE NothingLeaks'
  BY DEF NothingLeaks
<1> DEFINE c == creation.block
<1>1. mode = "creating" /\ creation.pc = "erase" /\ UNCHANGED counters
  BY DEF CreateErases, Creating
<1>2. /\ calls = <<>> /\ Preparing
      /\ \A b \in free : ~IsTaken(flash, b)
      /\ \A b \in Pool : b \in free <=> ~SetUp(b)
  BY <1>1, CreatingStart
<1>3. creation.level \in {0, 1, 2, 3, 4} /\ c = InPreparation
  BY <1>1, <1>2, CreationFacts DEF Preparing, CreationSteps
<1>4. /\ c \in Blocks
      /\ creation.level \in {3, 4} => c \in Anchors /\ c \notin Pool
  BY <1>1, <1>2, <1>3, CreationFacts DEF Preparing, InPreparation, Anchors
<1>5. /\ \A b \in Blocks : b # c => flash'[b] = flash[b]
      /\ \A s \in Sectors : flash'[c][s] = Erased
      /\ free' = free /\ mode' = "creating" /\ calls' = <<>>
  <2>1. flash' = Erasing(c)
    BY DEF CreateErases
  <2>2. /\ \A b \in Blocks : b # c => Erasing(c)[b] = flash[b]
        /\ Erasing(c)[c] = [s \in Sectors |-> Erased]
    BY <1>4, CreationFacts, StorageEffect
  <2> QED BY <1>1, <1>2, <2>1, <2>2 DEF CreateErases
<1>6. \A b \in free' : ~IsTaken(flash', b)
  <2>1. \A b \in free : b \in Blocks /\ flash'[b][0] \in {flash[b][0], Erased}
    BY <1>5, Quiet, Types
  <2> QED BY <1>2, <1>5, <2>1 DEF IsTaken
<1>7. \A b \in Pool : SetUp(b)' <=> SetUp(b)
  <2>1. CASE creation.level = 0
    <3>1. creation' = NextLevel(creation)
      BY <2>1 DEF CreateErases
    <3>2. /\ creation'.level = 1 /\ creation'.pc = "allocate"
          /\ creation'.super = creation.super /\ c = creation.super
      BY <1>3, <2>1, <3>1, NextLevels, CreationFacts DEF InPreparation
    <3> QED BY <1>1, <2>1, <3>2 DEF SetUp
  <2>2. CASE creation.level # 0
    <3>1. /\ creation'.level = creation.level /\ creation'.pc = "write"
          /\ creation'.block = creation.block /\ creation'.super = creation.super
          /\ creation'.chained = creation.chained
      BY <2>2, CreationFacts DEF CreateErases, Creation
    <3>2. CASE creation.level = 1
      BY <1>1, <3>1, <3>2 DEF SetUp
    <3>3. CASE creation.level = 2
      BY <1>1, <3>1, <3>3 DEF SetUp, Link1
    <3>4. CASE creation.level \in {3, 4}
      <4>1. creation.chained \in Pool
        BY <1>2, <3>4 DEF Preparing, Link2
      <4>2. flash'[creation.chained] = flash[creation.chained]
        BY <1>4, <1>5, <3>4, <4>1, Types
      <4>3. Link1' = Link1 /\ Link2' = Link2
        BY <3>1, <3>4, <4>2 DEF Link1, Link2
      <4> QED BY <1>1, <3>1, <3>4, <4>3 DEF SetUp
    <3> QED BY <1>3, <2>2, <3>2, <3>3, <3>4
  <2> QED BY <2>1, <2>2
<1> QED BY <1>2, <1>5, <1>6, <1>7, StillCreating

LEMMA CreateWritesTracks ==
    ASSUME SuperBlockInv, ChainInv, NothingLeaks, CreateWrites PROVE NothingLeaks'
<1> SUFFICES ASSUME (crashes + faults = 0)' PROVE NothingLeaks'
  BY DEF NothingLeaks
<1> DEFINE c == creation.block
<1>1. mode = "creating" /\ creation.pc = "write" /\ UNCHANGED counters
  BY DEF CreateWrites, Creating
<1>2. /\ calls = <<>> /\ Preparing
      /\ \A b \in free : ~IsTaken(flash, b)
      /\ \A b \in Pool : b \in free <=> ~SetUp(b)
  BY <1>1, CreatingStart
<1>3. creation.level \in {1, 2, 3, 4, 5} /\ c = InPreparation
  BY <1>1, <1>2, CreationFacts DEF Preparing, CreationSteps
<1>4. /\ c \in Blocks /\ c \notin free
      /\ creation.level \in {3, 4} => c \in Anchors /\ c \notin Pool
      /\ creation.level = 5 => c = creation.super
  BY <1>1, <1>2, <1>3, CreationFacts, Quiet DEF Preparing, InPreparation, Anchors
<1>5. /\ \A b \in Blocks : b # c => flash'[b] = flash[b]
      /\ flash'[c] = [flash[c] EXCEPT ![0] = CreationLink]
      /\ free' = free /\ mode' = "creating" /\ calls' = <<>>
  <2>1. flash' = Programming(c, 0, CreationLink)
    BY DEF CreateWrites
  <2>2. /\ \A b \in Blocks : b # c => Programming(c, 0, CreationLink)[b] = flash[b]
        /\ Programming(c, 0, CreationLink)[c] = [flash[c] EXCEPT ![0] = CreationLink]
    BY <1>4, CreationFacts, StorageEffect
  <2> QED BY <1>1, <1>2, <2>1, <2>2 DEF CreateWrites
<1>6. \A b \in free' : ~IsTaken(flash', b)
  <2>1. \A b \in free : flash'[b] = flash[b]
    BY <1>4, <1>5, Quiet, Types
  <2> QED BY <1>2, <1>5, <2>1 DEF IsTaken
<1>7. \A b \in Pool : SetUp(b)' <=> SetUp(b)
  <2>1. CASE creation.level \in {1, 2, 3, 4}
    <3>1. creation' = NextLevel(creation)
      BY <2>1 DEF CreateWrites
    <3>2. CASE creation.level = 1
      <4>1. /\ creation'.level = 2 /\ creation'.pc = "allocate"
            /\ creation'.super = creation.super /\ creation'.chained = c
        BY <3>1, <3>2, NextLevels, CreationFacts
      <4> QED BY <1>1, <3>2, <4>1 DEF SetUp, Link1
    <3>3. CASE creation.level = 2
      <4>1. /\ creation'.level = 3 /\ creation'.pc = "erase"
            /\ creation'.super = creation.super /\ creation'.chained = c
            /\ creation'.block = Anchor1
        BY <3>1, <3>3, NextLevels, CreationFacts
      <4>2. CreationLink.chained = creation.chained
        BY <3>3 DEF CreationLink, Link
      <4>3. flash'[c][0] = CreationLink
        BY <1>4, <1>5, CreationFacts
      <4>4. Link1' = Link1 /\ Link2' = c
        BY <3>3, <4>1, <4>2, <4>3 DEF Link1, Link2
      <4> QED BY <1>1, <3>3, <4>1, <4>4, CreationFacts DEF SetUp
    <3>4. CASE creation.level \in {3, 4}
      <4>1. /\ creation'.level = creation.level + 1 /\ creation'.pc # "allocate"
            /\ creation'.super = creation.super
            /\ creation'.chained = creation.chained
            /\ creation'.block \in {Anchor2, creation.super}
        <5>1. CASE creation.level = 3
          BY <3>1, <5>1, NextLevels, CreationFacts
        <5>2. CASE creation.level = 4
          BY <3>1, <5>2, NextLevels, CreationFacts
        <5> QED BY <3>4, <5>1, <5>2
      <4>2. creation.chained \in Pool
        BY <1>2, <3>4 DEF Preparing, Link2
      <4>3. flash'[creation.chained] = flash[creation.chained]
        BY <1>4, <1>5, <3>4, <4>2, Types
      <4>4. creation'.level \in {4, 5}
        BY <3>4, <4>1
      <4>5. Link1' = Link1 /\ Link2' = Link2
        <5>1. creation.level # 2 /\ creation'.level # 2
          BY <3>4, <4>4
        <5> QED BY <4>1, <4>3, <5>1 DEF Link1, Link2
      <4>6. \A b \in Pool : SetUp(b) <=> b \in {creation.super, Link1, Link2}
        BY <1>1, <1>4, <3>4 DEF SetUp
      <4>7. \A b \in Pool : SetUp(b)' <=> b \in {creation.super, Link1, Link2}
        BY <4>1, <4>4, <4>5, CreationFacts DEF SetUp
      <4> QED BY <4>6, <4>7
    <3> QED BY <2>1, <3>2, <3>3, <3>4
  <2>2. CASE creation.level = 5
    <3>1. /\ creation'.level = 5 /\ creation'.pc = "locate"
          /\ creation'.block = creation.block /\ creation'.super = creation.super
          /\ creation'.chained = creation.chained
      BY <2>2, CreationFacts DEF CreateWrites, Creation
    <3>2. creation.chained \in Pool /\ creation.chained # creation.super
      BY <1>2, <2>2 DEF Preparing, Link2
    <3>3. Link1' = Link1 /\ Link2' = Link2
      BY <1>4, <1>5, <2>2, <3>1, <3>2, Types DEF Link1, Link2
    <3> QED BY <1>1, <2>2, <3>1, <3>3 DEF SetUp
  <2> QED BY <1>3, <2>1, <2>2
<1> QED BY <1>2, <1>5, <1>6, <1>7, StillCreating

LEMMA CreateLocatesTracks ==
    ASSUME SuperBlockInv, ChainInv, NothingLeaks, CreateLocates PROVE NothingLeaks'
<1> SUFFICES ASSUME (crashes + faults = 0)' PROVE NothingLeaks'
  BY DEF NothingLeaks
<1> DEFINE at == Prepared(Link2, Link1, creation.super)
<1>1. mode = "creating" /\ creation.pc = "locate" /\ UNCHANGED counters
  BY DEF CreateLocates, Creating
<1>2. /\ Preparing
      /\ \A b \in free : ~IsTaken(flash, b)
      /\ \A b \in Pool : b \in free <=> ~SetUp(b)
  BY <1>1, CreatingStart
<1>3. Formatted /\ Found(Super(flash))
  BY <1>1, LocateFormatted, FormattedIsWalked DEF Creating
<1>4. mode' = "idle" /\ calls' = <<>> /\ flash' = flash /\ free' = free
  BY <1>3 DEF CreateLocates, Stop
<1>5. creation.level = 5
  BY <1>1, <1>2, CreationFacts DEF Preparing, CreationSteps
<1>6. \A b \in Pool : SetUp(b) <=> b \in {creation.super, Link1, Link2}
  <2>1. creation.block = creation.super
    BY <1>1, <1>2, <1>5 DEF Preparing, InPreparation
  <2> QED BY <1>1, <1>5, <2>1 DEF SetUp
<1>7. \A b \in Pool : Chains(b) <=> b \in {creation.super, Link1, Link2}
  <2>1. /\ IsChain(flash, at) /\ at[3] = At(creation.super, 0)
        /\ at[2] = At(Link1, 0) /\ at[1] = At(Link2, 0)
    BY <1>1, <1>2, PreparedChain DEF Prepared, Levels
  <2>2. Tips(flash) = at
    BY <2>1, Quiet, ChainIsWalked
  <2> HIDE DEF at
  <2>3. /\ Tip(3).block = creation.super /\ Tip(2).block = Link1
        /\ Tip(1).block = Link2
    BY <2>1, <2>2 DEF Tip, At
  <2>4. Tip(0).block \notin Pool
    BY <1>3, FormattedFacts
  <2>5. \A k : k \in Levels <=> k \in {0, 1, 2, 3}
    BY DEF Levels
  <2> QED BY <2>3, <2>4, <2>5 DEF Chains
<1>8. ASSUME NEW b \in Pool PROVE b \in free' <=> ~InUse(b)'
  <2>1. InUse(b)' <=> Chains(b)'
    BY <1>4 DEF InUse, Climbs, Descends
  <2>2. Chains(b)' <=> Chains(b)
    BY <1>3, <1>4, NothingChanges, KeptFacts
  <2> QED BY <1>2, <1>4, <1>6, <1>7, <2>1, <2>2
<1> QED BY <1>2, <1>4, <1>8 DEF NothingLeaks, LeftApart, Descends

(* Six blocks suffice: with the chain, and the blocks that the calls below  *)
(* the top one have moved to, at most five are in use.                      *)
LEMMA EnoughBlocks ==
    ASSUME SuperBlockInv, ChainInv, NothingLeaks, PoolSuffices, crashes + faults = 0
    PROVE  ~OutOfBlocks
<1> SUFFICES ASSUME OutOfBlocks PROVE FALSE
  OBVIOUS
<1>1. \A b \in Pool : InUse(b)
  BY DEF NothingLeaks, OutOfBlocks, NothingToAllocate
<1>2. CASE Running("enter") /\ Full(Top.addr) /\ Top.addr.block \notin Anchors
  <2>1. Climbs /\ Top.pc = "enter"
    BY <1>2, ActiveCall DEF Climbs
  <2>2. Len(calls) \in {1, 2, 3} /\ Formatted
    BY <1>2, <2>1, ClimbFacts
  <2>3. PICK n \in {1, 2, 3} : n = Len(calls)
    BY <2>2
  <2>4. \A i \in 1 .. n - 1 : i \in {1, 2} /\ calls[i].to.block \in Blocks
    <3>1. \A i \in 1 .. n - 1 : i \in {1, 2}
      OBVIOUS
    <3> QED BY <2>3, <3>1, Types DEF SuperBlockInv, Waiting, IsFresh
  <2>5. \A b : MovedTo(b) => \E i \in 1 .. n - 1 : b = calls[i].to.block
    BY <2>1, <2>3 DEF MovedTo
  <2>6. PICK d \in Blocks, e \in Blocks : \A b : MovedTo(b) => b \in {d, e}
    <3>1. Anchor1 \in Blocks
      BY Types
    <3>2. CASE n = 1
      BY <2>4, <2>5, <3>1, <3>2
    <3>3. CASE n = 2
      <4>1. 1 \in 1 .. n - 1 /\ \A i \in 1 .. n - 1 : i = 1
        BY <3>3
      <4> QED BY <2>4, <2>5, <4>1
    <3>4. CASE n = 3
      <4>1. 1 \in 1 .. n - 1 /\ 2 \in 1 .. n - 1
        BY <3>4
      <4> QED BY <2>4, <2>5, <4>1
    <3> QED BY <3>2, <3>3, <3>4
  <2>7. \A b \in Pool : b \in {Tip(1).block, Tip(2).block, Tip(3).block, d, e}
    <3>1. \A b \in Pool : Chains(b) \/ MovedTo(b)
      BY <1>1, <2>1, InUseClimbing
    <3>2. Tip(0).block \notin Pool /\ \A k : k \in Levels <=> k \in {0, 1, 2, 3}
      BY <2>2, FormattedFacts DEF Levels
    <3> QED BY <2>6, <3>1, <3>2 DEF Chains
  <2>8. Tip(1).block \in Blocks /\ Tip(2).block \in Blocks /\ Tip(3).block \in Blocks
    <3>1. 1 \in Levels /\ 2 \in Levels /\ 3 \in Levels
      BY DEF Levels
    <3> QED BY <2>2, <3>1, FormattedFacts
  <2> QED BY <2>7, <2>8 DEF PoolSuffices
<1>3. CASE mode = "creating" /\ creation.pc = "allocate"
  <2>1. calls = <<>> /\ Preparing
    BY <1>3, Quiet DEF ChainInv, CreationInv
  <2>2. \A b \in Pool : SetUp(b)
    BY <1>1, <1>3, <2>1, InUseQuiet
  <2>3. creation.level \in {0, 1, 2}
    BY <1>3, <2>1, CreationFacts DEF Preparing, CreationSteps
  <2>4. \A b \in Pool : \/ creation.level >= 1 /\ b = creation.super
                        \/ creation.level = 2 /\ b = Link1
    BY <1>3, <2>2, <2>3 DEF SetUp
  <2>5. PICK d \in Blocks, e \in Blocks : \A b \in Pool : b = d \/ b = e
    <3>1. CASE creation.level = 0
      BY <2>4, <3>1, Types
    <3>2. CASE creation.level = 1
      <4>1. creation.super \in Blocks /\ \A b \in Pool : b = creation.super
        BY <2>1, <2>4, <3>2, Types DEF Preparing
      <4> QED BY <4>1
    <3>3. CASE creation.level = 2
      <4>1. /\ creation.super \in Blocks /\ Link1 \in Blocks
            /\ \A b \in Pool : b = creation.super \/ b = Link1
        BY <2>1, <2>4, <3>3, Types DEF Preparing
      <4> QED BY <4>1
    <3> QED BY <2>3, <3>1, <3>2, <3>3
  <2> QED BY <2>5 DEF PoolSuffices
<1> QED BY <1>2, <1>3 DEF OutOfBlocks

LEMMA LinkIsNotLost ==
    ASSUME SuperBlockInv, ChainInv, crashes + faults = 0
    PROVE  ~LinkLost
<1> SUFFICES ASSUME LinkLost PROVE FALSE
  OBVIOUS
<1>1. Climbs /\ Top.pc = "relink" /\ Moved(Top) /\ faults = 0
  BY ActiveCall, Untroubled DEF LinkLost, Climbs, SuperBlockInv, TopReady
<1>2. Formatted /\ ~Astray /\ Len(calls) \in {1, 2, 3}
  BY <1>1, ClimbFacts, ClimbIsSure, ParentOfTop
<1>3. Walk(flash, Top.addr.block) = Reading(flash, Tip(3 - Len(calls)))
  BY <1>1, <1>2, ParentOfTop
<1>4. 3 - Len(calls) \in Levels
  <2>1. \A n \in {1, 2, 3} : 3 - n \in Levels
    BY DEF Levels
  <2> QED BY <1>2, <2>1
<1>5. Tip(3 - Len(calls)) \in Address
  BY <1>2, <1>4, FormattedFacts
<1> QED BY <1>3, <1>5, Types DEF LinkLost, Found, Reading

LEMMA TrackedStutters == ASSUME NothingLeaks, UNCHANGED vars PROVE NothingLeaks'
<1>1. /\ flash' = flash /\ free' = free /\ mode' = mode /\ calls' = calls
      /\ creation' = creation /\ crashes' = crashes /\ faults' = faults
  BY DEF vars, counters
<1>2. \A b : Chains(b)' <=> Chains(b)
  BY <1>1 DEF Chains, Tip
<1>3. \A b : InUse(b)' <=> InUse(b)
  BY <1>1, <1>2 DEF InUse, Climbs, Descends, MovedTo, LeftBehind, SetUp, Link1,
                    Link2, Top, Moved
<1> QED BY <1>1, <1>3 DEF NothingLeaks, LeftApart, Descends, Top, Unformatted, IsTaken,
                          Programmed

LEMMA NothingLeaksStep ==
    ASSUME SuperBlockInv, ChainInv, NothingLeaks, OneLife, PoolSuffices, [Next]_vars
    PROVE  NothingLeaks'
<1> SUFFICES ASSUME (crashes + faults = 0)' PROVE NothingLeaks'
  BY DEF NothingLeaks
<1>1. ASSUME Mount PROVE NothingLeaks'
  <2>1. crashes + faults = 0 /\ mode = "down" /\ Found(Super(flash))
    BY <1>1 DEF Mount, counters
  <2>2. Unformatted
    BY <2>1 DEF NothingLeaks
  <2> QED BY <2>1, <2>2, EitherFormattedOrNot DEF ChainInv
<1>2. ASSUME OutOfBlocks \/ LinkLost PROVE NothingLeaks'
  <2>1. crashes + faults = 0
    BY <1>2 DEF OutOfBlocks, LinkLost, counters
  <2> QED BY <1>2, <2>1, EnoughBlocks, LinkIsNotLost
<1>3. ASSUME Crash \/ CrashInErase PROVE NothingLeaks'
  <2>1. crashes \in Nat /\ faults \in Nat /\ crashes' = crashes + 1 /\ faults' = faults
    BY <1>3, CountersType DEF Crash, CrashInErase, SuperBlockInv
  <2> QED BY <2>1
<1>4. ASSUME EraseFails \/ WriteFails \/ FreeFails \/ CreateFails PROVE NothingLeaks'
  <2>1. crashes \in Nat /\ faults \in Nat /\ crashes' = crashes /\ faults' = faults + 1
    BY <1>4, CountersType
    DEF EraseFails, WriteFails, FreeFails, CreateFails, Fault, SuperBlockInv
  <2> QED BY <2>1
<1>5. ASSUME Step PROVE NothingLeaks'
  BY <1>2, <1>5, NextSectorTracks, SwapAnchorTracks, AllocateNextTracks,
     EraseTargetTracks, WriteTargetTracks, SwitchTracks, RelinkTracks,
     FreeErasesTracks, FreeMarksTracks, RolloverReturnsTracks, SaveReturnsTracks,
     CreateAllocatesTracks, CreateErasesTracks, CreateWritesTracks,
     CreateLocatesTracks
  DEF Step
<1>6. ASSUME Save \/ Create PROVE NothingLeaks'
  BY <1>6, SaveTracks, CreateTracks
<1> QED BY <1>1, <1>3, <1>4, <1>5, <1>6, TrackedStutters DEF Next

LEMMA NothingLeaksInit == Init => NothingLeaks
<1> SUFFICES ASSUME Init PROVE NothingLeaks
  OBVIOUS
<1>1. /\ calls = <<>> /\ mode = "down" /\ free = Pool
      /\ \A b \in Blocks, s \in Sectors : flash[b][s] = Erased
      /\ Pool \subseteq Blocks /\ 0 \in Sectors
  BY Types DEF Init
<1>2. \A b \in Pool : ~InUse(b)
  BY <1>1, InUseQuiet
<1> QED BY <1>1, <1>2 DEF NothingLeaks, LeftApart, Descends, Unformatted, Programmed,
                          IsTaken

(* Rolling over gives back every block it leaves, at every depth, and       *)
(* create() takes no block but the three it chains: for any number of saves *)
(* of a volume whose pool has at least six blocks.                          *)
THEOREM NoBlockEverLeaks ==
    ASSUME OneLife, PoolSuffices PROVE Spec => []NoBlockLeaks
<1>1. SuperBlockInv /\ ChainInv /\ NothingLeaks => NoBlockLeaks
  <2> SUFFICES ASSUME SuperBlockInv, ChainInv, NothingLeaks, mode = "idle",
                      crashes + faults + formats = 0
               PROVE  free = Pool \ Chain(flash)
    BY DEF NoBlockLeaks
  <2>1. crashes + faults = 0 /\ Formatted /\ calls = <<>> /\ free \subseteq Pool
    <3>1. crashes + faults = 0
      BY CountersType DEF SuperBlockInv
    <3> QED BY <3>1, Quiet DEF ChainInv, Volume
  <2>2. \A b \in Pool : b \in free <=> ~Chains(b)
    BY <2>1, InUseQuiet DEF NothingLeaks
  <2>3. Chain(flash) = {Tip(1).block, Tip(2).block, Tip(3).block}
    BY <2>1, FormattedIsWalked
  <2>4. Tip(0).block \notin Pool /\ \A k : k \in Levels <=> k \in {0, 1, 2, 3}
    BY <2>1, FormattedFacts DEF Levels
  <2>5. \A b \in Pool : b \in Chain(flash) <=> Chains(b)
    BY <2>3, <2>4 DEF Chains
  <2> QED BY <2>1, <2>2, <2>5
<1>2. SuperBlockInv /\ ChainInv /\ NothingLeaks /\ [Next]_vars => NothingLeaks'
  BY NothingLeaksStep
<1> QED BY <1>1, <1>2, NothingLeaksInit, ChainIsInvariant, SuperBlockIsInvariant,
           PTL DEF Spec
===============================================================================
