-------------------------- MODULE SuperBlockChain --------------------------
(***************************************************************************)
(* Why the super block chain keeps its promises: the invariant that the    *)
(* properties of SuperBlock, and AtomicStore, follow from.                 *)
(*                                                                         *)
(* Until save() performs the one write that switches, the chain on the     *)
(* medium is the old one, and rollover() climbs from the super block       *)
(* towards the anchors; afterwards the chain is the new one, and the calls *)
(* return, freeing what they left.                                         *)
(***************************************************************************)
EXTENDS SuperBlock

-----------------------------------------------------------------------------
(* The chain on the medium. *)

(* The anchor is on level 0, the super block on level 3. *)
Levels == 0 .. 3

TypeAt(level) ==
    CASE level = 0 -> "Anchor"
      [] level = 3 -> "SuperBlock"
      [] OTHER     -> "SuperBlockLink"

LinkAt(fl, a)  == fl[a.block][a.sector]
StampAt(fl, a) == LinkAt(fl, a).timestamp

(* The sectors up to `a' were written, with smaller stamps; the next are    *)
(* erased.                                                                  *)
IsTip(fl, a) ==
    \A s \in Sectors :
        /\ Programmed(fl, a.block, s) <=> s <= a.sector
        /\ s < a.sector => fl[a.block][s].timestamp < StampAt(fl, a)

IsChain(fl, at) ==
    /\ at \in [Levels -> Address]
    /\ at[0].block \in Anchors
    /\ \A k \in 1 .. 3 : at[k].block \in Pool /\ IsTaken(fl, at[k].block)
    /\ \A j, k \in 1 .. 3 : at[j].block = at[k].block => j = k
    /\ \A k \in Levels : IsTip(fl, at[k]) /\ LinkAt(fl, at[k]).type = TypeAt(k)
    /\ \A k \in 1 .. 3 : /\ LinkAt(fl, at[k - 1]).chained = at[k].block
                         /\ StampAt(fl, at[k - 1]) < StampAt(fl, at[k])
    /\ LinkAt(fl, at[3]).chained = NoBlock
    /\ StampAt(fl, at[3]) < TimestampInvalid
    /\ \A s \in Sectors :
           Programmed(fl, OtherAnchor(at[0].block), s) =>
               fl[OtherAnchor(at[0].block)][s].timestamp < StampAt(fl, at[0])

(* The sectors that a walk goes through. *)
Tips(fl) ==
    LET top    == AnchorLink(fl)
        first  == Below(fl, top)
        second == Below(fl, first)
    IN  [k \in Levels |-> CASE k = 0 -> top.where
                            [] k = 1 -> first.where
                            [] k = 2 -> second.where
                            [] OTHER -> Super(fl).where]

Formatted == IsChain(flash, Tips(flash))

Unformatted ==
    \A b \in Blocks, s \in Sectors :
        Programmed(flash, b, s) => flash[b][s].chained # NoBlock

Tip(level)  == Tips(flash)[level]
Chains(b)   == \E k \in Levels : b = Tip(k).block
SuperStamp  == StampAt(flash, Tip(3))

(* One life of a volume, from create() on: it is not formatted again, and   *)
(* its stamps, of which every save() uses one, do not wrap around.          *)
OneLife == MaxFormats = 0 /\ MaxSaves + 5 < TimestampInvalid

-----------------------------------------------------------------------------
(* What the program knows of it. *)

Volume ==
    /\ Formatted \/ Unformatted
    /\ mode \in {"idle", "saving"} => Formatted
    /\ Formatted => /\ \A k \in 1 .. 3 : Tip(k).block \notin free
                    /\ SuperStamp <= 5 + saves
    /\ sb.type = "SuperBlock" /\ sb.timestamp <= 5 + saves
    /\ saves <= MaxSaves

(* location_ names the newest super block, unless a failure was reported by *)
(* the write that wrote it: then it names the sector before, or is in a     *)
(* block that was full and left.                                            *)
Accurate == location = Tip(3)
Behind   == location.block = Tip(3).block /\ location.sector + 1 = Tip(3).sector
Astray   == Full(location) /\ location.block \in Pool \ free /\ ~Chains(location.block)

Located ==
    /\ Accurate \/ Behind \/ Astray
    /\ faults = 0 => Accurate

Resting ==
    mode = "idle" =>
        /\ Located
        /\ SuperStamp <= sb.timestamp
        /\ outcome # "failed" => Accurate /\ sb = LinkAt(flash, Tip(3))

-----------------------------------------------------------------------------
(* save(): the i-th call of rollover() works on level 4 - i. *)

Climbs == calls # <<>> /\ Top.pc \in {"enter", "erase", "write", "relink"}
Descends == calls # <<>> /\ Top.pc \in {"free", "mark", "done"}

(* The i-th call has allocated a block to move to. *)
Leaves(i) ==
    Moved(calls[i]) /\ (i < Len(calls) \/ calls[i].pc # "enter")

Climbing ==
    Climbs =>
        /\ Located
        /\ calls[1].addr = location /\ calls[1].link = sb
        /\ Len(calls) <= 4
        /\ Astray => Len(calls) = 1
        /\ \A i \in 1 .. Len(calls) :
               /\ i > 1 => /\ calls[i].addr = Tip(4 - i)
                           /\ calls[i].link.timestamp < calls[i - 1].link.timestamp
               /\ calls[i].link.type = TypeAt(4 - i)
               /\ StampAt(flash, Tip(4 - i)) < calls[i].link.timestamp
               /\ Leaves(i) => Full(calls[i].addr) /\ ~Chains(calls[i].to.block)

(* A write that does not move to another block is next: in the same block,  *)
(* or in the other anchor.                                                  *)
Aiming ==
    Climbs /\ Top.pc # "enter" /\ ~Moved(Top) =>
        \/ Top.pc = "write" /\ Top.to = At(Top.addr.block, Top.addr.sector + 1)
        \/ /\ Top.addr.block \in Anchors
           /\ Top.pc \in {"erase", "write"}
           /\ Top.to = At(OtherAnchor(Top.addr.block), 0)
           /\ Top.pc = "write" => Blank(Top.to.block)

Descending ==
    Descends =>
        /\ Len(calls) <= 4
        /\ \A i \in 1 .. Len(calls) :
               /\ calls[i].to = Tip(4 - i)
               /\ calls[i].pc \in {"free", "mark"} => ~Chains(calls[i].addr.block)
        /\ LinkAt(flash, Tip(3)) = sb
        /\ Top.pc = "mark" => flash[Top.addr.block][0] = Erased

Saving ==
    /\ mode = "saving" => calls # <<>>
    /\ Climbing
    /\ Aiming
    /\ Descending

-----------------------------------------------------------------------------
(* create(): the blocks prepared so far, each naming the one before. *)

Link1 == IF creation.level = 2 THEN creation.chained
                               ELSE flash[creation.chained][0].chained
Link2 == creation.chained

CreationSteps ==
    CASE creation.level = 0          -> {"allocate", "erase"}
      [] creation.level \in {1, 2}   -> {"allocate", "erase", "write"}
      [] creation.level \in {3, 4}   -> {"erase", "write"}
      [] OTHER                       -> {"write", "locate"}

InPreparation ==
    CASE creation.level = 0 -> creation.super
      [] creation.level = 3 -> Anchor1
      [] creation.level = 4 -> Anchor2
      [] creation.level = 5 -> creation.super
      [] OTHER              -> creation.block

Preparing ==
    /\ creation.pc \in CreationSteps
    /\ creation.pc # "allocate" =>
           /\ creation.block = InPreparation
           /\ creation.level <= 2 => creation.block \in Pool \ free
    /\ creation.level >= 1 =>
           /\ creation.super \in Pool \ free
           /\ creation.pc # "locate" => Blank(creation.super)
           /\ sb.type = "SuperBlock" /\ sb.timestamp = 5
    /\ creation.level = 1 =>
           /\ creation.chained = creation.super
           /\ creation.pc # "allocate" => creation.block # creation.super
    /\ creation.level >= 2 =>
           /\ Link1 \in Pool \ free /\ Link1 # creation.super
           /\ OnlyHolds(Link1, Link("SuperBlockLink", 4, creation.super, Nothing))
    /\ creation.level = 2 /\ creation.pc # "allocate" =>
           creation.block \notin {creation.super, Link1}
    /\ creation.level >= 3 =>
           /\ Link2 \in Pool \ free /\ Link2 \notin {creation.super, Link1}
           /\ OnlyHolds(Link2, Link("SuperBlockLink", 3, Link1, Nothing))
    /\ creation.level >= 4 => OnlyHolds(Anchor1, Link("Anchor", 2, Link2, Nothing))
    /\ creation.level = 5 => OnlyHolds(Anchor2, Link("Anchor", 1, Link2, Nothing))
    /\ creation.pc = "write" => Blank(creation.block)
    /\ creation.pc = "locate" => OnlyHolds(creation.super, sb)

CreationInv == mode = "creating" => Preparing

ChainInv ==
    /\ Volume
    /\ Resting
    /\ Saving
    /\ CreationInv
    /\ mode = "creating" /\ creation.pc # "locate" => Unformatted
-----------------------------------------------------------------------------
(* Why NoBlockLeaks holds: at any time, as long as nothing went wrong, the  *)
(* blocks that are not free are those of the chain, those that a call has   *)
(* moved to, and those that a call has left and not freed yet.              *)

(* Before it frees any, a save() needs a block for the super block and two  *)
(* for the links, besides the three of the chain.                           *)
PoolSuffices ==
    \A a, b, c, d, e \in Blocks : ~(Pool \subseteq {a, b, c, d, e})

MovedTo(b) ==
    \/ \E i \in 1 .. Len(calls) - 1 : b = calls[i].to.block
    \/ Top.pc # "enter" /\ Moved(Top) /\ b = Top.to.block

LeftBehind(b) ==
    \/ \E i \in 1 .. Len(calls) - 1 : b = calls[i].addr.block
    \/ Top.pc \in {"free", "mark"} /\ b = Top.addr.block

(* The blocks that create() has allocated so far. *)
SetUp(b) ==
    \/ creation.pc # "allocate" /\ b = creation.block
    \/ creation.level >= 1 /\ b = creation.super
    \/ creation.level >= 2 /\ b = Link1
    \/ creation.level >= 3 /\ b = Link2

InUse(b) ==
    \/ mode \in {"idle", "saving"} /\ Chains(b)
    \/ Climbs /\ MovedTo(b)
    \/ Descends /\ LeftBehind(b)
    \/ mode = "creating" /\ SetUp(b)

(* Each call that waits to free a block has left one of its own. *)
LeftApart ==
    Descends =>
        /\ \A i, j \in 1 .. Len(calls) :
               calls[i].addr.block = calls[j].addr.block => i = j
        /\ Top.pc = "mark" => Top.link.type = "Unallocated"

NothingLeaks ==
    crashes + faults = 0 =>
        /\ mode = "down" => Unformatted
        /\ \A b \in free : ~IsTaken(flash, b)
        /\ \A b \in Pool : b \in free <=> ~InUse(b)
        /\ LeftApart
=============================================================================
