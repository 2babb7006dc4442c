------------------------------ MODULE LinkScan ------------------------------
(***************************************************************************)
(* SuperBlockManager::find_link, one sector at a time, over a block with   *)
(* any contents.  LinkChain describes its result without the loop; here    *)
(* the loop is shown to compute it.                                        *)
(***************************************************************************)
EXTENDS LinkChain

VARIABLES
    flash,      \* the medium; the loop only reads it
    block,      \* the block that is scanned
    before,     \* `found' and `where' as the caller passes them
    sector,          \* the next sector
    found,      \* `found' and `where' so far
    done

vars == <<flash, block, before, sector, found, done>>

(* What a walk may have found so far: nothing yet, or a link somewhere. *)
Finds == {Start} \union [link : Links, where : Address]

TypeOK ==
    /\ flash \in [Blocks -> [Sectors -> Links \union {Erased}]]
    /\ block \in Blocks
    /\ before \in Finds
    /\ sector \in 0 .. SectorsPerBlock
    /\ found \in Finds
    /\ done \in BOOLEAN

Init ==
    /\ flash \in [Blocks -> [Sectors -> Links \union {Erased}]]
    /\ block \in Blocks
    /\ before \in Finds
    /\ sector = 0
    /\ found = before
    /\ done = FALSE

(* A link takes over when none was known or when its stamp is larger. *)
TakesOver(new, old) ==
    old.timestamp = TimestampInvalid \/ new.timestamp > old.timestamp

ReadSector ==
    /\ ~done /\ sector < SectorsPerBlock
    /\ flash[block][sector] # Erased
    /\ found' = IF TakesOver(flash[block][sector], found.link)
                THEN InSector(flash, block, sector) ELSE found
    /\ sector' = sector + 1
    /\ UNCHANGED <<flash, block, before, done>>

(* The loop ends at the end of the block or at a sector without magic. *)
Finish ==
    /\ ~done
    /\ sector < SectorsPerBlock => flash[block][sector] = Erased
    /\ done' = TRUE
    /\ UNCHANGED <<flash, block, before, sector, found>>

Next == ReadSector \/ Finish

Spec == Init /\ [][Next]_vars

(* After every sector the loop holds what LinkChain says of the sectors     *)
(* read so far, and in the end what it says of the whole block: the first   *)
(* sector with the largest stamp, counted from the last wrap-around.        *)
ScanFindsLink ==
    /\ found = FindLinkIn(flash, block, sector, before)
    /\ done => found = FindLink(flash, block, before)

-----------------------------------------------------------------------------
(* Why it does: what is held is the newest of the eligible sectors, if any. *)

Candidates == Eligible(flash, block, sector, before.link.timestamp)

HoldsNewest ==
    \/ /\ Restarts(flash, block, sector) = {}
       /\ Candidates = {}
       /\ found = before
    \/ \E q \in Candidates : /\ IsNewest(flash, block, Candidates, q)
                             /\ found = InSector(flash, block, q)

Scanned ==
    /\ \A t \in 0 .. sector - 1 : Programmed(flash, block, t)
    /\ done => sector = SectorsPerBlock \/ ~Programmed(flash, block, sector)

ScanInv == TypeOK /\ Scanned /\ HoldsNewest
=============================================================================
