--------------------------- MODULE LinkScanProofs ---------------------------
(***************************************************************************)
(* The loop of find_link() computes FindLink, for every block size, every  *)
(* contents and every stamp, wrapped around or not.                        *)
(***************************************************************************)
EXTENDS LinkScan, TLAPS

(* At most one sector is the newest: CHOOSE can only pick that one. *)
LEMMA NewestIsUnique ==
    ASSUME NEW fl, NEW b, NEW cands \in SUBSET Int,
           \A x \in cands : fl[b][x].timestamp \in Int,
           NEW q \in cands, IsNewest(fl, b, cands, q)
    PROVE  Newest(fl, b, cands) = q
<1>1. ASSUME NEW r \in cands, IsNewest(fl, b, cands, r)
      PROVE  r = q
  BY <1>1 DEF IsNewest
<1> QED BY <1>1 DEF Newest

LEMMA EligibleIsReadable ==
    ASSUME NEW fl, NEW b, NEW n, NEW t
    PROVE  Eligible(fl, b, n, t) \subseteq Readable(fl, b, n)
BY DEF Eligible, AfterRestarts, Restarts

LEMMA StampsOfLinks ==
    ASSUME TypeOK, NEW x \in Sectors, Programmed(flash, block, x)
    PROVE  /\ flash[block][x] \in Links
           /\ flash[block][x].timestamp \in Stamps
           /\ flash[block][x].timestamp \in Int
<1>1. flash[block][x] \in Links
  BY DEF TypeOK, Programmed
<1> QED BY <1>1, GeometryAssumption DEF Links, Stamps

(* What the invariant says of `found' is what FindLinkIn says. *)
LEMMA HeldIsFindLinkIn ==
    ASSUME TypeOK, HoldsNewest
    PROVE  found = FindLinkIn(flash, block, sector, before)
<1>1. CASE Candidates = {} /\ found = before
  BY <1>1 DEF FindLinkIn, Candidates
<1>2. ASSUME NEW q \in Candidates,
             IsNewest(flash, block, Candidates, q),
             found = InSector(flash, block, q)
      PROVE  found = FindLinkIn(flash, block, sector, before)
  <2>1. Candidates \subseteq Sectors
    BY EligibleIsReadable DEF Candidates, Readable
  <2>2. \A x \in Candidates : flash[block][x].timestamp \in Int
    <3>1. ASSUME NEW x \in Candidates
          PROVE  Programmed(flash, block, x)
      BY EligibleIsReadable DEF Candidates, Readable, Sectors
    <3> QED BY <2>1, <3>1, StampsOfLinks
  <2>3. Candidates \in SUBSET Int
    BY <2>1 DEF Sectors
  <2>4. Newest(flash, block, Candidates) = q
    BY <1>2, <2>2, <2>3, NewestIsUnique
  <2> QED BY <1>2, <2>4 DEF FindLinkIn, Candidates
<1> QED BY <1>1, <1>2 DEF HoldsNewest

LEMMA InitHolds == Init => ScanInv
<1> SUFFICES ASSUME Init PROVE ScanInv
  OBVIOUS
<1>1. TypeOK
  <2>1. 0 \in 0 .. SectorsPerBlock
    BY GeometryAssumption
  <2> QED BY <2>1 DEF Init, TypeOK
<1>2. Scanned
  BY DEF Init, Scanned
<1>3. HoldsNewest
  <2>1. /\ Readable(flash, block, sector) = {}
        /\ Restarts(flash, block, sector) = {}
    BY DEF Init, Readable, Restarts, Sectors
  <2>2. Candidates = {}
    BY <2>1, EligibleIsReadable DEF Init, Candidates
  <2> QED BY <2>1, <2>2 DEF Init, HoldsNewest
<1> QED BY <1>1, <1>2, <1>3 DEF ScanInv

(* Reading a sector with a valid magic adds that sector, the last one. *)
LEMMA ReadableGrows ==
    ASSUME ScanInv, ReadSector
    PROVE  /\ Readable(flash, block, sector) = 0 .. sector - 1
           /\ Readable(flash, block, sector + 1) = 0 .. sector
           /\ Programmed(flash, block, sector)
           /\ sector \in Sectors
<1>1. sector \in Sectors /\ sector \in Nat
  BY GeometryAssumption DEF ScanInv, TypeOK, ReadSector, Sectors
<1>2. \A t \in 0 .. sector : Programmed(flash, block, t)
  BY <1>1 DEF ScanInv, Scanned, ReadSector, Programmed
<1>3. 0 .. sector \subseteq Sectors
  BY <1>1, GeometryAssumption DEF Sectors
<1> QED BY <1>1, <1>2, <1>3 DEF Readable, Sectors

(* The stamp held before the sector is read is that of the caller's link or *)
(* that of the newest candidate.                                            *)
LEMMA ReadKeepsNewest ==
    ASSUME ScanInv, ReadSector
    PROVE  HoldsNewest'
<1> DEFINE ts(x) == flash[block][x].timestamp
           T     == TimestampInvalid
           t0    == before.link.timestamp
           Old   == 0 .. sector - 1
           New   == 0 .. sector
           OldR  == {x \in Old : ts(x) = T}
           NewR  == {x \in New : ts(x) = T}
           Next0 == Eligible(flash, block, sector + 1, t0)
<1>1. /\ Readable(flash, block, sector) = Old
      /\ Readable(flash, block, sector + 1) = New
      /\ Programmed(flash, block, sector)
      /\ sector \in Sectors /\ sector \in Nat
  BY ReadableGrows DEF Sectors
<1>2. /\ Restarts(flash, block, sector) = OldR
      /\ Restarts(flash, block, sector + 1) = NewR
  BY <1>1 DEF Restarts
<1>3. /\ AfterRestarts(flash, block, sector) = {x \in Old : \A r \in OldR : r < x}
      /\ AfterRestarts(flash, block, sector + 1) = {x \in New : \A r \in NewR : r < x}
  BY <1>1, <1>2 DEF AfterRestarts
<1>4. \A x \in New : ts(x) \in Int /\ ts(x) <= T
  <2>1. ASSUME NEW x \in New PROVE x \in Sectors /\ Programmed(flash, block, x)
    BY <1>1 DEF Readable, Sectors
  <2> QED BY <2>1, StampsOfLinks, GeometryAssumption DEF ScanInv, Stamps
<1>5. t0 \in Int /\ t0 <= T /\ T \in Int
  BY GeometryAssumption DEF ScanInv, TypeOK, Finds, Start, Link, Links, Stamps
<1>6. /\ flash' = flash /\ block' = block /\ before' = before
      /\ sector' = sector + 1
      /\ found' = IF found.link.timestamp = T \/ ts(sector) > found.link.timestamp
                  THEN InSector(flash, block, sector) ELSE found
  BY DEF ReadSector, TakesOver
<1>7. Candidates' = Next0
  BY <1>6 DEF Candidates
<1>8. Candidates = IF OldR = {} THEN {x \in Old : t0 = T \/ ts(x) > t0}
                   ELSE IF {x \in Old : \A r \in OldR : r < x} # {}
                   THEN {x \in Old : \A r \in OldR : r < x}
                   ELSE {x \in OldR : \A r \in OldR : r <= x}
  BY <1>1, <1>2, <1>3 DEF Candidates, Eligible
<1>9. Next0 = IF NewR = {} THEN {x \in New : t0 = T \/ ts(x) > t0}
              ELSE IF {x \in New : \A r \in NewR : r < x} # {}
              THEN {x \in New : \A r \in NewR : r < x}
              ELSE {x \in NewR : \A r \in NewR : r <= x}
  BY <1>1, <1>2, <1>3 DEF Eligible
<1>10. ASSUME NEW q \in Next0,
              \A x \in Next0 : ts(x) < ts(q) \/ (ts(x) = ts(q) /\ q <= x),
              found' = InSector(flash, block, q)
       PROVE  HoldsNewest'
  <2>1. IsNewest(flash, block, Next0, q)
    BY <1>10 DEF IsNewest
  <2>2. \E x \in Candidates' : /\ IsNewest(flash, block, Candidates', x)
                               /\ found' = InSector(flash, block, x)
    BY <1>10, <1>7, <2>1
  <2>3. HoldsNewest' <=>
          \/ /\ Restarts(flash', block', sector') = {}
             /\ Candidates' = {}
             /\ found' = before'
          \/ \E x \in Candidates' : /\ IsNewest(flash', block', Candidates', x)
                                     /\ found' = InSector(flash', block', x)
    BY DEF HoldsNewest
  <2> QED BY <2>2, <2>3, <1>6
<1>11. ASSUME NewR = {}, Next0 = {}, found' = before PROVE HoldsNewest'
  BY <1>11, <1>2, <1>6, <1>7 DEF HoldsNewest
<1> DEFINE Held(C) ==
      \/ OldR = {} /\ C = {} /\ found = before
      \/ \E q \in C : /\ \A x \in C : ts(x) < ts(q) \/ (ts(x) = ts(q) /\ q <= x)
                     /\ found = InSector(flash, block, q)
<1>12. Held(Candidates)
  BY <1>2 DEF ScanInv, HoldsNewest, IsNewest
<1>13. \A q : InSector(flash, block, q).link.timestamp = ts(q)
  BY DEF InSector
<1> HIDE DEF ts, T, t0
<1>20. ASSUME Next0 = {sector}, found' = InSector(flash, block, sector)
       PROVE  HoldsNewest'
  <2>1. sector \in Next0
    BY <1>20
  <2>2. \A x \in Next0 : ts(x) = ts(sector) /\ sector <= x
    BY <1>20, <1>1
  <2> QED BY <2>1, <2>2, <1>20, <1>10
(* A link stamped TIMESTAMP_INVALID: everything before it is forgotten. *)
<1>14. CASE ts(sector) = T
  <2>1. NewR # {} /\ {x \in New : \A r \in NewR : r < x} = {}
    BY <1>1, <1>14
  <2>2. {x \in NewR : \A r \in NewR : r <= x} = {sector}
    BY <1>1, <1>14
  <2>3. Next0 = {sector}
    BY <1>9, <2>1, <2>2
  <2>4. found.link.timestamp \in Int /\ found.link.timestamp <= T
    BY GeometryAssumption DEF ScanInv, TypeOK, Finds, Start, Link, Links, Stamps, T
  <2>5. found' = InSector(flash, block, sector)
    BY <1>6, <1>14, <2>4, <1>5 DEF T
  <2> QED BY <1>20, <2>3, <2>5
(* No such link so far: the candidates are those that beat the caller's. *)
<1>15. CASE ts(sector) # T /\ OldR = {}
  <2>1. NewR = {}
    BY <1>1, <1>15
  <2>2. Next0 = {x \in New : t0 = T \/ ts(x) > t0}
    BY <1>9, <2>1
  <2>3. Candidates = {x \in Old : t0 = T \/ ts(x) > t0}
    BY <1>8, <1>15
  <2>4. CASE Candidates = {} /\ found = before
    <3>1. found' = IF t0 = T \/ ts(sector) > t0
                   THEN InSector(flash, block, sector) ELSE before
      BY <1>6, <2>4 DEF t0, T, ts
    <3>2. CASE t0 = T \/ ts(sector) > t0
      <4>1. \A x \in New : x \in Next0 => x = sector
        BY <1>1, <2>2, <2>3, <2>4
      <4>2. sector \in Next0
        BY <1>1, <2>2, <3>2
      <4>3. Next0 = {sector}
        BY <2>2, <4>1, <4>2
      <4> QED BY <4>3, <3>1, <3>2, <1>20
    <3>3. CASE ~(t0 = T \/ ts(sector) > t0)
      <4>1. \A x \in New : x \notin Next0
        BY <1>1, <2>2, <2>3, <2>4, <3>3
      <4>2. Next0 = {}
        BY <2>2, <4>1
      <4> QED BY <2>1, <4>2, <3>1, <3>3, <1>11
    <3> QED BY <3>2, <3>3
  <2>5. ASSUME NEW q \in Candidates,
               \A x \in Candidates : ts(x) < ts(q) \/ (ts(x) = ts(q) /\ q <= x),
               found = InSector(flash, block, q)
        PROVE  HoldsNewest'
    <3>1. q \in Old /\ ts(q) # T
      BY <2>3, <2>5, <1>15
    <3>2. found' = IF ts(sector) > ts(q)
                   THEN InSector(flash, block, sector) ELSE found
      BY <1>6, <1>13, <2>5, <3>1 DEF T, ts
    <3>3. CASE ts(sector) > ts(q)
      <4>1. sector \in Next0
        BY <1>1, <1>4, <1>5, <2>2, <2>3, <2>5, <3>1, <3>3
      <4>2. \A x \in Next0 : ts(x) < ts(sector) \/ (ts(x) = ts(sector) /\ sector <= x)
        BY <1>1, <1>4, <2>2, <2>3, <2>5, <3>1, <3>3
      <4> QED BY <4>1, <4>2, <3>2, <3>3, <1>10
    <3>4. CASE ~(ts(sector) > ts(q))
      <4>1. q \in Next0
        BY <1>1, <2>2, <2>3, <2>5
      <4>2. \A x \in Next0 : ts(x) < ts(q) \/ (ts(x) = ts(q) /\ q <= x)
        BY <1>1, <1>4, <2>2, <2>3, <2>5, <3>1, <3>4
      <4> QED BY <4>1, <4>2, <2>5, <3>2, <3>4, <1>10
    <3> QED BY <3>3, <3>4
  <2> QED BY <1>12, <2>4, <2>5
(* Such a link was read: only what follows the last one counts. *)
<1>16. CASE ts(sector) # T /\ OldR # {}
  <2> DEFINE After == {x \in Old : \A r \in OldR : r < x}
  <2>1. NewR = OldR
    BY <1>1, <1>16
  <2>2. Next0 = After \union {sector}
    <3>1. {x \in New : \A r \in NewR : r < x} = After \union {sector}
      BY <1>1, <2>1
    <3> QED BY <1>9, <1>16, <2>1, <3>1
  <2>3. CASE After = {}
    <3>1. Candidates \subseteq OldR
      BY <1>8, <1>16, <2>3
    <3>2. Candidates # {} => found.link.timestamp = T
      BY <1>12, <1>13, <3>1
    <3>3. Candidates # {}
      BY <1>12, <1>16
    <3>4. found' = InSector(flash, block, sector)
      BY <1>6, <3>2, <3>3 DEF T
    <3>5. Next0 = {sector}
      BY <2>2, <2>3
    <3> QED BY <3>4, <3>5, <1>20
  <2>4. CASE After # {}
    <3>1. Candidates = After
      BY <1>8, <1>16, <2>4
    <3>2. PICK q \in After :
            /\ \A x \in After : ts(x) < ts(q) \/ (ts(x) = ts(q) /\ q <= x)
            /\ found = InSector(flash, block, q)
      BY <1>12, <2>4, <3>1
    <3>3. q \in Old /\ ts(q) # T
      BY <3>2, <1>1
    <3>4. found' = IF ts(sector) > ts(q)
                   THEN InSector(flash, block, sector) ELSE found
      BY <1>6, <1>13, <3>2, <3>3 DEF T, ts
    <3>5. CASE ts(sector) > ts(q)
      <4>1. \A x \in Next0 : ts(x) < ts(sector) \/ (ts(x) = ts(sector) /\ sector <= x)
        <5>1. ASSUME NEW x \in After PROVE ts(x) < ts(sector)
          BY <1>1, <1>4, <3>2, <3>3, <3>5
        <5> QED BY <1>1, <2>2, <5>1
      <4> QED BY <4>1, <2>2, <3>4, <3>5, <1>10
    <3>6. CASE ~(ts(sector) > ts(q))
      <4>1. \A x \in Next0 : ts(x) < ts(q) \/ (ts(x) = ts(q) /\ q <= x)
        BY <1>1, <1>4, <2>2, <3>2, <3>3, <3>6
      <4> QED BY <4>1, <2>2, <3>2, <3>4, <3>6, <1>10
    <3> QED BY <3>5, <3>6
  <2> QED BY <2>3, <2>4
<1> QED BY <1>14, <1>15, <1>16

LEMMA StepKeeps == ScanInv /\ [Next]_vars => ScanInv'
<1> SUFFICES ASSUME ScanInv, [Next]_vars PROVE ScanInv'
  OBVIOUS
<1>1. CASE ReadSector
  <2>1. TypeOK'
    <3>1. sector \in Sectors /\ Programmed(flash, block, sector)
      BY <1>1, ReadableGrows
    <3>2. InSector(flash, block, sector) \in Finds
      BY <3>1, StampsOfLinks DEF ScanInv, TypeOK, InSector, Finds, At, Address
    <3>3. sector + 1 \in 0 .. SectorsPerBlock
      BY <3>1, GeometryAssumption DEF Sectors
    <3> QED BY <1>1, <3>2, <3>3 DEF ReadSector, ScanInv, TypeOK
  <2>2. Scanned'
    <3>1. sector \in Nat
      BY <1>1, ReadableGrows DEF Sectors
    <3>2. \A t \in 0 .. sector : Programmed(flash, block, t)
      BY <3>1, <1>1 DEF ScanInv, Scanned, ReadSector, Programmed
    <3> QED BY <1>1, <3>1, <3>2 DEF Scanned, ReadSector, Programmed
  <2>3. HoldsNewest'
    BY <1>1, ReadKeepsNewest
  <2> QED BY <2>1, <2>2, <2>3 DEF ScanInv
<1>2. CASE Finish
  <2>1. TypeOK'
    BY <1>2 DEF Finish, ScanInv, TypeOK
  <2>2. Scanned'
    BY <1>2, GeometryAssumption DEF Finish, ScanInv, TypeOK, Scanned, Programmed
  <2>3. HoldsNewest'
    BY <1>2 DEF Finish, ScanInv, HoldsNewest, Candidates
  <2> QED BY <2>1, <2>2, <2>3 DEF ScanInv
<1>3. CASE UNCHANGED vars
  BY <1>3 DEF vars, ScanInv, TypeOK, Scanned, HoldsNewest, Candidates
<1> QED BY <1>1, <1>2, <1>3 DEF Next

(* The sectors that were not read cannot be accepted. *)
LEMMA RestIsUnreadable ==
    ASSUME ScanInv, done
    PROVE  Readable(flash, block, sector) = Readable(flash, block, SectorsPerBlock)
<1>1. sector \in 0 .. SectorsPerBlock /\ SectorsPerBlock \in Nat
  BY GeometryAssumption DEF ScanInv, TypeOK
<1>2. CASE sector = SectorsPerBlock
  BY <1>2
<1>3. CASE ~Programmed(flash, block, sector)
  <2>1. ASSUME NEW x \in Sectors, \A t \in 0 .. x : Programmed(flash, block, t)
        PROVE  x < sector
    BY <1>1, <1>3, <2>1 DEF Sectors
  <2> QED BY <1>1, <2>1 DEF Readable, Sectors
<1> QED BY <1>2, <1>3 DEF ScanInv, Scanned

LEMMA InvImplies == ScanInv => ScanFindsLink
<1> SUFFICES ASSUME ScanInv PROVE ScanFindsLink
  OBVIOUS
<1>1. found = FindLinkIn(flash, block, sector, before)
  BY HeldIsFindLinkIn DEF ScanInv
<1>2. ASSUME done PROVE found = FindLink(flash, block, before)
  <2>1. Readable(flash, block, sector) = Readable(flash, block, SectorsPerBlock)
    BY <1>2, RestIsUnreadable
  <2>2. Restarts(flash, block, sector) = Restarts(flash, block, SectorsPerBlock)
    BY <2>1 DEF Restarts
  <2>3. AfterRestarts(flash, block, sector) = AfterRestarts(flash, block, SectorsPerBlock)
    BY <2>1, <2>2 DEF AfterRestarts
  <2>4. \A t : Eligible(flash, block, sector, t) = Eligible(flash, block, SectorsPerBlock, t)
    BY <2>1, <2>2, <2>3 DEF Eligible
  <2>5. FindLinkIn(flash, block, sector, before) = FindLinkIn(flash, block, SectorsPerBlock, before)
    BY <2>4 DEF FindLinkIn
  <2>6. block \in Blocks
    BY DEF ScanInv, TypeOK
  <2> QED BY <1>1, <2>5, <2>6 DEF FindLink
<1> QED BY <1>1, <1>2 DEF ScanFindsLink

(* find_link() (super_block_manager.cpp) returns FindLink of the block it   *)
(* scans, whatever the number of sectors, their contents and the link that  *)
(* its caller had found before.                                             *)
THEOREM ScanIsCorrect == Spec => []ScanFindsLink
<1>1. Init => ScanInv
  BY InitHolds
<1>2. ScanInv /\ [Next]_vars => ScanInv'
  BY StepKeeps
<1>3. ScanInv => ScanFindsLink
  BY InvImplies
<1> QED BY <1>1, <1>2, <1>3, PTL DEF Spec
=============================================================================
