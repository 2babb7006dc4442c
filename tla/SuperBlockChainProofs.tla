----------------------- MODULE SuperBlockChainProofs -----------------------
(***************************************************************************)
(* The first part: SuperBlockInv is an invariant of SuperBlock, for every  *)
(* geometry and every number of blocks, saves, losses of power and         *)
(* failures; WriteAhead follows from it.  The heart of the proof is the    *)
(* step Relink.  The block that an active call has just filled holds one   *)
(* link, which names the block filled by the call around it.  So what      *)
(* walk() finds when it looks for the block that was left cannot be in a   *)
(* block just filled, and the nested call works elsewhere.                 *)
(*                                                                         *)
(* The second part is how a chain is read and written: what find_link()    *)
(* and walk() make of a chain that is in order, what the one write that    *)
(* switches makes of it, and how create() prepares it.  That a created     *)
(* volume is found follows from these alone; SuperBlockStoreProofs is      *)
(* about save().                                                           *)
(***************************************************************************)
EXTENDS SuperBlockChain, SuperBlockStore, Inductions, SequenceTheorems

-----------------------------------------------------------------------------
(* What find_link() and walk() return, for every medium. *)

(* What a medium holds, and what a walk may have found in it. *)
Medium == [Blocks -> [Sectors -> Links \union {Erased}]]

FoundIn(fl) ==
    {Start} \union
    {f \in [link : Links, where : Address] :
        f.link = fl[f.where.block][f.where.sector]}

(* Among some sectors one is the newest, so that Newest is well defined. *)
LEMMA NewestExists ==
    ASSUME NEW fl, NEW b, NEW cands \in SUBSET Nat, cands # {},
           \A x \in cands : fl[b][x].timestamp \in 0 .. TimestampInvalid
    PROVE  Newest(fl, b, cands) \in cands
<1> DEFINE ts(x) == fl[b][x].timestamp
           gap(x) == TimestampInvalid - ts(x)
<1>1. \A x \in cands : gap(x) \in Nat /\ ts(x) \in Nat
  BY GeometryAssumption
<1>2. PICK g \in {gap(x) : x \in cands} : \A h \in {gap(x) : x \in cands} : g <= h
  <2>1. {gap(x) : x \in cands} \subseteq Nat /\ {gap(x) : x \in cands} # {}
    BY <1>1
  <2> QED BY <2>1, LeastNatural
<1>3. PICK m \in {x \in cands : gap(x) = g} : \A n \in {x \in cands : gap(x) = g} : m <= n
  <2>1. {x \in cands : gap(x) = g} # {} /\ {x \in cands : gap(x) = g} \subseteq Nat
    OBVIOUS
  <2> QED BY <2>1, LeastNatural
<1>4. IsNewest(fl, b, cands, m)
  <2>1. ASSUME NEW x \in cands
        PROVE  ts(x) < ts(m) \/ (ts(x) = ts(m) /\ m <= x)
    <3>1. gap(m) <= gap(x)
      BY <1>2, <1>3
    <3>2. gap(x) = gap(m) => m <= x
      BY <1>3
    <3> QED BY <3>1, <3>2, <1>1, GeometryAssumption
  <2> QED BY <2>1, <1>3 DEF IsNewest
<1> QED BY <1>3, <1>4 DEF Newest

(* find_link() returns what it was given, or a link and the sector that     *)
(* holds it.                                                                *)
LEMMA FindLinkFinds ==
    ASSUME NEW fl \in Medium, NEW b, NEW found \in FoundIn(fl)
    PROVE  FindLink(fl, b, found) \in FoundIn(fl)
<1>1. CASE b \notin Blocks
  BY <1>1 DEF FindLink
<1>2. CASE b \in Blocks
  <2> DEFINE cands == Eligible(fl, b, SectorsPerBlock, found.link.timestamp)
  <2>1. FindLink(fl, b, found) =
            IF cands = {} THEN found ELSE InSector(fl, b, Newest(fl, b, cands))
    BY <1>2 DEF FindLink, FindLinkIn
  <2>2. cands \subseteq Readable(fl, b, SectorsPerBlock)
    BY DEF Eligible, AfterRestarts, Restarts
  <2>3. ASSUME NEW s \in cands
        PROVE  s \in Sectors /\ s \in Nat /\ fl[b][s] \in Links
    <3>1. s \in Sectors /\ s \in Nat /\ s \in 0 .. s
      BY <2>2, GeometryAssumption DEF Readable, Sectors
    <3>2. fl[b][s] # Erased
      BY <2>2, <3>1 DEF Readable, Programmed
    <3>3. fl[b] \in [Sectors -> Links \union {Erased}]
      BY <1>2 DEF Medium
    <3>4. fl[b][s] \in Links \union {Erased}
      BY <3>1, <3>3
    <3> QED BY <3>1, <3>2, <3>4
  <2>4. CASE cands # {}
    <3>1. cands \in SUBSET Nat
      BY <2>3
    <3>2. \A x \in cands : fl[b][x].timestamp \in 0 .. TimestampInvalid
      BY <2>3 DEF Links, Stamps
    <3> DEFINE q == Newest(fl, b, cands)
    <3>3. q \in cands
      BY <3>1, <3>2, <2>4, NewestExists
    <3>4. q \in Sectors /\ fl[b][q] \in Links
      BY <3>3, <2>3
    <3>5. At(b, q) \in Address
      BY <3>4, <1>2 DEF At, Address
    <3> HIDE DEF q
    <3>6. InSector(fl, b, q) \in FoundIn(fl)
      BY <3>4, <3>5 DEF InSector, FoundIn, At
    <3> QED BY <3>6, <2>1, <2>4 DEF q
  <2>5. CASE cands = {}
    BY <2>1, <2>5
  <2> QED BY <2>4, <2>5
<1> QED BY <1>1, <1>2

LEMMA StartFound == ASSUME NEW fl PROVE Start \in FoundIn(fl)
  BY DEF FoundIn

LEMMA AnchorLinkFinds ==
    ASSUME NEW fl \in Medium
    PROVE  AnchorLink(fl) \in FoundIn(fl)
<1> DEFINE one == FindLink(fl, Anchor1, Start)
           two == FindLink(fl, Anchor2, one)
<1>1. one \in FoundIn(fl)
  BY StartFound, FindLinkFinds
<1>2. two \in FoundIn(fl)
  BY <1>1, FindLinkFinds
<1>3. {FindLink(fl, Anchor2, l) : l \in {one}} = {two}
  OBVIOUS
<1>4. AnchorLink(fl) = two
  BY <1>3 DEF AnchorLink
<1> QED BY <1>2, <1>4

LEMMA BelowFinds ==
    ASSUME NEW fl \in Medium, NEW found \in FoundIn(fl)
    PROVE  Below(fl, found) \in FoundIn(fl)
<1> DEFINE next == FindLink(fl, found.link.chained, found)
<1>1. {FindLink(fl, l.link.chained, l) : l \in {found}} = {next}
  OBVIOUS
<1>2. Below(fl, found) = next
  BY <1>1 DEF Below
<1> QED BY <1>2, FindLinkFinds

(* walk() is sound: what it finds is a link, in the sector it names, whose  *)
(* chained block is the one that was asked for.                             *)
LEMMA WalkIsSound ==
    ASSUME NEW fl \in Medium, NEW desired
    PROVE  LET walk == Walk(fl, desired)
           IN  /\ Found(walk) =>
                     /\ walk.link \in Links
                     /\ walk.where \in Address
                     /\ walk.link = fl[walk.where.block][walk.where.sector]
                     /\ walk.link.chained = desired
               /\ ~Found(walk) => walk = Start
<1> DEFINE top    == AnchorLink(fl)
           first  == Below(fl, top)
           second == Below(fl, first)
           third  == Below(fl, second)
           path   == <<first, second, third>>
           hits   == {i \in DOMAIN path : path[i].link.chained = desired}
           none   == top.where = NoAddress
           child  == desired # NoBlock /\ top.link.chained = desired
           least  == CHOOSE i \in hits : \A j \in hits : i <= j
           walk   == Walk(fl, desired)
<1>1. /\ top \in FoundIn(fl) /\ first \in FoundIn(fl)
      /\ second \in FoundIn(fl) /\ third \in FoundIn(fl)
  BY AnchorLinkFinds, BelowFinds
<1>2. walk = CASE none                                   -> Start
               [] ~none /\ child                         -> top
               [] ~none /\ ~child /\ hits = {}           -> Start
               [] OTHER                                  -> path[least]
  BY DEF Walk
<1>3. SUFFICES /\ walk \in FoundIn(fl)
               /\ Found(walk) => walk.link.chained = desired
  <2>1. Start.where = NoAddress /\ NoAddress \notin Address
    BY BlocksAssumption DEF Start, NoAddress, Address
  <2>2. walk # Start => walk \in FoundIn(fl) \ {Start}
                        \/ walk \notin FoundIn(fl)
    OBVIOUS
  <2> QED BY <1>3, <2>1, <2>2 DEF Found, FoundIn
<1>4. Start.where = NoAddress
  BY DEF Start
<1>5. hits \subseteq 1 .. 3
  OBVIOUS
<1> HIDE DEF top, first, second, third, walk
<1>6. CASE none
  BY <1>2, <1>4, <1>6, StartFound DEF Found
<1>7. CASE ~none /\ child
  BY <1>1, <1>2, <1>7
<1>8. CASE ~none /\ ~child /\ hits = {}
  BY <1>2, <1>4, <1>8, StartFound DEF Found
<1>9. CASE ~none /\ ~child /\ hits # {}
  <2>1. walk = path[least]
    BY <1>2, <1>9
  <2>2. hits \subseteq Nat
    BY <1>5
  <2>3. \E i \in hits : \A j \in hits : i <= j
    BY <1>9, <2>2, LeastNatural
  <2>4. least \in hits
    BY <2>3
  <2>5. path[least].link.chained = desired
    BY <2>4
  <2>6. least = 1 \/ least = 2 \/ least = 3
    <3> HIDE DEF least
    <3> QED BY <2>4, <1>5
  <2>7. path[least] \in FoundIn(fl)
    <3> HIDE DEF least
    <3> QED BY <2>6, <1>1
  <2> QED BY <2>1, <2>5, <2>7
<1> QED BY <1>6, <1>7, <1>8, <1>9

LEMMA Types ==
    /\ 0 \in Sectors
    /\ 0 .. 5 \subseteq Stamps
    /\ NoAddress \notin Address
    /\ \A a \in Address : a.block \in Blocks /\ a.sector \in Sectors
    /\ \A b \in Blocks, s \in Sectors : At(b, s) \in Address
    /\ \A l \in Links : /\ l.timestamp \in Stamps /\ l.type \in BlockTypes
                        /\ l.chained \in Blocks \union {NoBlock}
                        /\ l.value \in Value \union {Nothing}
    /\ \A t \in Stamps : NextStamp(t) \in Stamps
    /\ Anchor1 \in Blocks /\ Anchor2 \in Blocks /\ Pool \subseteq Blocks
    /\ NoBlock \notin Blocks /\ NoBlock \notin Pool
<1>1. 0 \in Sectors /\ 0 .. 5 \subseteq Stamps
  BY GeometryAssumption DEF Sectors, Stamps
<1>2. \A a \in Address : a.block \in Blocks /\ a.sector \in Sectors
  BY DEF Address
<1>3. \A b \in Blocks, s \in Sectors : At(b, s) \in Address
  BY DEF At, Address
<1>4. /\ Anchor1 \in Blocks /\ Anchor2 \in Blocks /\ Pool \subseteq Blocks
      /\ NoBlock \notin Blocks /\ NoBlock \notin Pool
  BY BlocksAssumption DEF Blocks, Anchors
<1>5. NoAddress \notin Address
  BY <1>2, <1>4 DEF NoAddress
<1>6. \A t \in Stamps : NextStamp(t) \in Stamps
  BY GeometryAssumption DEF Stamps, NextStamp
<1>7. \A l \in Links : /\ l.timestamp \in Stamps /\ l.type \in BlockTypes
                       /\ l.chained \in Blocks \union {NoBlock}
                       /\ l.value \in Value \union {Nothing}
  BY DEF Links
<1> QED BY <1>1, <1>2, <1>3, <1>4, <1>5, <1>6, <1>7

LEMMA LinkType ==
    ASSUME NEW type \in BlockTypes, NEW stamp \in Stamps,
           NEW chained \in Blocks \union {NoBlock},
           NEW value \in Value \union {Nothing}
    PROVE  Link(type, stamp, chained, value) \in Links
  BY DEF Link, Links

(* The storage operations keep the medium well formed. *)
LEMMA MediumType ==
    ASSUME flash \in Medium
    PROVE  /\ \A b : Erasing(b) \in Medium
           /\ \A b, kept : PartlyErasing(b, kept) \in Medium
           /\ \A b, s : \A link \in Links : Programming(b, s, link) \in Medium
           /\ [b \in Blocks |-> [s \in Sectors |-> Erased]] \in Medium
<1>1. \A b : Erasing(b) \in Medium
  BY DEF Erasing, Medium
<1>2. \A b, kept : PartlyErasing(b, kept) \in Medium
  <2> SUFFICES ASSUME NEW b, NEW kept PROVE PartlyErasing(b, kept) \in Medium
    OBVIOUS
  <2> DEFINE row == [s \in Sectors |-> IF s \in kept THEN flash[b][s] ELSE Erased]
  <2>1. CASE b \in Blocks
    <3>1. flash[b] \in [Sectors -> Links \union {Erased}]
      BY <2>1 DEF Medium
    <3>2. row \in [Sectors -> Links \union {Erased}]
      BY <3>1
    <3> HIDE DEF row
    <3>3. [flash EXCEPT ![b] = row] \in Medium
      BY <3>2 DEF Medium
    <3> QED BY <3>3 DEF PartlyErasing, row
  <2>2. CASE b \notin Blocks
    <3> HIDE DEF row
    <3>1. [flash EXCEPT ![b] = row] \in Medium
      BY <2>2 DEF Medium
    <3> QED BY <3>1 DEF PartlyErasing, row
  <2> QED BY <2>1, <2>2
<1>3. \A b, s : \A link \in Links : Programming(b, s, link) \in Medium
  BY DEF Programming, Medium
<1>4. [b \in Blocks |-> [s \in Sectors |-> Erased]] \in Medium
  BY DEF Medium
<1> QED BY <1>1, <1>2, <1>3, <1>4

(* What is read from a medium by locate() is a super block's link. *)
LEMMA LocateFinds ==
    ASSUME flash \in Medium, Found(Super(flash))
    PROVE  /\ Super(flash).where \in Address
           /\ Super(flash).link \in Links
           /\ Super(flash).link.chained = NoBlock
  BY WalkIsSound DEF Super

-----------------------------------------------------------------------------
(* The stack of calls. *)

CallsInv == Waiting /\ TopReady /\ Apart /\ Chained

LEMMA NoCallsReady ==
    ASSUME calls' = <<>>
    PROVE  calls' \in Seq(Call) /\ CallsInv'
<1>1. Len(calls') = 0 /\ DOMAIN calls' = {} /\ calls' \in Seq(Call)
  OBVIOUS
<1>2. Waiting'
  BY <1>1 DEF Waiting
<1>3. TopReady'
  BY DEF TopReady
<1>4. Apart' /\ Chained'
  BY <1>1 DEF Apart, Chained
<1> QED BY <1>1, <1>2, <1>3, <1>4 DEF CallsInv

LEMMA TopType ==
    ASSUME calls \in Seq(Call), calls # <<>>
    PROVE  /\ Len(calls) \in Nat \ {0}
           /\ Len(calls) \in DOMAIN calls
           /\ DOMAIN calls = 1 .. Len(calls)
           /\ \A i \in 1 .. Len(calls) : calls[i] \in Call
           /\ Top \in Call
<1>1. Len(calls) \in Nat \ {0} /\ DOMAIN calls = 1 .. Len(calls)
  BY EmptySeq, LenProperties
<1>2. \A i \in 1 .. Len(calls) : calls[i] \in Call
  BY ElementOfSeq
<1> QED BY <1>1, <1>2 DEF Top

LEMMA FrameType ==
    ASSUME NEW frame \in Call
    PROVE  /\ frame.addr \in Address /\ frame.link \in Links
           /\ frame.to \in Address \union {NoAddress}
           /\ frame.pc \in {"enter", "erase", "write", "relink", "free",
                            "mark", "done"}
  BY DEF Call

LEMMA EnteringType ==
    ASSUME NEW addr \in Address, NEW link \in Links
    PROVE  Entering(addr, link) \in Call
  BY DEF Entering, Call

(* While a call of save() is active the stack is not empty, and otherwise   *)
(* it is.                                                                   *)
LEMMA ActiveCall ==
    ASSUME SuperBlockInv, NEW pc, Running(pc)
    PROVE  /\ calls # <<>> /\ mode = "saving" /\ location \in Address
           /\ Top \in Call /\ Top.pc = pc
           /\ calls \in Seq(Call) /\ Len(calls) \in Nat \ {0}
           /\ Top = calls[Len(calls)]
<1>1. calls # <<>> /\ Top.pc = pc
  BY DEF Running, Top
<1>2. mode = "saving" /\ location \in Address
  BY <1>1 DEF SuperBlockInv, Control
<1>3. calls \in Seq(Call)
  BY DEF SuperBlockInv, TypeOK
<1>4. Len(calls) \in Nat \ {0} /\ Top \in Call
  BY <1>1, <1>3, TopType, Zenon
<1> QED BY <1>1, <1>2, <1>3, <1>4 DEF Top

(* Replacing the top call keeps what holds of the others. *)
LEMMA TopReplaced ==
    ASSUME calls \in Seq(Call), calls # <<>>, NEW frame \in Call, TopGoes(frame)
    PROVE  /\ calls' \in Seq(Call) /\ calls' # <<>>
           /\ Len(calls') = Len(calls)
           /\ DOMAIN calls' = 1 .. Len(calls)
           /\ calls'[Len(calls)] = frame /\ Top' = frame
           /\ \A i \in 1 .. Len(calls) : i # Len(calls) => calls'[i] = calls[i]
<1>1. Len(calls) \in 1 .. Len(calls)
  BY TopType
<1>2. /\ calls' \in Seq(Call) /\ Len(calls') = Len(calls)
      /\ \A j \in 1 .. Len(calls) :
            calls'[j] = IF j = Len(calls) THEN frame ELSE calls[j]
  <2> DEFINE next == [calls EXCEPT ![Len(calls)] = frame]
  <2>1. /\ next \in Seq(Call) /\ Len(next) = Len(calls)
        /\ \A j \in 1 .. Len(calls) :
              next[j] = IF j = Len(calls) THEN frame ELSE calls[j]
    BY <1>1, ExceptSeq
  <2>2. calls' = next
    BY DEF TopGoes
  <2> HIDE DEF next
  <2> QED BY <2>1, <2>2
<1>3. DOMAIN calls' = 1 .. Len(calls)
  BY <1>2, LenProperties
<1>4. calls' # <<>>
  BY <1>1, <1>3
<1> QED BY <1>1, <1>2, <1>3, <1>4 DEF Top

(* A step of the top call that changes no block but `touched'. *)
LEMMA TopSteps ==
    ASSUME SuperBlockInv, calls # <<>>,
           NEW frame \in Call, TopGoes(frame),
           NEW touched,
           \A b \in Blocks : b # touched => flash'[b] = flash[b],
           \A i \in 1 .. Len(calls) - 1 :
               /\ calls[i].to.block # touched
               /\ calls[i].to.block \in Pool \ free'
               /\ calls[i].to.block # frame.to.block,
           frame.addr = Top.addr,
           frame.to \in Address,
           frame.pc # "enter",
           frame.pc \notin {"mark", "done"} =>
               frame.link = Top.link /\ Top.pc \notin {"mark", "done"},
           frame.pc \in {"relink", "free", "mark"} => Moved(frame),
           frame.pc = "relink" =>
               flash'[frame.to.block] =
                   [s \in Sectors |-> IF s = 0 THEN frame.link ELSE Erased],
           Relies(frame) => /\ frame.to.block \in Pool \ free'
                            /\ frame.to.sector = 0,
           frame.pc = "write" /\ Moved(frame) =>
               \A s \in Sectors : flash'[frame.to.block][s] = Erased
    PROVE  calls' \in Seq(Call) /\ CallsInv'
<1> DEFINE n == Len(calls)
<1>1. calls \in Seq(Call)
  BY DEF SuperBlockInv, TypeOK
<1>2. /\ calls' \in Seq(Call) /\ calls' # <<>> /\ Len(calls') = n
      /\ DOMAIN calls' = 1 .. n /\ calls'[n] = frame /\ Top' = frame
      /\ \A i \in 1 .. n : i # n => calls'[i] = calls[i]
  BY <1>1, TopReplaced, Zenon
<1>3. n \in Nat \ {0} /\ DOMAIN calls = 1 .. n /\ Top = calls[n]
  BY <1>1, TopType DEF Top
<1> HIDE DEF n
<1>3a. \A i \in 1 .. n - 1 : i \in 1 .. n /\ i # n
  BY <1>3
<1>4. Waiting'
  <2> SUFFICES ASSUME NEW i \in 1 .. n - 1
               PROVE  /\ calls'[i].pc = "free"
                      /\ Moved(calls[i])'
                      /\ IsFresh(calls[i])'
                      /\ OnlyHolds(calls[i].to.block, calls[i].link)'
    BY <1>2 DEF Waiting
  <2>1. calls'[i] = calls[i]
    BY <1>2, <1>3a
  <2>2. /\ calls[i].pc = "free" /\ Moved(calls[i]) /\ IsFresh(calls[i])
        /\ OnlyHolds(calls[i].to.block, calls[i].link)
    BY DEF SuperBlockInv, Waiting, n
  <2>3. /\ calls[i].to.block # touched
        /\ calls[i].to.block \in Pool \ free'
    BY DEF n
  <2>4. flash'[calls[i].to.block] = flash[calls[i].to.block]
    BY <2>3, Types
  <2> QED BY <2>1, <2>2, <2>3, <2>4 DEF IsFresh, OnlyHolds, Moved
<1>5. TopReady'
  BY <1>2 DEF TopReady, OnlyHolds, Blank, IsFresh, Moved, Relies
<1>6. Apart'
  <2> SUFFICES ASSUME NEW i \in 1 .. n, NEW j \in 1 .. n, i < j
               PROVE  /\ calls'[j].addr.block # calls'[i].to.block
                      /\ calls'[j].pc # "enter" =>
                            calls'[j].to.block # calls'[i].to.block
    BY <1>2 DEF Apart
  <2>1. i # n /\ i \in 1 .. n - 1
    BY <1>3
  <2>2. calls'[i] = calls[i]
    BY <1>2, <2>1
  <2>3. /\ calls[j].addr.block # calls[i].to.block
        /\ calls[j].pc # "enter" => calls[j].to.block # calls[i].to.block
    BY <1>3 DEF SuperBlockInv, Apart
  <2>4. CASE j # n
    <3>1. calls'[j] = calls[j]
      BY <1>2, <2>4
    <3> QED BY <2>2, <2>3, <3>1
  <2>5. CASE j = n
    <3>1. calls'[j] = frame /\ frame.addr = calls[j].addr
      BY <1>2, <1>3, <2>5
    <3>2. calls[i].to.block # frame.to.block
      BY <2>1 DEF n
    <3> QED BY <2>2, <2>3, <3>1, <3>2
  <2> QED BY <2>4, <2>5
<1>7. Chained'
  <2> SUFFICES ASSUME NEW i \in 1 .. n, calls'[i].pc \notin {"mark", "done"}
               PROVE  calls'[i].link.chained =
                        IF i = 1 THEN NoBlock ELSE calls'[i - 1].to.block
    BY <1>2 DEF Chained
  <2>1. i = 1 \/ (i - 1 \in 1 .. n /\ i - 1 # n)
    BY <1>3
  <2>2. i = 1 \/ calls'[i - 1] = calls[i - 1]
    BY <1>2, <2>1
  <2>3. calls[i].pc \notin {"mark", "done"} =>
          calls[i].link.chained = IF i = 1 THEN NoBlock
                                           ELSE calls[i - 1].to.block
    BY <1>3 DEF SuperBlockInv, Chained
  <2>4. calls'[i].link = calls[i].link /\ calls[i].pc \notin {"mark", "done"}
    <3>1. CASE i # n
      <4>1. calls'[i] = calls[i]
        BY <1>2, <3>1
      <4> QED BY <4>1
    <3>2. CASE i = n
      BY <1>2, <1>3, <3>2
    <3> QED BY <3>1, <3>2
  <2> QED BY <2>2, <2>3, <2>4
<1> QED BY <1>2, <1>4, <1>5, <1>6, <1>7 DEF CallsInv

-----------------------------------------------------------------------------
(* Steps outside save(). *)

LEMMA InitInv == Init => SuperBlockInv
<1> SUFFICES ASSUME Init PROVE SuperBlockInv
  OBVIOUS
<1>1. calls = <<>> /\ Len(calls) = 0 /\ DOMAIN calls = {} /\ calls \in Seq(Call)
  BY DEF Init
<1>2. Waiting /\ Apart /\ Chained /\ TopReady
  BY <1>1 DEF Waiting, Apart, Chained, TopReady
<1>3. flash \in Medium
  BY DEF Init, Medium
<1>4. sb \in Links /\ sb.chained = NoBlock
  <2>1. Link("SuperBlock", 0, NoBlock, Nothing) \in Links
    BY Types, LinkType DEF BlockTypes
  <2> QED BY <2>1 DEF Init, Link
<1>5. creation \in Creation
  BY DEF Init, NoCreation, Creation
<1>6. TypeOK
  BY <1>1, <1>3, <1>4, <1>5 DEF Init, TypeOK, Medium, Modes
<1>7. Control
  BY <1>1, <1>4 DEF Init, Control
<1> QED BY <1>2, <1>6, <1>7 DEF SuperBlockInv

LEMMA NoCallsInv ==
    ASSUME calls' = <<>>, flash' \in Medium, free' \in SUBSET Pool,
           sb' \in Links, sb'.chained = NoBlock,
           location' \in Address \union {NoAddress},
           mode' \in Modes, mode' \in {"idle", "saving"} => location' \in Address,
           creation' \in Creation, outcome' \in {"none", "ok", "failed", "cut"},
           saves' \in Nat, formats' \in Nat, crashes' \in Nat, faults' \in Nat
    PROVE  SuperBlockInv'
<1>1. TypeOK'
  BY NoCallsReady DEF TypeOK, Medium
<1>2. Control'
  BY DEF Control
<1> QED BY <1>1, <1>2, NoCallsReady DEF SuperBlockInv, CallsInv

LEMMA CountersType ==
    ASSUME TypeOK
    PROVE  /\ saves \in Nat /\ saves + 1 \in Nat
           /\ formats \in Nat /\ formats + 1 \in Nat
           /\ crashes \in Nat /\ crashes + 1 \in Nat
           /\ faults \in Nat /\ faults + 1 \in Nat
  BY DEF TypeOK

(* With no call active, what a step may rely on. *)
LEMMA Quiet ==
    ASSUME SuperBlockInv
    PROVE  /\ mode # "saving" => calls = <<>>
           /\ flash \in Medium /\ free \in SUBSET Pool
           /\ sb \in Links /\ sb.chained = NoBlock
           /\ location \in Address \union {NoAddress}
           /\ creation \in Creation /\ NoCreation \in Creation
           /\ outcome \in {"none", "ok", "failed", "cut"}
  BY DEF SuperBlockInv, TypeOK, Control, Medium, Creation, NoCreation

LEMMA MountInv == ASSUME SuperBlockInv, Mount PROVE SuperBlockInv'
<1>1. TypeOK
  BY DEF SuperBlockInv
<1>2. Super(flash).where \in Address /\ Super(flash).link \in Links
      /\ Super(flash).link.chained = NoBlock
  BY Quiet, LocateFinds DEF Mount
<1> QED BY <1>1, <1>2, Quiet, CountersType, NoCallsInv DEF Mount, Modes, counters

LEMMA CreateInv == ASSUME SuperBlockInv, Create PROVE SuperBlockInv'
<1>1. TypeOK
  BY DEF SuperBlockInv
<1>2. /\ Link("SuperBlock", 0, NoBlock, 0) \in Links
      /\ Link("SuperBlock", 0, NoBlock, 0).chained = NoBlock
  <2>1. 0 \in Value
    BY BoundsAssumption
  <2> QED BY <2>1, Types, LinkType DEF BlockTypes, Link
<1>3. formats' \in Nat
  BY <1>1, CountersType DEF Create
<1> QED BY <1>1, <1>2, <1>3, Quiet, CountersType, NoCallsInv DEF Create, Modes

(* A reset leaves a medium and nothing else. *)
LEMMA ResetInv ==
    ASSUME SuperBlockInv, NEW fl \in Medium, ResetTo(fl),
           saves' \in Nat, formats' \in Nat, crashes' \in Nat, faults' \in Nat
    PROVE  SuperBlockInv'
<1>1. /\ Link("SuperBlock", 0, NoBlock, Nothing) \in Links
      /\ Link("SuperBlock", 0, NoBlock, Nothing).chained = NoBlock
  BY Types, LinkType DEF BlockTypes, Link
<1>2. {b \in Pool : ~IsTaken(fl, b)} \in SUBSET Pool
  OBVIOUS
<1> QED BY <1>1, <1>2, Quiet, NoCallsInv DEF ResetTo, Stop, Modes

LEMMA OutOfBlocksInv == ASSUME SuperBlockInv, OutOfBlocks PROVE SuperBlockInv'
<1>1. TypeOK
  BY DEF SuperBlockInv
<1>2. flash \in Medium
  BY Quiet
<1> QED BY <1>1, <1>2, ResetInv, CountersType DEF OutOfBlocks, counters

LEMMA CrashInv == ASSUME SuperBlockInv, Crash PROVE SuperBlockInv'
<1>1. TypeOK
  BY DEF SuperBlockInv
<1>2. flash \in Medium
  BY Quiet
<1> QED BY <1>1, <1>2, ResetInv, CountersType DEF Crash

LEMMA CrashInEraseInv ==
    ASSUME SuperBlockInv, CrashInErase PROVE SuperBlockInv'
<1>1. TypeOK
  BY DEF SuperBlockInv
<1>2. PICK b \in Doomed, kept \in SUBSET Sectors : ResetTo(PartlyErasing(b, kept))
  BY DEF CrashInErase
<1>3. PartlyErasing(b, kept) \in Medium
  BY Quiet, MediumType
<1> QED BY <1>1, <1>2, <1>3, ResetInv, CountersType DEF CrashInErase

-----------------------------------------------------------------------------
(* The steps of create(). *)

LEMMA CreationType ==
    ASSUME TypeOK
    PROVE  /\ creation.level \in 0 .. 5
           /\ creation.chained \in Blocks \union {NoBlock}
           /\ creation.level < 5 => NextLevel(creation) \in Creation
           /\ \A pc \in {"allocate", "erase", "write", "locate"} :
                 [creation EXCEPT !.pc = pc] \in Creation
           /\ \A b \in Blocks, super \in Blocks \union {creation.super} :
                 [creation EXCEPT !.block = b, !.pc = "erase", !.super = super]
                     \in Creation
<1>1. creation \in Creation
  BY DEF TypeOK
<1>2. creation.level < 5 => NextLevel(creation) \in Creation
  <2> SUFFICES ASSUME creation.level < 5 PROVE NextLevel(creation) \in Creation
    OBVIOUS
  <2>1. creation.level + 1 \in 0 .. 5
    BY <1>1 DEF Creation
  <2> DEFINE pc == CASE creation.level + 1 \in 1 .. 2 -> "allocate"
                     [] creation.level + 1 \in 3 .. 4 -> "erase"
                     [] OTHER                         -> "write"
             block == CASE creation.level + 1 = 3 -> Anchor1
                        [] creation.level + 1 = 4 -> Anchor2
                        [] creation.level + 1 = 5 -> creation.super
                        [] OTHER                  -> NoBlock
             chained == IF creation.level \in 0 .. 2 THEN creation.block
                                                     ELSE creation.chained
  <2>2. pc \in {"allocate", "erase", "write", "locate"}
    BY <2>1
  <2>3. block \in Blocks \union {NoBlock}
    BY <2>1, <1>1, Types DEF Creation
  <2>4. chained \in Blocks \union {NoBlock}
    BY <1>1 DEF Creation
  <2>5. NextLevel(creation) =
          [creation EXCEPT !.level = creation.level + 1, !.pc = pc,
                           !.block = block, !.chained = chained]
    BY <1>1 DEF NextLevel
  <2> HIDE DEF pc, block, chained
  <2> QED BY <1>1, <2>1, <2>2, <2>3, <2>4, <2>5 DEF Creation
<1> QED BY <1>1, <1>2 DEF Creation

LEMMA CreationLinkType ==
    ASSUME SuperBlockInv PROVE CreationLink \in Links
<1>1. TypeOK /\ sb \in Links
  BY Quiet DEF SuperBlockInv
<1>2. creation.level \in 0 .. 5 /\ creation.chained \in Blocks \union {NoBlock}
  BY <1>1, CreationType
<1>3. CreationStamp(creation.level) \in Stamps
  BY <1>2, Types DEF CreationStamp
<1>4. (IF creation.level \in 3 .. 4 THEN "Anchor" ELSE "SuperBlockLink")
          \in BlockTypes
  BY DEF BlockTypes
<1> QED BY <1>1, <1>2, <1>3, <1>4, LinkType DEF CreationLink

LEMMA CreateAllocatesInv ==
    ASSUME SuperBlockInv, NEW b \in Pool, CreateAllocates(b) PROVE SuperBlockInv'
<1>1. TypeOK
  BY DEF SuperBlockInv
<1>2. b \in Blocks
  BY Types
<1>3. creation' \in Creation
  BY <1>1, <1>2, CreationType DEF CreateAllocates
<1>4. free' \in SUBSET Pool
  BY Quiet DEF CreateAllocates, Allocates
<1> QED BY <1>1, <1>3, <1>4, Quiet, CountersType, NoCallsInv
        DEF CreateAllocates, Creating, Modes, counters

LEMMA CreateErasesInv ==
    ASSUME SuperBlockInv, CreateErases PROVE SuperBlockInv'
<1>1. TypeOK /\ sb \in Links
  BY Quiet DEF SuperBlockInv
<1>2. creation' \in Creation
  <2>1. creation.level = 0 => NextLevel(creation) \in Creation
    <3>1. creation.level = 0 => creation.level < 5
      OBVIOUS
    <3> QED BY <1>1, <3>1, CreationType
  <2>2. [creation EXCEPT !.pc = "write"] \in Creation
    BY <1>1, CreationType
  <2>3. \/ creation.level = 0 /\ creation' = NextLevel(creation)
        \/ creation' = [creation EXCEPT !.pc = "write"]
    BY DEF CreateErases
  <2> QED BY <2>1, <2>2, <2>3
<1>3. sb' \in Links /\ sb'.chained = NoBlock
  <2>1. CreationStamp(0) \in Stamps
    BY Types DEF CreationStamp
  <2>2. sb.value \in Value \union {Nothing}
    BY <1>1, Types
  <2>3. /\ Link("SuperBlock", CreationStamp(0), NoBlock, sb.value) \in Links
        /\ Link("SuperBlock", CreationStamp(0), NoBlock, sb.value).chained = NoBlock
    BY <2>1, <2>2, LinkType DEF BlockTypes, Link
  <2> QED BY <2>3, Quiet DEF CreateErases
<1>4. flash' \in Medium
  BY Quiet, MediumType DEF CreateErases
<1> QED BY <1>1, <1>2, <1>3, <1>4, Quiet, CountersType, NoCallsInv
        DEF CreateErases, Creating, Modes, counters

LEMMA CreateWritesInv ==
    ASSUME SuperBlockInv, CreateWrites PROVE SuperBlockInv'
<1>1. TypeOK
  BY DEF SuperBlockInv
<1>2. creation' \in Creation
  <2>1. creation.level # 5 => NextLevel(creation) \in Creation
    <3>1. creation.level \in 0 .. 5
      BY <1>1, CreationType
    <3>2. creation.level # 5 => creation.level < 5
      BY <3>1
    <3> QED BY <1>1, <3>2, CreationType
  <2>2. [creation EXCEPT !.pc = "locate"] \in Creation
    BY <1>1, CreationType
  <2>3. creation' = IF creation.level = 5 THEN [creation EXCEPT !.pc = "locate"]
                                          ELSE NextLevel(creation)
    BY DEF CreateWrites
  <2> QED BY <2>1, <2>2, <2>3
<1>3. flash' \in Medium
  BY Quiet, MediumType, CreationLinkType DEF CreateWrites
<1> QED BY <1>1, <1>2, <1>3, Quiet, CountersType, NoCallsInv
        DEF CreateWrites, Creating, Modes, counters

LEMMA CreateLocatesInv ==
    ASSUME SuperBlockInv, CreateLocates PROVE SuperBlockInv'
<1>1. TypeOK
  BY DEF SuperBlockInv
<1>2. CASE Found(Super(flash))
  BY <1>1, <1>2, LocateFinds, Quiet, CountersType, NoCallsInv
     DEF CreateLocates, Stop, Modes, counters
<1>3. CASE ~Found(Super(flash))
  BY <1>1, <1>3, MediumType, Quiet, CountersType, NoCallsInv
     DEF CreateLocates, Stop, Modes, counters
<1> QED BY <1>2, <1>3

LEMMA CreateFailsInv ==
    ASSUME SuperBlockInv, CreateFails PROVE SuperBlockInv'
<1>1. TypeOK
  BY DEF SuperBlockInv
<1>2. flash' \in Medium
  BY Quiet, MediumType, CreationLinkType DEF CreateFails
<1> QED BY <1>1, <1>2, Quiet, CountersType, NoCallsInv
        DEF CreateFails, Fault, Stop, Modes

-----------------------------------------------------------------------------
(* save() begins and ends. *)

LEMMA SaveInv == ASSUME SuperBlockInv, Save PROVE SuperBlockInv'
<1>1. TypeOK /\ sb \in Links /\ sb.chained = NoBlock
  BY Quiet DEF SuperBlockInv
<1>2. location \in Address
  BY DEF SuperBlockInv, Control, Save
<1> DEFINE record == [sb EXCEPT !.timestamp = NextStamp(@), !.value = saves + 1]
           frame == Entering(location, record)
<1>3. saves + 1 \in Value
  <2>1. saves + 1 \in 0 .. MaxSaves
    BY <1>1, BoundsAssumption DEF Save, TypeOK
  <2> QED BY <2>1, BoundsAssumption
<1>4. record \in Links /\ record.chained = NoBlock
  BY <1>1, <1>3, Types DEF Links
<1>5. sb' = record /\ calls' = <<frame>>
  BY DEF Save
<1> HIDE DEF record
<1>6. frame \in Call /\ frame.pc = "enter" /\ frame.link = record
  BY <1>2, <1>4, EnteringType DEF Entering
<1> HIDE DEF frame
<1>7. /\ calls' \in Seq(Call) /\ Len(calls') = 1 /\ DOMAIN calls' = 1 .. 1
      /\ calls'[1] = frame /\ Top' = frame
  BY <1>5, <1>6 DEF Top
<1>8. Waiting' /\ Apart'
  BY <1>7 DEF Waiting, Apart
<1>9. TopReady'
  BY <1>6, <1>7 DEF TopReady, Relies
<1>10. Chained'
  BY <1>4, <1>6, <1>7 DEF Chained
<1>11. TypeOK'
  BY <1>1, <1>4, <1>5, <1>7, CountersType DEF Save, TypeOK, Modes
<1>12. Control'
  BY <1>2, <1>4, <1>5 DEF Save, Control
<1> QED BY <1>8, <1>9, <1>10, <1>11, <1>12 DEF SuperBlockInv

LEMMA SaveFailsInv ==
    ASSUME SuperBlockInv, SaveFails, flash' \in Medium, calls # <<>>,
           saves' \in Nat, formats' \in Nat, crashes' \in Nat, faults' \in Nat
    PROVE  SuperBlockInv'
<1>1. location \in Address
  BY DEF SuperBlockInv, Control
<1> QED BY <1>1, Quiet, NoCallsInv DEF SaveFails, Stop, Modes

LEMMA LinkLostInv == ASSUME SuperBlockInv, LinkLost PROVE SuperBlockInv'
<1>1. TypeOK
  BY DEF SuperBlockInv
<1> QED BY <1>1, Quiet, CountersType, SaveFailsInv DEF LinkLost, Running, counters

LEMMA EraseFailsInv == ASSUME SuperBlockInv, EraseFails PROVE SuperBlockInv'
<1>1. TypeOK
  BY DEF SuperBlockInv
<1>2. flash' \in Medium
  BY Quiet, MediumType DEF EraseFails
<1> QED BY <1>1, <1>2, CountersType, SaveFailsInv DEF EraseFails, Fault, Running

LEMMA WriteFailsInv == ASSUME SuperBlockInv, WriteFails PROVE SuperBlockInv'
<1>1. TypeOK
  BY DEF SuperBlockInv
<1>2. Top.link \in Links
  BY ActiveCall, FrameType DEF WriteFails
<1>3. flash' \in Medium
  BY <1>2, Quiet, MediumType DEF WriteFails
<1> QED BY <1>1, <1>3, CountersType, SaveFailsInv DEF WriteFails, Fault, Running

LEMMA SaveReturnsInv == ASSUME SuperBlockInv, SaveReturns PROVE SuperBlockInv'
<1>1. TypeOK
  BY DEF SuperBlockInv
<1>2. calls # <<>> /\ Top.pc = "done"
  BY ActiveCall DEF SaveReturns
<1>3. Top.to \in Address
  BY <1>2 DEF SuperBlockInv, TopReady
<1> QED BY <1>1, <1>3, Quiet, CountersType, NoCallsInv
        DEF SaveReturns, Stop, Modes, counters

-----------------------------------------------------------------------------
(* The steps of the top call. *)

(* What the calls below the top one rely on. *)
LEMMA Below1 ==
    ASSUME SuperBlockInv, calls # <<>>, NEW i \in 1 .. Len(calls) - 1
    PROVE  /\ calls[i].to.block \in Pool \ free
           /\ calls[i].to.block # Top.addr.block
           /\ Top.pc # "enter" => calls[i].to.block # Top.to.block
<1>1. /\ DOMAIN calls = 1 .. Len(calls) /\ Len(calls) \in Nat \ {0}
      /\ Top = calls[Len(calls)]
  BY TopType DEF SuperBlockInv, TypeOK, Top
<1>2. i \in DOMAIN calls /\ Len(calls) \in DOMAIN calls /\ i < Len(calls)
  BY <1>1
<1>3. IsFresh(calls[i])
  BY DEF SuperBlockInv, Waiting
<1> QED BY <1>1, <1>2, <1>3 DEF SuperBlockInv, Apart, IsFresh

(* A step of save() keeps the invariant if it keeps the calls' part of it. *)
LEMMA SavingInv ==
    ASSUME SuperBlockInv, calls' \in Seq(Call), CallsInv', calls # <<>>,
           flash' \in Medium, free' \in SUBSET Pool,
           UNCHANGED <<sb, location, mode, creation, outcome>>,
           saves' \in Nat, formats' \in Nat, crashes' \in Nat, faults' \in Nat
    PROVE  SuperBlockInv'
<1>1. TypeOK'
  BY DEF SuperBlockInv, TypeOK, Medium
<1>2. Control'
  BY DEF SuperBlockInv, Control
<1> QED BY <1>1, <1>2 DEF SuperBlockInv, CallsInv

LEMMA NextSectorInv == ASSUME SuperBlockInv, NextSector PROVE SuperBlockInv'
<1> DEFINE frame == [Top EXCEPT
               !.to = At(Top.addr.block, Top.addr.sector + 1), !.pc = "write"]
<1>1. TypeOK /\ calls # <<>> /\ Top \in Call /\ Top.pc = "enter"
  BY ActiveCall DEF NextSector, SuperBlockInv
<1>2. Top.addr \in Address /\ Top.addr.block \in Blocks
  BY <1>1, FrameType, Types
<1>3. At(Top.addr.block, Top.addr.sector + 1) \in Address
  BY <1>2, Types DEF NextSector, Full
<1>4. /\ frame \in Call /\ frame.addr = Top.addr /\ frame.pc = "write"
      /\ frame.to \in Address /\ frame.link = Top.link
      /\ frame.to.block = frame.addr.block
  BY <1>1, <1>3 DEF Call, At
<1>5. TopGoes(frame) /\ UNCHANGED <<flash, free>>
  BY DEF NextSector
<1> HIDE DEF frame
<1>6. ~Moved(frame)
  BY <1>4 DEF Moved
<1>7. \A i \in 1 .. Len(calls) - 1 :
          /\ calls[i].to.block # NoBlock
          /\ calls[i].to.block \in Pool \ free'
          /\ calls[i].to.block # frame.to.block
  BY <1>1, <1>4, <1>5, Below1, Types
<1>8. calls' \in Seq(Call) /\ CallsInv'
  BY <1>1, <1>4, <1>5, <1>6, <1>7, TopSteps DEF Relies
<1> QED BY <1>1, <1>8, Quiet, CountersType, SavingInv DEF NextSector, counters

LEMMA SwapAnchorInv == ASSUME SuperBlockInv, SwapAnchor PROVE SuperBlockInv'
<1> DEFINE frame == [Top EXCEPT !.to = At(OtherAnchor(Top.addr.block), 0),
                                !.pc = "erase"]
<1>1. TypeOK /\ calls # <<>> /\ Top \in Call /\ Top.pc = "enter"
  BY ActiveCall DEF SwapAnchor, SuperBlockInv
<1>2. OtherAnchor(Top.addr.block) \in Anchors
  BY DEF OtherAnchor, Anchors
<1>3. At(OtherAnchor(Top.addr.block), 0) \in Address
  BY <1>2, Types DEF Anchors
<1>4. /\ frame \in Call /\ frame.addr = Top.addr /\ frame.pc = "erase"
      /\ frame.to \in Address /\ frame.link = Top.link
      /\ frame.to.block \in Anchors
  BY <1>1, <1>2, <1>3 DEF Call, At
<1>5. TopGoes(frame) /\ UNCHANGED <<flash, free>>
  BY DEF SwapAnchor
<1> HIDE DEF frame
<1>6. ~Moved(frame)
  BY <1>4 DEF Moved, SwapAnchor
<1>7. \A i \in 1 .. Len(calls) - 1 :
          /\ calls[i].to.block # NoBlock
          /\ calls[i].to.block \in Pool \ free'
          /\ calls[i].to.block # frame.to.block
  BY <1>1, <1>4, <1>5, Below1, BlocksAssumption, Types DEF Anchors
<1>8. calls' \in Seq(Call) /\ CallsInv'
  BY <1>1, <1>4, <1>5, <1>6, <1>7, TopSteps DEF Relies
<1> QED BY <1>1, <1>8, Quiet, CountersType, SavingInv DEF SwapAnchor, counters

LEMMA AllocateNextInv ==
    ASSUME SuperBlockInv, NEW b \in Pool, NEW erased \in BOOLEAN,
           AllocateNext(b, erased)
    PROVE  SuperBlockInv'
<1> DEFINE frame == [Top EXCEPT !.to = At(b, 0),
                                !.pc = IF erased THEN "write" ELSE "erase"]
<1>1. TypeOK /\ calls # <<>> /\ Top \in Call /\ Top.pc = "enter"
  BY ActiveCall DEF AllocateNext, SuperBlockInv
<1>2. At(b, 0) \in Address /\ b \in Blocks
  BY Types
<1>3. /\ frame \in Call /\ frame.addr = Top.addr
      /\ frame.pc = IF erased THEN "write" ELSE "erase"
      /\ frame.to \in Address /\ frame.link = Top.link
      /\ frame.to.block = b /\ frame.to.sector = 0
  BY <1>1, <1>2 DEF Call, At
<1>4. /\ TopGoes(frame) /\ flash' = flash
      /\ b \in free /\ free' = free \ {b} /\ free' \in SUBSET Pool
      /\ erased => Blank(b)
  BY Quiet DEF AllocateNext, Allocates
<1> HIDE DEF frame
<1>5. \A i \in 1 .. Len(calls) - 1 :
          /\ calls[i].to.block # NoBlock
          /\ calls[i].to.block \in Pool \ free'
          /\ calls[i].to.block # frame.to.block
  BY <1>1, <1>3, <1>4, Below1, Types
<1>6. frame.pc \in {"write", "erase"}
  BY <1>3
<1>7. frame.pc = "write" => \A s \in Sectors : flash'[frame.to.block][s] = Erased
  BY <1>3, <1>4 DEF Blank
<1>8. frame.to.block \in Pool \ free'
  BY <1>3, <1>4
<1>9. calls' \in Seq(Call) /\ CallsInv'
  BY <1>1, <1>3, <1>4, <1>5, <1>6, <1>7, <1>8, TopSteps DEF Relies
<1> QED BY <1>1, <1>4, <1>9, Quiet, CountersType, SavingInv
        DEF AllocateNext, counters

(* What an erase and a write leave alone, and what they leave behind. *)
LEMMA StorageEffect ==
    ASSUME flash \in Medium, NEW c \in Blocks
    PROVE  /\ \A b \in Blocks : b # c => Erasing(c)[b] = flash[b]
           /\ Erasing(c)[c] = [s \in Sectors |-> Erased]
           /\ \A s, link : \A b \in Blocks :
                 b # c => Programming(c, s, link)[b] = flash[b]
           /\ \A s, link :
                 Programming(c, s, link)[c] = [flash[c] EXCEPT ![s] = link]
           /\ flash[c] \in [Sectors -> Links \union {Erased}]
  BY DEF Medium, Erasing, Programming

LEMMA EraseTargetInv == ASSUME SuperBlockInv, EraseTarget PROVE SuperBlockInv'
<1> DEFINE frame == [Top EXCEPT !.pc = "write"]
           c == Top.to.block
<1>1. TypeOK /\ calls # <<>> /\ Top \in Call /\ Top.pc = "erase"
  BY ActiveCall DEF EraseTarget, SuperBlockInv
<1>2. Top.to \in Address /\ c \in Blocks
  BY <1>1, Types DEF SuperBlockInv, TopReady
<1>3. /\ frame \in Call /\ frame.addr = Top.addr /\ frame.pc = "write"
      /\ frame.to = Top.to /\ frame.link = Top.link
  BY <1>1 DEF Call
<1>4. TopGoes(frame) /\ flash' = Erasing(c) /\ free' = free
  BY DEF EraseTarget
<1>5. Relies(frame) => IsFresh(Top)
  BY <1>1, <1>3 DEF SuperBlockInv, TopReady, Relies, Moved
<1> HIDE DEF frame
<1>6. \A i \in 1 .. Len(calls) - 1 :
          /\ calls[i].to.block # c
          /\ calls[i].to.block \in Pool \ free'
          /\ calls[i].to.block # frame.to.block
  BY <1>1, <1>3, <1>4, Below1
<1>7. /\ \A b \in Blocks : b # c => flash'[b] = flash[b]
      /\ \A s \in Sectors : flash'[c][s] = Erased
  BY <1>2, <1>4, Quiet, StorageEffect
<1>8. calls' \in Seq(Call) /\ CallsInv'
  <2>1. Relies(frame) => frame.to.block \in Pool \ free' /\ frame.to.sector = 0
    BY <1>3, <1>4, <1>5 DEF IsFresh
  <2>2. \A s \in Sectors : flash'[frame.to.block][s] = Erased
    BY <1>3, <1>7
  <2>3. frame.pc \notin {"enter", "relink", "free", "mark"}
    BY <1>3
  <2>4. Top.pc \notin {"mark", "done"}
    BY <1>1
  <2>5. frame.to \in Address /\ frame.addr = Top.addr /\ frame.link = Top.link
    BY <1>2, <1>3
  <2>6. \A b \in Blocks : b # c => flash'[b] = flash[b]
    BY <1>7
  <2> HIDE DEF c
  <2>7. frame \in Call /\ calls # <<>> /\ TopGoes(frame)
    BY <1>1, <1>3, <1>4
  <2> QED BY <1>6, <2>1, <2>2, <2>3, <2>4, <2>5, <2>6, <2>7, TopSteps
<1>9. flash' \in Medium
  BY <1>4, Quiet, MediumType
<1> QED BY <1>1, <1>4, <1>8, <1>9, Quiet, CountersType, SavingInv
        DEF EraseTarget, counters

LEMMA WriteTargetInv == ASSUME SuperBlockInv, WriteTarget PROVE SuperBlockInv'
<1> DEFINE frame == [Top EXCEPT !.pc = IF Moved(Top) THEN "relink" ELSE "done"]
           c == Top.to.block
<1>1. TypeOK /\ calls # <<>> /\ Top \in Call /\ Top.pc = "write"
  BY ActiveCall DEF WriteTarget, SuperBlockInv
<1>2. Top.to \in Address /\ c \in Blocks /\ Top.link \in Links
  BY <1>1, FrameType, Types DEF SuperBlockInv, TopReady
<1>3. /\ frame \in Call /\ frame.addr = Top.addr
      /\ frame.pc = IF Moved(Top) THEN "relink" ELSE "done"
      /\ frame.to = Top.to /\ frame.link = Top.link
  BY <1>1 DEF Call
<1>4. TopGoes(frame) /\ flash' = Programming(c, Top.to.sector, Top.link)
      /\ free' = free
  BY DEF WriteTarget
<1>5. Moved(Top) => IsFresh(Top) /\ Blank(Top.to.block)
  BY <1>1 DEF SuperBlockInv, TopReady, Relies
<1> HIDE DEF frame
<1>6. \A i \in 1 .. Len(calls) - 1 :
          /\ calls[i].to.block # c
          /\ calls[i].to.block \in Pool \ free'
          /\ calls[i].to.block # frame.to.block
  BY <1>1, <1>3, <1>4, Below1
<1>7. /\ \A b \in Blocks : b # c => flash'[b] = flash[b]
      /\ flash'[c] = [flash[c] EXCEPT ![Top.to.sector] = Top.link]
      /\ flash[c] \in [Sectors -> Links \union {Erased}]
  <2> HIDE DEF c
  <2>1. flash \in Medium
    BY Quiet
  <2>2. \A b \in Blocks :
          b # c => Programming(c, Top.to.sector, Top.link)[b] = flash[b]
    BY <1>2, <2>1, StorageEffect
  <2>3. Programming(c, Top.to.sector, Top.link)[c] =
          [flash[c] EXCEPT ![Top.to.sector] = Top.link]
    BY <1>2, <2>1 DEF Programming, Medium
  <2>4. flash[c] \in [Sectors -> Links \union {Erased}]
    BY <1>2, <2>1, StorageEffect
  <2> QED BY <1>4, <2>2, <2>3, <2>4
<1>8. Moved(Top) =>
        flash'[c] = [s \in Sectors |-> IF s = 0 THEN Top.link ELSE Erased]
  <2> SUFFICES ASSUME Moved(Top)
               PROVE  [flash[c] EXCEPT ![0] = Top.link] =
                        [s \in Sectors |-> IF s = 0 THEN Top.link ELSE Erased]
    BY <1>5, <1>7 DEF IsFresh
  <2>1. \A s \in Sectors : flash[c][s] = Erased
    BY <1>5 DEF Blank
  <2> QED BY <2>1, <1>7, Types
<1>9. calls' \in Seq(Call) /\ CallsInv'
  <2>1. Relies(frame) => frame.to.block \in Pool \ free' /\ frame.to.sector = 0
    BY <1>3, <1>4, <1>5 DEF IsFresh, Relies
  <2>2. frame.pc = "relink" =>
          /\ Moved(frame)
          /\ flash'[frame.to.block] =
                [s \in Sectors |-> IF s = 0 THEN frame.link ELSE Erased]
    BY <1>3, <1>8 DEF Moved
  <2>4. Top.pc \notin {"mark", "done"}
    BY <1>1
  <2>3. frame.pc \in {"relink", "done"}
    BY <1>3
  <2>5. \A b \in Blocks : b # c => flash'[b] = flash[b]
    BY <1>7
  <2>6. frame.to \in Address /\ frame.addr = Top.addr /\ frame.link = Top.link
    BY <1>2, <1>3
  <2>7. frame.pc \notin {"enter", "write", "free", "mark"}
    BY <2>3
  <2> HIDE DEF c
  <2>8. frame \in Call /\ calls # <<>> /\ TopGoes(frame)
    BY <1>1, <1>3, <1>4
  <2> QED BY <1>6, <2>1, <2>2, <2>3, <2>4, <2>5, <2>6, <2>7, <2>8, TopSteps
<1>10. flash' \in Medium
  BY <1>2, <1>4, Quiet, MediumType
<1> QED BY <1>1, <1>4, <1>9, <1>10, Quiet, CountersType, SavingInv
        DEF WriteTarget, counters

(* Freeing a block touches the block that was left and no other.            *)
LEMMA FreeingInv ==
    ASSUME SuperBlockInv, calls # <<>>, NEW frame \in Call, TopGoes(frame),
           Top.pc \in {"free", "mark"}, frame.pc \in {"mark", "done"},
           frame.addr = Top.addr, frame.to = Top.to,
           flash' \in Medium,
           \A b \in Blocks : b # Top.addr.block => flash'[b] = flash[b],
           free' \in {free, free \union {Top.addr.block}}, free' \in SUBSET Pool,
           UNCHANGED <<sb, location, mode, creation, outcome>>,
           saves' \in Nat, formats' \in Nat, crashes' \in Nat, faults' \in Nat
    PROVE  SuperBlockInv'
<1>1. Top.to \in Address
  BY DEF SuperBlockInv, TopReady
<1>2. \A i \in 1 .. Len(calls) - 1 :
          /\ calls[i].to.block # Top.addr.block
          /\ calls[i].to.block \in Pool \ free'
          /\ calls[i].to.block # frame.to.block
  BY Below1
<1>3. Moved(frame)
  BY DEF SuperBlockInv, TopReady, Moved
<1>4. calls' \in Seq(Call) /\ CallsInv'
  BY <1>1, <1>2, <1>3, TopSteps DEF Relies
<1> QED BY <1>4, SavingInv

LEMMA FreedHeadType ==
    ASSUME flash \in Medium, NEW b \in Blocks PROVE FreedHead(b) \in Links
<1>1. flash[b][0] \in Links \union {Erased}
  BY Types DEF Medium
<1>2. TimestampInvalid \in Stamps
  BY GeometryAssumption DEF Stamps
<1>3. flash[b][0] # Erased => flash[b][0].timestamp \in Stamps
  BY <1>1, Types
<1> QED BY <1>2, <1>3, LinkType DEF FreedHead, BlockTypes

LEMMA FreeErasesInv == ASSUME SuperBlockInv, FreeErases PROVE SuperBlockInv'
<1> DEFINE frame == [Top EXCEPT !.link = FreedHead(Top.addr.block), !.pc = "mark"]
<1>1. TypeOK /\ calls # <<>> /\ Top \in Call /\ Top.pc = "free"
  BY ActiveCall DEF FreeErases, SuperBlockInv
<1>2. Top.addr.block \in Blocks
  BY <1>1, FrameType, Types
<1>3. FreedHead(Top.addr.block) \in Links
  BY <1>2, Quiet, FreedHeadType
<1>4. /\ frame \in Call /\ frame.addr = Top.addr /\ frame.pc = "mark"
      /\ frame.to = Top.to
  BY <1>1, <1>3 DEF Call
<1>5. TopGoes(frame) /\ flash' = Erasing(Top.addr.block) /\ free' = free
  BY DEF FreeErases
<1> HIDE DEF frame
<1>6. /\ \A b \in Blocks : b # Top.addr.block => flash'[b] = flash[b]
      /\ flash' \in Medium
  BY <1>2, <1>5, Quiet, StorageEffect, MediumType
<1> QED BY <1>1, <1>4, <1>5, <1>6, Quiet, CountersType, FreeingInv
        DEF FreeErases, counters

(* A block that a call has left and frees belongs to the pool. *)
LEMMA FreedBlock ==
    ASSUME SuperBlockInv, calls # <<>>, Top.pc = "mark"
    PROVE  Top.addr.block \in Pool
<1>1. Top.addr.block \in Blocks
  BY TopType, FrameType, Types DEF SuperBlockInv, TypeOK
<1>2. Top.addr.block \notin Anchors
  BY DEF SuperBlockInv, TopReady, Moved
<1> QED BY <1>1, <1>2 DEF Blocks

LEMMA FreeMarksInv == ASSUME SuperBlockInv, FreeMarks PROVE SuperBlockInv'
<1> DEFINE frame == [Top EXCEPT !.pc = "done"]
<1>1. TypeOK /\ calls # <<>> /\ Top \in Call /\ Top.pc = "mark"
  BY ActiveCall DEF FreeMarks, SuperBlockInv
<1>2. Top.addr.block \in Blocks /\ Top.link \in Links
  BY <1>1, FrameType, Types
<1>3. /\ frame \in Call /\ frame.addr = Top.addr /\ frame.pc = "done"
      /\ frame.to = Top.to
  BY <1>1 DEF Call
<1>4. /\ TopGoes(frame) /\ flash' = Programming(Top.addr.block, 0, Top.link)
      /\ free' = free \union {Top.addr.block} /\ free' \in SUBSET Pool
  BY <1>1, Quiet, FreedBlock DEF FreeMarks
<1> HIDE DEF frame
<1>5. /\ \A b \in Blocks : b # Top.addr.block => flash'[b] = flash[b]
      /\ flash' \in Medium
  BY <1>2, <1>4, Quiet, StorageEffect, MediumType
<1> QED BY <1>1, <1>3, <1>4, <1>5, Quiet, CountersType, FreeingInv
        DEF FreeMarks, counters

LEMMA FreeFailsInv == ASSUME SuperBlockInv, FreeFails PROVE SuperBlockInv'
<1> DEFINE frame == [Top EXCEPT !.pc = "done"]
<1>1. TypeOK /\ calls # <<>> /\ Top \in Call /\ Top.pc \in {"free", "mark"}
  BY ActiveCall DEF FreeFails, SuperBlockInv
<1>2. Top.addr.block \in Blocks /\ Top.link \in Links
  BY <1>1, FrameType, Types
<1>3. /\ frame \in Call /\ frame.addr = Top.addr /\ frame.pc = "done"
      /\ frame.to = Top.to
  BY <1>1 DEF Call
<1>4. /\ TopGoes(frame) /\ free' = free
      /\ flash' \in {flash, Erasing(Top.addr.block),
                     Programming(Top.addr.block, 0, Top.link)}
  BY DEF FreeFails
<1> HIDE DEF frame
<1>5. /\ \A b \in Blocks : b # Top.addr.block => flash'[b] = flash[b]
      /\ flash' \in Medium
  BY <1>2, <1>4, Quiet, StorageEffect, MediumType
<1> QED BY <1>1, <1>3, <1>4, <1>5, Quiet, CountersType, FreeingInv
        DEF FreeFails, Fault

-----------------------------------------------------------------------------
(* A rollover() calls another one, and returns to it. *)

(* The blocks filled by active calls hold nothing but their links, so the   *)
(* link to the block that was left is in none of them.                      *)
LEMMA ParentIsElsewhere ==
    ASSUME SuperBlockInv, Running("relink"),
           Found(Walk(flash, Top.addr.block)),
           NEW i \in 1 .. Len(calls)
    PROVE  Walk(flash, Top.addr.block).where.block # calls[i].to.block
<1> DEFINE previous == Walk(flash, Top.addr.block)
           n == Len(calls)
<1>1. /\ calls # <<>> /\ calls \in Seq(Call) /\ Top \in Call /\ Top = calls[n]
      /\ Top.pc = "relink" /\ n \in Nat \ {0} /\ DOMAIN calls = 1 .. n
  BY ActiveCall, TopType
<1>2. /\ previous.link \in Links /\ previous.where \in Address
      /\ previous.link = flash[previous.where.block][previous.where.sector]
      /\ previous.link.chained = Top.addr.block
  BY Quiet, WalkIsSound
<1> HIDE DEF previous, n
<1>3. /\ previous.where.sector \in Sectors
      /\ Top.addr.block \in Blocks
      /\ previous.link # Erased
  BY <1>1, <1>2, FrameType, Types, ErasedAssumption
<1>4. i \in 1 .. n /\ (i = n \/ i \in 1 .. n - 1)
  <2>1. i \in 1 .. n
    BY DEF n
  <2> QED BY <1>1, <2>1
<1>5. OnlyHolds(calls[i].to.block, calls[i].link) /\ calls[i].pc \in {"free", "relink"}
  <2>1. CASE i = n
    BY <1>1, <2>1 DEF SuperBlockInv, TopReady
  <2>2. CASE i \in 1 .. n - 1
    BY <2>2 DEF SuperBlockInv, Waiting, n
  <2> QED BY <1>4, <2>1, <2>2
<1>6. calls[i].link.chained = IF i = 1 THEN NoBlock ELSE calls[i - 1].to.block
  <2>1. calls[i].pc \notin {"mark", "done"} /\ i \in DOMAIN calls
    BY <1>1, <1>4, <1>5
  <2> QED BY <2>1 DEF SuperBlockInv, Chained
<1>7. calls[i].link.chained # Top.addr.block
  <2>1. CASE i = 1
    BY <1>3, <1>6, <2>1, Types
  <2>2. CASE i # 1
    <3>1. i - 1 \in 1 .. n /\ i - 1 < n /\ n \in 1 .. n
      BY <1>1, <1>4, <2>2
    <3>2. calls[n].addr.block # calls[i - 1].to.block
      BY <1>1, <3>1 DEF SuperBlockInv, Apart
    <3> QED BY <1>1, <1>6, <2>2, <3>2
  <2> QED BY <2>1, <2>2
<1>8. SUFFICES ASSUME previous.where.block = calls[i].to.block PROVE FALSE
  BY DEF previous
<1>9. previous.link = IF previous.where.sector = 0 THEN calls[i].link ELSE Erased
  BY <1>2, <1>3, <1>5, <1>8 DEF OnlyHolds
<1> QED BY <1>2, <1>3, <1>7, <1>9

LEMMA RelinkInv == ASSUME SuperBlockInv, Relink PROVE SuperBlockInv'
<1> DEFINE previous == Walk(flash, Top.addr.block)
           link == [previous.link EXCEPT !.timestamp = NextStamp(@),
                                         !.chained   = Top.to.block]
           nested == Entering(previous.where, link)
           frame == [Top EXCEPT !.pc = "free"]
           below == [calls EXCEPT ![Len(calls)].pc = "free"]
           n == Len(calls)
<1>1. /\ TypeOK /\ calls # <<>> /\ calls \in Seq(Call)
      /\ Top \in Call /\ Top = calls[n] /\ Top.pc = "relink"
      /\ n \in Nat \ {0} /\ DOMAIN calls = 1 .. n
  BY ActiveCall, TopType DEF Relink, SuperBlockInv
<1>2. /\ previous.link \in Links /\ previous.where \in Address
      /\ previous.link.chained = Top.addr.block
  BY Quiet, WalkIsSound DEF Relink
<1>3. /\ Moved(Top) /\ IsFresh(Top) /\ OnlyHolds(Top.to.block, Top.link)
  BY <1>1 DEF SuperBlockInv, TopReady, Relies
<1>4. \A i \in 1 .. n : previous.where.block # calls[i].to.block
  BY ParentIsElsewhere DEF Relink
<1>5. calls' = Append(below, nested) /\ flash' = flash /\ free' = free
  BY DEF Relink
<1> HIDE DEF previous
<1>6. Top.to.block \in Blocks
  BY <1>3, Types DEF IsFresh
<1>7. link \in Links /\ link.chained = Top.to.block
  BY <1>2, <1>6, Types DEF Links
<1> HIDE DEF link
<1>8. /\ nested \in Call /\ nested.pc = "enter" /\ nested.link = link
      /\ nested.addr = previous.where
  BY <1>2, <1>7, EnteringType DEF Entering
<1> HIDE DEF nested
<1>9. /\ frame \in Call /\ frame.addr = Top.addr /\ frame.pc = "free"
      /\ frame.to = Top.to /\ frame.link = Top.link
  BY <1>1 DEF Call
<1>10. /\ below \in Seq(Call) /\ Len(below) = n
       /\ \A i \in 1 .. n : below[i] = IF i = n THEN frame ELSE calls[i]
  <2>1. n \in 1 .. n
    BY <1>1
  <2>2. below = [calls EXCEPT ![n] = frame]
    BY <1>1
  <2> HIDE DEF below, frame, n
  <2> QED BY <1>1, <1>9, <2>1, <2>2, ExceptSeq DEF n
<1> HIDE DEF below, frame
<1>11. /\ calls' \in Seq(Call) /\ calls' # <<>> /\ Len(calls') = n + 1
       /\ DOMAIN calls' = 1 .. n + 1
       /\ calls'[n + 1] = nested /\ Top' = nested
       /\ \A i \in 1 .. n : calls'[i] = IF i = n THEN frame ELSE calls[i]
  <2>1. /\ calls' \in Seq(Call) /\ calls' # <<>> /\ Len(calls') = n + 1
        /\ \A i \in 1 .. n : calls'[i] = below[i]
        /\ calls'[n + 1] = nested
    BY <1>5, <1>8, <1>10, AppendProperties
  <2>2. DOMAIN calls' = 1 .. n + 1
    BY <2>1, LenProperties
  <2>3. Top' = nested
    BY <2>1 DEF Top
  <2> QED BY <1>10, <2>1, <2>2, <2>3
<1> HIDE DEF n
<1>12. \A i \in 1 .. n : i = n \/ i \in 1 .. n - 1
  BY <1>1
<1>13. Waiting'
  <2> SUFFICES ASSUME NEW i \in 1 .. n
               PROVE  /\ calls'[i].pc = "free"
                      /\ Moved(calls[i])'
                      /\ IsFresh(calls[i])'
                      /\ OnlyHolds(calls[i].to.block, calls[i].link)'
    BY <1>1, <1>11 DEF Waiting
  <2>1. /\ calls[i].to = calls'[i].to /\ calls[i].link = calls'[i].link
        /\ calls[i].addr = calls'[i].addr
    BY <1>1, <1>9, <1>11
  <2>2. calls'[i].pc = "free" /\ Moved(calls[i]) /\ IsFresh(calls[i])
        /\ OnlyHolds(calls[i].to.block, calls[i].link)
    BY <1>1, <1>3, <1>9, <1>11, <1>12 DEF SuperBlockInv, Waiting, n
  <2> QED BY <1>5, <2>1, <2>2 DEF IsFresh, OnlyHolds, Moved
<1>14. TopReady'
  BY <1>8, <1>11 DEF TopReady, Relies
<1>15. Apart'
  <2> SUFFICES ASSUME NEW i \in 1 .. n + 1, NEW j \in 1 .. n + 1, i < j
               PROVE  /\ calls'[j].addr.block # calls'[i].to.block
                      /\ calls'[j].pc # "enter" =>
                            calls'[j].to.block # calls'[i].to.block
    BY <1>11 DEF Apart
  <2>1. i \in 1 .. n
    BY <1>1
  <2>2. calls'[i].to = calls[i].to
    BY <1>1, <1>9, <1>11, <2>1
  <2>3. CASE j = n + 1
    BY <1>4, <1>8, <1>11, <2>1, <2>2, <2>3
  <2>4. CASE j # n + 1
    <3>1. j \in 1 .. n
      BY <1>1, <2>4
    <3>2. calls'[j].to = calls[j].to /\ calls'[j].addr = calls[j].addr
      BY <1>1, <1>9, <1>11, <3>1
    <3>3. calls[j].pc # "enter"
      BY <1>1, <1>12, <3>1 DEF SuperBlockInv, Waiting, n
    <3>4. /\ calls[j].addr.block # calls[i].to.block
          /\ calls[j].to.block # calls[i].to.block
      BY <1>1, <2>1, <3>1, <3>3 DEF SuperBlockInv, Apart
    <3> QED BY <2>2, <3>2, <3>4
  <2> QED BY <2>3, <2>4
<1>16. Chained'
  <2> SUFFICES ASSUME NEW i \in 1 .. n + 1
               PROVE  calls'[i].link.chained =
                        IF i = 1 THEN NoBlock ELSE calls'[i - 1].to.block
    BY <1>11 DEF Chained
  <2>1. CASE i = n + 1
    <3>1. i # 1 /\ i - 1 = n /\ n \in 1 .. n
      BY <1>1, <2>1
    <3>2. calls'[n].to = Top.to
      BY <1>9, <1>11, <3>1
    <3> QED BY <1>7, <1>8, <1>11, <2>1, <3>1, <3>2
  <2>2. CASE i # n + 1
    <3>1. i \in 1 .. n /\ (i = 1 \/ i - 1 \in 1 .. n)
      BY <1>1, <2>2
    <3>2. /\ calls'[i].link = calls[i].link
          /\ i = 1 \/ calls'[i - 1].to = calls[i - 1].to
      BY <1>1, <1>9, <1>11, <3>1
    <3>3. calls[i].pc \notin {"mark", "done"}
      BY <1>1, <1>12, <3>1 DEF SuperBlockInv, Waiting, n
    <3>4. calls[i].link.chained = IF i = 1 THEN NoBlock ELSE calls[i - 1].to.block
      BY <1>1, <3>1, <3>3 DEF SuperBlockInv, Chained
    <3> QED BY <3>2, <3>4
  <2> QED BY <2>1, <2>2
<1>17. calls' \in Seq(Call) /\ CallsInv'
  BY <1>11, <1>13, <1>14, <1>15, <1>16 DEF CallsInv
<1>18. flash' \in Medium /\ free' \in SUBSET Pool
  BY <1>5, Quiet
<1> QED BY <1>1, <1>17, <1>18, CountersType, SavingInv DEF Relink, counters

LEMMA RolloverReturnsInv ==
    ASSUME SuperBlockInv, RolloverReturns PROVE SuperBlockInv'
<1> DEFINE n == Len(calls)
<1>1. /\ TypeOK /\ calls # <<>> /\ calls \in Seq(Call)
      /\ n \in Nat \ {0} /\ DOMAIN calls = 1 .. n
      /\ \A i \in 1 .. n : calls[i] \in Call
  BY ActiveCall, TopType DEF RolloverReturns, SuperBlockInv
<1>2. n > 1 /\ calls' = SubSeq(calls, 1, n - 1) /\ flash' = flash /\ free' = free
  BY DEF RolloverReturns
<1> HIDE DEF n
<1>3. n - 1 \in 1 .. n /\ 1 .. n - 1 \subseteq 1 .. n /\ 1 <= n - 1
  BY <1>1, <1>2
<1>4. /\ calls' \in Seq(Call) /\ Len(calls') = n - 1
      /\ \A i \in 1 .. n - 1 : calls'[i] = calls[i]
  <2>1. \A i \in 1 .. n - 1 : calls[i] \in Call
    BY <1>1, <1>3
  <2>2. /\ SubSeq(calls, 1, n - 1) \in Seq(Call)
        /\ Len(SubSeq(calls, 1, n - 1)) = n - 1
    BY <1>1, <1>3, <2>1, SubSeqProperties
  <2>3. \A i \in 1 .. n - 1 : SubSeq(calls, 1, n - 1)[i] = calls[i]
    BY <1>1, <1>3, <2>1, SubSeqProperties
  <2> QED BY <1>2, <2>2, <2>3
<1>5. /\ DOMAIN calls' = 1 .. n - 1 /\ calls' # <<>>
      /\ Top' = calls[n - 1] /\ n - 1 \in 1 .. n - 1
  BY <1>1, <1>3, <1>4, LenProperties DEF Top
<1>6. /\ calls[n - 1].pc = "free" /\ Moved(calls[n - 1])
      /\ IsFresh(calls[n - 1]) /\ calls[n - 1] \in Call
  BY <1>1, <1>3, <1>5 DEF SuperBlockInv, Waiting, n
<1>7. calls[n - 1].to \in Address
  BY <1>6, FrameType, Types DEF IsFresh, NoAddress
<1>8. Waiting'
  <2> SUFFICES ASSUME NEW i \in 1 .. n - 2
               PROVE  /\ calls'[i].pc = "free"
                      /\ Moved(calls[i])'
                      /\ IsFresh(calls[i])'
                      /\ OnlyHolds(calls[i].to.block, calls[i].link)'
    BY <1>1, <1>4 DEF Waiting
  <2>1. i \in 1 .. n - 1
    BY <1>1
  <2>2. calls'[i] = calls[i]
    BY <1>4, <2>1
  <2> QED BY <1>2, <2>1, <2>2
          DEF SuperBlockInv, Waiting, IsFresh, OnlyHolds, Moved, n
<1>9. TopReady'
  BY <1>5, <1>6, <1>7 DEF TopReady, Relies, Moved
<1>10. Apart'
  BY <1>1, <1>3, <1>4, <1>5 DEF SuperBlockInv, Apart
<1>11. Chained'
  <2> SUFFICES ASSUME NEW i \in 1 .. n - 1, calls'[i].pc \notin {"mark", "done"}
               PROVE  calls'[i].link.chained =
                        IF i = 1 THEN NoBlock ELSE calls'[i - 1].to.block
    BY <1>5 DEF Chained
  <2>1. i \in 1 .. n /\ (i = 1 \/ i - 1 \in 1 .. n - 1)
    BY <1>1
  <2>2. calls'[i] = calls[i] /\ (i = 1 \/ calls'[i - 1] = calls[i - 1])
    BY <1>4, <2>1
  <2> QED BY <1>1, <2>1, <2>2 DEF SuperBlockInv, Chained
<1>12. calls' \in Seq(Call) /\ CallsInv'
  BY <1>4, <1>8, <1>9, <1>10, <1>11 DEF CallsInv
<1>13. flash' \in Medium /\ free' \in SUBSET Pool
  BY <1>2, Quiet
<1> QED BY <1>1, <1>12, <1>13, CountersType, SavingInv DEF RolloverReturns, counters

-----------------------------------------------------------------------------
(* The theorems. *)

LEMMA StutterInv == ASSUME SuperBlockInv, UNCHANGED vars PROVE SuperBlockInv'
<1>1. UNCHANGED <<flash, free, sb, location, mode, calls, creation, outcome,
                  saves, formats, crashes, faults>>
  BY DEF vars, counters
<1>2. TypeOK'
  BY <1>1 DEF SuperBlockInv, TypeOK
<1>3. Control'
  BY <1>1 DEF SuperBlockInv, Control
<1>4. Waiting'
  BY <1>1 DEF SuperBlockInv, Waiting, IsFresh, Moved, OnlyHolds
<1>6. Apart' /\ Chained'
  BY <1>1 DEF SuperBlockInv, Apart, Chained
<1>5. TopReady'
  BY <1>1 DEF SuperBlockInv, TopReady, Top, IsFresh, Moved, OnlyHolds, Relies, Blank
<1> QED BY <1>2, <1>3, <1>4, <1>5, <1>6 DEF SuperBlockInv

LEMMA NextInv == SuperBlockInv /\ [Next]_vars => SuperBlockInv'
<1> SUFFICES ASSUME SuperBlockInv, [Next]_vars PROVE SuperBlockInv'
  OBVIOUS
<1>1. CASE Mount          BY <1>1, MountInv
<1>2. CASE Save           BY <1>2, SaveInv
<1>3. CASE Create         BY <1>3, CreateInv
<1>4. CASE Step
  <2>1. CASE NextSector       BY <2>1, NextSectorInv
  <2>2. CASE SwapAnchor       BY <2>2, SwapAnchorInv
  <2>3. CASE \E b \in Pool, erased \in BOOLEAN : AllocateNext(b, erased)
    BY <2>3, AllocateNextInv
  <2>4. CASE OutOfBlocks      BY <2>4, OutOfBlocksInv
  <2>5. CASE EraseTarget      BY <2>5, EraseTargetInv
  <2>6. CASE WriteTarget      BY <2>6, WriteTargetInv
  <2>7. CASE Relink           BY <2>7, RelinkInv
  <2>8. CASE LinkLost         BY <2>8, LinkLostInv
  <2>9. CASE FreeErases       BY <2>9, FreeErasesInv
  <2>10. CASE FreeMarks       BY <2>10, FreeMarksInv
  <2>11. CASE RolloverReturns BY <2>11, RolloverReturnsInv
  <2>12. CASE SaveReturns     BY <2>12, SaveReturnsInv
  <2>13. CASE \E b \in Pool : CreateAllocates(b)
    BY <2>13, CreateAllocatesInv
  <2>14. CASE CreateErases    BY <2>14, CreateErasesInv
  <2>15. CASE CreateWrites    BY <2>15, CreateWritesInv
  <2>16. CASE CreateLocates   BY <2>16, CreateLocatesInv
  <2> QED BY <1>4, <2>1, <2>2, <2>3, <2>4, <2>5, <2>6, <2>7, <2>8, <2>9, <2>10,
             <2>11, <2>12, <2>13, <2>14, <2>15, <2>16 DEF Step
<1>5. CASE Crash          BY <1>5, CrashInv
<1>6. CASE CrashInErase   BY <1>6, CrashInEraseInv
<1>7. CASE EraseFails     BY <1>7, EraseFailsInv
<1>8. CASE WriteFails     BY <1>8, WriteFailsInv
<1>9. CASE FreeFails      BY <1>9, FreeFailsInv
<1>10. CASE CreateFails   BY <1>10, CreateFailsInv
<1>11. CASE UNCHANGED vars BY <1>11, StutterInv
<1> QED BY <1>1, <1>2, <1>3, <1>4, <1>5, <1>6, <1>7, <1>8, <1>9, <1>10, <1>11
        DEF Next

(* The types, the stack discipline of rollover() and the content of every   *)
(* block it has filled but not yet linked hold in every reachable state.    *)
THEOREM SuperBlockIsInvariant == Spec => []SuperBlockInv
  BY InitInv, NextInv, PTL DEF Spec

(* Write ahead: save() never moves a link to a block before the block holds *)
(* what the link is to lead to, and keeps the block untouched until then,   *)
(* at every depth of the recursion, for every size of the medium and        *)
(* however often the storage fails or power is lost.                        *)
THEOREM LinksAreWrittenAhead == Spec => []WriteAhead
<1>1. SuperBlockInv => WriteAhead
  <2> SUFFICES ASSUME SuperBlockInv, NEW i \in 1 .. Len(calls) - 1
               PROVE  /\ OnlyHolds(calls[i].to.block, calls[i].link)
                      /\ calls[i + 1].pc \notin {"mark", "done"} =>
                            calls[i + 1].link.chained = calls[i].to.block
    BY DEF WriteAhead
  <2>1. calls \in Seq(Call)
    BY DEF SuperBlockInv, TypeOK
  <2>2. DOMAIN calls = 1 .. Len(calls) /\ Len(calls) \in Nat
    BY <2>1, LenProperties
  <2>3. i + 1 \in DOMAIN calls /\ i + 1 # 1 /\ (i + 1) - 1 = i
    BY <2>2
  <2> QED BY <2>3 DEF SuperBlockInv, Waiting, Chained
<1> QED BY <1>1, SuperBlockIsInvariant, PTL

-----------------------------------------------------------------------------
(* What find_link() and walk() read of a chain. *)

LEMMA GreatestIsNewest ==
    ASSUME NEW fl, NEW b, NEW cands \in SUBSET Nat, NEW q \in cands,
           \A x \in cands : fl[b][x].timestamp \in Nat,
           \A x \in cands : x # q => fl[b][x].timestamp < fl[b][q].timestamp
    PROVE  Newest(fl, b, cands) = q
<1>1. IsNewest(fl, b, cands, q)
  BY DEF IsNewest
<1>2. ASSUME NEW s, IsNewest(fl, b, cands, s) PROVE s = q
  BY <1>2 DEF IsNewest
<1> QED BY <1>1, <1>2 DEF Newest

LEMMA SectorType ==
    ASSUME NEW fl \in Medium, NEW b \in Blocks, NEW s \in Sectors
    PROVE  /\ s \in Nat /\ 0 \in 0 .. s /\ s \in 0 .. s /\ s < SectorsPerBlock
           /\ 0 .. s \subseteq Sectors
           /\ Programmed(fl, b, s) => /\ fl[b][s] \in Links
                                      /\ fl[b][s].timestamp \in Stamps
<1>1. fl[b] \in [Sectors -> Links \union {Erased}]
  BY DEF Medium
<1>2. fl[b][s] \in Links \union {Erased}
  BY <1>1
<1> QED BY <1>2, GeometryAssumption, Types DEF Sectors, Programmed

LEMMA AddressType ==
    ASSUME NEW a \in Address
    PROVE  /\ a.block \in Blocks /\ a.sector \in Sectors /\ a.sector \in Nat
           /\ At(a.block, a.sector) = a
           /\ a # NoAddress
           /\ \A b : b = a <=> b \in Address /\ b.block = a.block /\ b.sector = a.sector
  BY Types DEF Address, At, Sectors

(* Without a stamp that says invalid, find_link() goes by the stamps alone. *)
LEMMA NoRestarts ==
    ASSUME NEW fl, NEW b, NEW t,
           \A s \in Sectors :
               Programmed(fl, b, s) => fl[b][s].timestamp # TimestampInvalid
    PROVE  /\ Restarts(fl, b, SectorsPerBlock) = {}
           /\ Eligible(fl, b, SectorsPerBlock, t) =
                  {s \in Readable(fl, b, SectorsPerBlock) :
                      t = TimestampInvalid \/ fl[b][s].timestamp > t}
<1>1. \A s \in Readable(fl, b, SectorsPerBlock) : s \in Sectors /\ Programmed(fl, b, s)
  BY GeometryAssumption DEF Readable, Sectors
<1> QED BY <1>1 DEF Restarts, Eligible

(* The tip of a block is what find_link() selects there. *)
LEMMA ReadsTip ==
    ASSUME NEW fl \in Medium, NEW a \in Address, IsTip(fl, a),
           StampAt(fl, a) < TimestampInvalid, NEW found,
           \/ found.link.timestamp = TimestampInvalid
           \/ found.link.timestamp \in Stamps /\ found.link.timestamp < StampAt(fl, a)
    PROVE  FindLink(fl, a.block, found) = [link |-> LinkAt(fl, a), where |-> a]
<1> DEFINE t == found.link.timestamp
           cands == Eligible(fl, a.block, SectorsPerBlock, t)
<1>1. a.block \in Blocks /\ a.sector \in Sectors /\ a.sector \in Nat
      /\ At(a.block, a.sector) = a
  BY AddressType
<1>2. Programmed(fl, a.block, a.sector)
  BY <1>1 DEF IsTip
<1>3. \A s \in Sectors : Programmed(fl, a.block, s) =>
          /\ s \in Nat /\ fl[a.block][s].timestamp \in Nat
          /\ s = a.sector \/ fl[a.block][s].timestamp < StampAt(fl, a)
  <2> SUFFICES ASSUME NEW s \in Sectors, Programmed(fl, a.block, s)
               PROVE  /\ s \in Nat /\ fl[a.block][s].timestamp \in Nat
                      /\ s = a.sector \/ fl[a.block][s].timestamp < StampAt(fl, a)
    OBVIOUS
  <2>1. s \in Nat /\ fl[a.block][s].timestamp \in Nat
    BY <1>1, SectorType, GeometryAssumption DEF Stamps
  <2>2. s <= a.sector
    BY DEF IsTip
  <2> QED BY <1>1, <2>1, <2>2 DEF IsTip
<1>4. \A s \in Sectors : Programmed(fl, a.block, s) =>
          fl[a.block][s].timestamp # TimestampInvalid
  BY <1>1, <1>2, <1>3, GeometryAssumption DEF StampAt, LinkAt
<1>5. cands = {s \in Readable(fl, a.block, SectorsPerBlock) :
                  t = TimestampInvalid \/ fl[a.block][s].timestamp > t}
  BY <1>4, NoRestarts
<1>6. a.sector \in Readable(fl, a.block, SectorsPerBlock)
  <2>1. ASSUME NEW s \in 0 .. a.sector PROVE Programmed(fl, a.block, s)
    <3>1. s \in Sectors /\ s <= a.sector
      BY <1>1, SectorType
    <3> QED BY <3>1 DEF IsTip
  <2> QED BY <1>1, <2>1, SectorType DEF Readable
<1>7. a.sector \in cands
  BY <1>1, <1>2, <1>3, <1>5, <1>6 DEF StampAt, LinkAt, Stamps
<1>8. \A s \in cands : s \in Sectors /\ Programmed(fl, a.block, s)
  BY <1>1, <1>5, SectorType DEF Readable
<1> HIDE DEF cands
<1>9. Newest(fl, a.block, cands) = a.sector
  <2>1. cands \in SUBSET Nat
    BY <1>3, <1>8
  <2>2. /\ \A x \in cands : fl[a.block][x].timestamp \in Nat
        /\ \A x \in cands : x # a.sector =>
              fl[a.block][x].timestamp < fl[a.block][a.sector].timestamp
    BY <1>3, <1>8 DEF StampAt, LinkAt
  <2> QED BY <1>7, <2>1, <2>2, GreatestIsNewest
<1> QED BY <1>1, <1>7, <1>9 DEF FindLink, FindLinkIn, InSector, LinkAt, cands

(* A block with smaller stamps only does not change what was found. *)
LEMMA ReadsOlder ==
    ASSUME NEW fl \in Medium, NEW b \in Blocks, NEW found,
           found.link.timestamp \in Stamps,
           found.link.timestamp # TimestampInvalid,
           \A s \in Sectors : Programmed(fl, b, s) =>
               fl[b][s].timestamp < found.link.timestamp
    PROVE  FindLink(fl, b, found) = found
<1> DEFINE cands == Eligible(fl, b, SectorsPerBlock, found.link.timestamp)
<1>1. \A s \in Sectors : Programmed(fl, b, s) =>
          /\ fl[b][s].timestamp # TimestampInvalid
          /\ ~(fl[b][s].timestamp > found.link.timestamp)
  BY SectorType, GeometryAssumption DEF Stamps
<1>2. cands = {s \in Readable(fl, b, SectorsPerBlock) :
                  \/ found.link.timestamp = TimestampInvalid
                  \/ fl[b][s].timestamp > found.link.timestamp}
  BY <1>1, NoRestarts
<1>3. cands = {}
  BY <1>1, <1>2, SectorType DEF Readable
<1> QED BY <1>3 DEF FindLink, FindLinkIn

(* What is found in a block that was not looked for before is in the block. *)
LEMMA ReadsSmaller ==
    ASSUME NEW fl \in Medium, NEW b \in Blocks, NEW limit \in Stamps,
           \A s \in Sectors : Programmed(fl, b, s) => fl[b][s].timestamp < limit
    PROVE  LET found == FindLink(fl, b, Start)
           IN  \/ found = Start
               \/ found.link.timestamp \in Stamps /\ found.link.timestamp < limit
<1> DEFINE cands == Eligible(fl, b, SectorsPerBlock, Start.link.timestamp)
<1>1. \A s \in Sectors : Programmed(fl, b, s) =>
          fl[b][s].timestamp # TimestampInvalid
  BY SectorType, GeometryAssumption DEF Stamps
<1>2. cands \subseteq Readable(fl, b, SectorsPerBlock)
  BY <1>1, NoRestarts
<1>3. \A s \in cands : /\ s \in Sectors /\ s \in Nat /\ Programmed(fl, b, s)
                       /\ fl[b][s].timestamp \in 0 .. TimestampInvalid
  BY <1>2, SectorType DEF Readable, Stamps
<1> HIDE DEF cands
<1>4. cands # {} => Newest(fl, b, cands) \in cands
  BY <1>3, NewestExists
<1>5. cands # {} => fl[b][Newest(fl, b, cands)].timestamp < limit
  BY <1>3, <1>4
<1> QED BY <1>3, <1>4, <1>5 DEF FindLink, FindLinkIn, InSector, cands, Stamps

LEMMA ChainFacts ==
    ASSUME NEW fl \in Medium, NEW at, IsChain(fl, at)
    PROVE  /\ \A k \in Levels :
                 /\ at[k] \in Address
                 /\ at[k].block \in Blocks /\ at[k].sector \in Sectors
                 /\ Programmed(fl, at[k].block, at[k].sector)
                 /\ LinkAt(fl, at[k]) \in Links
                 /\ StampAt(fl, at[k]) \in Stamps /\ StampAt(fl, at[k]) \in Nat
                 /\ StampAt(fl, at[k]) < TimestampInvalid
           /\ StampAt(fl, at[0]) < StampAt(fl, at[1])
           /\ StampAt(fl, at[1]) < StampAt(fl, at[2])
           /\ StampAt(fl, at[2]) < StampAt(fl, at[3])
<1>1. \A k \in Levels : at[k] \in Address /\ IsTip(fl, at[k])
  BY DEF IsChain
<1>2. \A k \in Levels :
          /\ at[k].block \in Blocks /\ at[k].sector \in Sectors
          /\ Programmed(fl, at[k].block, at[k].sector)
  BY <1>1, AddressType DEF IsTip
<1>3. \A k \in Levels :
          /\ LinkAt(fl, at[k]) \in Links
          /\ StampAt(fl, at[k]) \in Stamps /\ StampAt(fl, at[k]) \in Nat
  BY <1>2, SectorType, GeometryAssumption DEF LinkAt, StampAt, Stamps
<1>4. /\ StampAt(fl, at[1 - 1]) < StampAt(fl, at[1])
      /\ StampAt(fl, at[2 - 1]) < StampAt(fl, at[2])
      /\ StampAt(fl, at[3 - 1]) < StampAt(fl, at[3])
      /\ StampAt(fl, at[3]) < TimestampInvalid
  BY DEF IsChain
<1>5. /\ StampAt(fl, at[0]) < StampAt(fl, at[1])
      /\ StampAt(fl, at[1]) < StampAt(fl, at[2])
      /\ StampAt(fl, at[2]) < StampAt(fl, at[3])
  BY <1>4
<1>6. \A k \in Levels : k = 0 \/ k = 1 \/ k = 2 \/ k = 3
  BY DEF Levels
<1>7. \A k \in Levels : StampAt(fl, at[k]) < TimestampInvalid
  <2>1. /\ 0 \in Levels /\ 1 \in Levels /\ 2 \in Levels /\ 3 \in Levels
        /\ TimestampInvalid \in Nat
    BY GeometryAssumption DEF Levels
  <2>2. StampAt(fl, at[2]) < TimestampInvalid
    BY <1>3, <1>4, <1>5, <2>1
  <2>3. StampAt(fl, at[1]) < TimestampInvalid
    BY <1>3, <1>5, <2>1, <2>2
  <2>4. StampAt(fl, at[0]) < TimestampInvalid
    BY <1>3, <1>5, <2>1, <2>3
  <2> QED BY <1>4, <1>6, <2>2, <2>3, <2>4
<1> QED BY <1>1, <1>2, <1>3, <1>5, <1>7

LEMMA AnchorFacts ==
    ASSUME NEW b \in Anchors
    PROVE  /\ b \in Blocks /\ b \notin Pool
           /\ OtherAnchor(b) \in Anchors /\ OtherAnchor(b) \in Blocks
           /\ OtherAnchor(b) \notin Pool
           /\ OtherAnchor(b) # b /\ OtherAnchor(OtherAnchor(b)) = b
           /\ {b, OtherAnchor(b)} = Anchors
  BY BlocksAssumption DEF Anchors, OtherAnchor, Blocks

Reading(fl, a) == [link |-> LinkAt(fl, a), where |-> a]

LEMMA AnchorsAreRead ==
    ASSUME NEW fl \in Medium, NEW at, IsChain(fl, at)
    PROVE  AnchorLink(fl) = Reading(fl, at[0])
<1> DEFINE one == FindLink(fl, Anchor1, Start)
           two == FindLink(fl, Anchor2, one)
           stamp == StampAt(fl, at[0])
<1>1. AnchorLink(fl) = two
  <2>1. {FindLink(fl, Anchor2, l) : l \in {one}} = {two}
    OBVIOUS
  <2> QED BY <2>1 DEF AnchorLink
<1>2. /\ at[0] \in Address /\ IsTip(fl, at[0]) /\ at[0].block \in Anchors
      /\ stamp \in Stamps /\ stamp < TimestampInvalid
      /\ \A s \in Sectors :
             Programmed(fl, OtherAnchor(at[0].block), s) =>
               fl[OtherAnchor(at[0].block)][s].timestamp < stamp
  <2>1. 0 \in Levels
    BY DEF Levels
  <2> QED BY <2>1, ChainFacts DEF IsChain
<1>3. Start.link.timestamp = TimestampInvalid
  BY DEF Start, Link
<1> HIDE DEF stamp
<1>4. CASE at[0].block = Anchor1
  <2>1. one = Reading(fl, at[0])
    BY <1>2, <1>3, <1>4, ReadsTip DEF Reading, stamp
  <2>2. one.link.timestamp = stamp /\ OtherAnchor(at[0].block) = Anchor2
    BY <1>4, <2>1 DEF Reading, stamp, StampAt, OtherAnchor
  <2> HIDE DEF one
  <2>3. two = one
    BY <1>2, <2>2, Types, ReadsOlder, GeometryAssumption DEF Stamps
  <2> QED BY <1>1, <2>1, <2>3
<1>5. CASE at[0].block = Anchor2
  <2>1. OtherAnchor(at[0].block) = Anchor1
    BY <1>5, BlocksAssumption DEF OtherAnchor
  <2>2. \/ one = Start
        \/ one.link.timestamp \in Stamps /\ one.link.timestamp < stamp
    BY <1>2, <2>1, Types, ReadsSmaller
  <2> HIDE DEF one
  <2>3. two = Reading(fl, at[0])
    BY <1>2, <1>3, <1>5, <2>2, ReadsTip DEF Reading, stamp
  <2> QED BY <1>1, <2>3
<1> QED BY <1>2, <1>4, <1>5 DEF Anchors

LEMMA LinksAreRead ==
    ASSUME NEW fl \in Medium, NEW at, IsChain(fl, at)
    PROVE  /\ Below(fl, Reading(fl, at[0])) = Reading(fl, at[1])
           /\ Below(fl, Reading(fl, at[1])) = Reading(fl, at[2])
           /\ Below(fl, Reading(fl, at[2])) = Reading(fl, at[3])
           /\ Below(fl, Reading(fl, at[3])) = Reading(fl, at[3])
<1>1. \A l : Below(fl, l) = FindLink(fl, l.link.chained, l)
  <2> SUFFICES ASSUME NEW l PROVE Below(fl, l) = FindLink(fl, l.link.chained, l)
    OBVIOUS
  <2>1. {FindLink(fl, m.link.chained, m) : m \in {l}} = {FindLink(fl, l.link.chained, l)}
    OBVIOUS
  <2> QED BY <2>1 DEF Below
<1>2. ASSUME NEW k \in 1 .. 3
      PROVE  Below(fl, Reading(fl, at[k - 1])) = Reading(fl, at[k])
  <2>1. k \in Levels /\ k - 1 \in Levels
    BY DEF Levels
  <2>2. /\ LinkAt(fl, at[k - 1]).chained = at[k].block
        /\ StampAt(fl, at[k - 1]) < StampAt(fl, at[k])
        /\ IsTip(fl, at[k])
    BY <2>1 DEF IsChain
  <2>3. /\ at[k] \in Address /\ StampAt(fl, at[k]) < TimestampInvalid
        /\ StampAt(fl, at[k - 1]) \in Stamps
    BY <2>1, ChainFacts
  <2>4. /\ Reading(fl, at[k - 1]).link.chained = at[k].block
        /\ Reading(fl, at[k - 1]).link.timestamp = StampAt(fl, at[k - 1])
    BY <2>2 DEF Reading, StampAt
  <2>5. FindLink(fl, at[k].block, Reading(fl, at[k - 1])) = Reading(fl, at[k])
    BY <2>2, <2>3, <2>4, ReadsTip DEF Reading
  <2> QED BY <1>1, <2>4, <2>5
<1>3. Below(fl, Reading(fl, at[3])) = Reading(fl, at[3])
  <2>1. Reading(fl, at[3]).link.chained = NoBlock
    BY DEF IsChain, Reading
  <2> QED BY <1>1, <2>1, Types DEF FindLink
<1> QED BY <1>2, <1>3

(* A walk finds each link by the block that it names, and nothing else. *)
LEMMA ChainIsWalked ==
    ASSUME NEW fl \in Medium, NEW at, IsChain(fl, at)
    PROVE  /\ \A k \in 1 .. 3 :
                 Walk(fl, at[k].block) = Reading(fl, at[k - 1])
           /\ Super(fl) = Reading(fl, at[3])
           /\ Tips(fl) = at
           /\ Chain(fl) = {at[1].block, at[2].block, at[3].block}
           /\ \A b \in Pool :
                 (\A k \in 1 .. 3 : b # at[k].block) => ~Found(Walk(fl, b))
<1> DEFINE r(k) == Reading(fl, at[k])
           path == <<r(1), r(2), r(3)>>
           hits(b) == {i \in DOMAIN path : path[i].link.chained = b}
           walk(b) == Walk(fl, b)
<1>1. /\ AnchorLink(fl) = r(0) /\ Below(fl, r(0)) = r(1)
      /\ Below(fl, r(1)) = r(2) /\ Below(fl, r(2)) = r(3)
  BY AnchorsAreRead, LinksAreRead, Zenon
<1>2. /\ r(0).link.chained = at[1].block /\ r(1).link.chained = at[2].block
      /\ r(2).link.chained = at[3].block /\ r(3).link.chained = NoBlock
  <2>1. \A k \in 1 .. 3 : LinkAt(fl, at[k - 1]).chained = at[k].block
    BY DEF IsChain
  <2>2. /\ LinkAt(fl, at[1 - 1]).chained = at[1].block
        /\ LinkAt(fl, at[2 - 1]).chained = at[2].block
        /\ LinkAt(fl, at[3 - 1]).chained = at[3].block
    BY <2>1
  <2> QED BY <2>2 DEF IsChain, Reading
<1>3. /\ at[1].block \in Pool /\ at[2].block \in Pool /\ at[3].block \in Pool
      /\ at[1].block # at[2].block /\ at[1].block # at[3].block
      /\ at[2].block # at[3].block
      /\ NoBlock \notin Pool
  BY Types DEF IsChain
<1>4. r(0).where # NoAddress /\ Start.where = NoAddress
      /\ \A k \in Levels : r(k).where = at[k] /\ at[k] # NoAddress
  BY ChainFacts, Types DEF Reading, Start, Levels
<1> HIDE DEF r
<1>5. ASSUME NEW b
      PROVE  walk(b) =
               CASE b # NoBlock /\ r(0).link.chained = b -> r(0)
                 [] ~(b # NoBlock /\ r(0).link.chained = b) /\ hits(b) = {} -> Start
                 [] OTHER -> path[CHOOSE i \in hits(b) : \A j \in hits(b) : i <= j]
  BY <1>1, <1>4 DEF Walk
<1> HIDE DEF walk
<1>6. \A i : i \in DOMAIN path <=> i = 1 \/ i = 2 \/ i = 3
  OBVIOUS
<1>7. /\ path[1] = r(1) /\ path[2] = r(2) /\ path[3] = r(3)
  OBVIOUS
<1> HIDE DEF path
<1>8. ASSUME NEW b, NEW i \in {1, 2, 3}, hits(b) = {i},
             b = NoBlock \/ r(0).link.chained # b
      PROVE  walk(b) = r(i)
  <2>1. (CHOOSE j \in {i} : \A k \in {i} : j <= k) = i
    OBVIOUS
  <2>2. walk(b) = path[i]
    BY <1>5, <1>8, <2>1
  <2> QED BY <1>7, <2>2
<1>9. walk(at[1].block) = r(0)
  BY <1>2, <1>3, <1>5
<1>10. walk(at[2].block) = r(1)
  <2>1. hits(at[2].block) = {1}
    BY <1>2, <1>3, <1>6, <1>7
  <2> QED BY <1>2, <1>3, <1>8, <2>1
<1>11. walk(at[3].block) = r(2)
  <2>1. hits(at[3].block) = {2}
    BY <1>2, <1>3, <1>6, <1>7
  <2> QED BY <1>2, <1>3, <1>8, <2>1
<1>12. walk(NoBlock) = r(3)
  <2>1. hits(NoBlock) = {3}
    BY <1>2, <1>3, <1>6, <1>7
  <2> QED BY <1>2, <1>3, <1>8, <2>1
<1>13. ASSUME NEW b \in Pool, \A k \in 1 .. 3 : b # at[k].block
       PROVE  ~Found(walk(b))
  <2>1. b # at[1].block /\ b # at[2].block /\ b # at[3].block /\ b # NoBlock
    BY <1>3, <1>13
  <2>2. hits(b) = {}
    BY <1>2, <1>6, <1>7, <2>1
  <2>3. walk(b) = Start
    BY <1>2, <1>5, <2>1, <2>2
  <2> QED BY <1>4, <2>3 DEF Found
<1>14. Tips(fl) = at
  <2>1. Tips(fl) = [k \in Levels |-> CASE k = 0 -> r(0).where
                                       [] k = 1 -> r(1).where
                                       [] k = 2 -> r(2).where
                                       [] OTHER -> r(3).where]
    BY <1>1, <1>12 DEF Tips, Super, walk
  <2>2. \A k \in Levels : k = 0 \/ k = 1 \/ k = 2 \/ k = 3
    BY DEF Levels
  <2>3. \A k \in Levels : Tips(fl)[k] = at[k]
    BY <1>4, <2>1, <2>2
  <2>4. at = [k \in Levels |-> at[k]]
    BY DEF IsChain
  <2>5. Tips(fl) = [k \in Levels |-> Tips(fl)[k]]
    BY <2>1
  <2> QED BY <2>3, <2>4, <2>5
<1>15. Chain(fl) = {at[1].block, at[2].block, at[3].block}
  BY <1>1, <1>2, <1>3 DEF Chain
<1>16. \A k \in 1 .. 3 : walk(at[k].block) = r(k - 1)
  <2>1. \A k \in 1 .. 3 : k = 1 \/ k = 2 \/ k = 3
    OBVIOUS
  <2> QED BY <1>9, <1>10, <1>11, <2>1
<1> QED BY <1>12, <1>13, <1>14, <1>15, <1>16 DEF walk, r, Super

-----------------------------------------------------------------------------
(* What writing and erasing does to a chain. *)

(* A chain stays as it is while only other blocks change, and the anchor    *)
(* that is not in use loses sectors at most.                                *)
LEMMA ChainIsUntouched ==
    ASSUME NEW fl \in Medium, NEW gl \in Medium, NEW at, IsChain(fl, at),
           \A k \in Levels : gl[at[k].block] = fl[at[k].block],
           \A s \in Sectors : gl[OtherAnchor(at[0].block)][s] \in
                                  {fl[OtherAnchor(at[0].block)][s], Erased}
    PROVE  /\ IsChain(gl, at)
           /\ \A k \in Levels : LinkAt(gl, at[k]) = LinkAt(fl, at[k])
<1>1. \A k \in Levels : /\ LinkAt(gl, at[k]) = LinkAt(fl, at[k])
                        /\ StampAt(gl, at[k]) = StampAt(fl, at[k])
  BY DEF LinkAt, StampAt
<1>2. \A k \in Levels : IsTip(gl, at[k])
  BY <1>1 DEF IsChain, IsTip, Programmed
<1>3. \A k \in 1 .. 3 : k \in Levels /\ k - 1 \in Levels
  BY DEF Levels
<1>4. \A k \in 1 .. 3 : IsTaken(gl, at[k].block)
  BY <1>3 DEF IsChain, IsTaken
<1>5. 0 \in Levels /\ 3 \in Levels
  BY DEF Levels
<1>6. \A s \in Sectors :
          Programmed(gl, OtherAnchor(at[0].block), s) =>
              gl[OtherAnchor(at[0].block)][s].timestamp < StampAt(gl, at[0])
  BY <1>1, <1>5 DEF IsChain, Programmed
<1> QED BY <1>1, <1>2, <1>3, <1>4, <1>5, <1>6 DEF IsChain

(* A row of sectors of which only the first holds a link. *)
Row(link) == [s \in Sectors |-> IF s = 0 THEN link ELSE Erased]

LEMMA RowHasTip ==
    ASSUME NEW fl, NEW b, NEW link \in Links, fl[b] = Row(link)
    PROVE  /\ IsTip(fl, At(b, 0)) /\ LinkAt(fl, At(b, 0)) = link
           /\ link.type # "Unallocated" => IsTaken(fl, b)
<1>1. link # Erased /\ 0 \in Sectors /\ \A s \in Sectors : s \in Nat
  BY ErasedAssumption, Types DEF Sectors
<1> QED BY <1>1 DEF Row, IsTip, LinkAt, At, IsTaken, Programmed, StampAt

(* The write that switches: on level m it appends to the block of the chain,*)
(* rewrites its last sector, or begins the other anchor; on the levels      *)
(* below blocks were filled before, each with the link to the next.         *)
Writing(fl, a, link) == [fl EXCEPT ![a.block][a.sector] = link]

IsFilled(fl, at, m, new, lk) ==
    \A k \in Levels : k > m =>
        /\ new[k].block \in Pool /\ new[k].sector = 0
        /\ fl[new[k].block] = Row(lk[k])
        /\ \A j \in Levels : new[k].block # at[j].block
        /\ \A j \in Levels : new[k].block = new[j].block => k = j

IsLinked(m, new, lk) ==
    \A k \in Levels : k >= m =>
        /\ lk[k].type = TypeAt(k)
        /\ lk[k].chained = IF k = 3 THEN NoBlock ELSE new[k + 1].block
        /\ k < 3 => lk[k].timestamp < lk[k + 1].timestamp

Appends(at, m, new) ==
    /\ new[m].block = at[m].block
    /\ new[m].sector \in {at[m].sector, at[m].sector + 1}

Swaps(fl, at, m, new) ==
    /\ m = 0 /\ new[0] = At(OtherAnchor(at[0].block), 0)
    /\ \A s \in Sectors : fl[OtherAnchor(at[0].block)][s] = Erased

LEMMA ChainSwitches ==
    ASSUME NEW fl \in Medium, NEW gl \in Medium, NEW at, IsChain(fl, at),
           NEW m \in Levels, NEW new \in [Levels -> Address],
           NEW lk \in [Levels -> Links],
           gl = Writing(fl, new[m], lk[m]),
           StampAt(fl, at[m]) < lk[m].timestamp,
           Appends(at, m, new) \/ Swaps(fl, at, m, new),
           \A k \in Levels : k < m => new[k] = at[k],
           IsFilled(fl, at, m, new, lk),
           IsLinked(m, new, lk),
           lk[3].timestamp < TimestampInvalid
    PROVE  /\ IsChain(gl, new)
           /\ \A k \in Levels : LinkAt(gl, new[k]) =
                                    IF k >= m THEN lk[k] ELSE LinkAt(fl, at[k])
<1> USE DEF Levels
<1> DEFINE w == new[m].block
<1>1. /\ \A k \in Levels : at[k] \in Address /\ at[k].block \in Blocks
                           /\ IsTip(fl, at[k]) /\ LinkAt(fl, at[k]).type = TypeAt(k)
                           /\ StampAt(fl, at[k]) \in Nat
      /\ \A k \in 1 .. 3 : at[k].block \in Pool /\ IsTaken(fl, at[k].block)
      /\ \A j, k \in 1 .. 3 : at[j].block = at[k].block => j = k
      /\ at[0].block \in Anchors
  BY ChainFacts DEF IsChain
<1>2. /\ \A k \in Levels : new[k] \in Address /\ new[k].block \in Blocks
                           /\ new[k].sector \in Sectors
                           /\ lk[k] \in Links /\ lk[k] # Erased
                           /\ lk[k].timestamp \in Nat
                           /\ k \in Nat
      /\ m \in Nat /\ \A k \in Levels : k = 0 \/ k \in 1 .. 3
  BY AddressType, Types, ErasedAssumption, GeometryAssumption DEF Levels, Stamps
<1>2a. \A k \in Levels : /\ k \in Nat
                         /\ m \in Nat
                         /\ (k < m \/ k = m \/ k > m)
                         /\ k > m => k >= m /\ ~(k < m) /\ k # m
                         /\ k < m => ~(k >= m) /\ ~(k > m) /\ k # m
                          /\ m >= m
  BY DEF Levels
<1>3. /\ \A b \in Blocks : b # w => gl[b] = fl[b]
      /\ gl[w] = [fl[w] EXCEPT ![new[m].sector] = lk[m]]
      /\ fl[w] \in [Sectors -> Links \union {Erased}]
      /\ w \in Blocks
  BY <1>2 DEF Medium, Writing
<1>4. (w \in Pool /\ m # 0) \/ (w \in Anchors /\ m = 0)
  BY <1>1, <1>2, AnchorFacts DEF At, Appends, Swaps
<1>5. \A k \in Levels : k # m => new[k].block # w
  <2> SUFFICES ASSUME NEW k \in Levels, k # m PROVE new[k].block # w
    OBVIOUS
  <2>1. CASE k > m
    BY <2>1 DEF IsFilled
  <2>2. CASE k < m
    <3>1. new[k] = at[k] /\ m \in 1 .. 3 /\ new[m].block = at[m].block
      BY <1>2, <2>2 DEF Appends, Swaps
    <3>2. CASE k = 0
      BY <1>1, <1>4, <3>1, <3>2, AnchorFacts
    <3>3. CASE k \in 1 .. 3
      BY <1>1, <3>1, <3>3
    <3> QED BY <1>2, <3>2, <3>3
  <2> QED BY <1>2, <2>1, <2>2
<1>6. ASSUME NEW k \in Levels, k < m
      PROVE  /\ IsTip(gl, new[k]) /\ LinkAt(gl, new[k]) = LinkAt(fl, at[k])
             /\ StampAt(gl, new[k]) = StampAt(fl, at[k])
             /\ IsTaken(fl, at[k].block) => IsTaken(gl, new[k].block)
  <2>1. new[k] = at[k] /\ gl[at[k].block] = fl[at[k].block]
    BY <1>1, <1>3, <1>5, <1>6, <1>2
  <2>2. IsTip(fl, at[k])
    BY <1>1
  <2> QED BY <2>1, <2>2 DEF IsTip, LinkAt, StampAt, Programmed, IsTaken
<1>7. ASSUME NEW k \in Levels, k > m
      PROVE  /\ IsTip(gl, new[k]) /\ LinkAt(gl, new[k]) = lk[k]
             /\ IsTaken(gl, new[k].block)
  <2>1. gl[new[k].block] = Row(lk[k]) /\ new[k] = At(new[k].block, 0)
    BY <1>2, <1>3, <1>5, <1>7, AddressType DEF IsFilled
  <2>2. lk[k].type # "Unallocated" /\ lk[k] \in Links
    BY <1>2, <1>7 DEF TypeAt, IsLinked
  <2> DEFINE b == new[k].block
             link == lk[k]
  <2>3. /\ gl[b] = Row(link) /\ new[k] = At(b, 0)
        /\ link \in Links /\ link.type # "Unallocated"
    BY <2>1, <2>2
  <2> HIDE DEF b, link
  <2>4. IsTip(gl, At(b, 0)) /\ LinkAt(gl, At(b, 0)) = link /\ IsTaken(gl, b)
    BY <2>3, RowHasTip
  <2> QED BY <2>3, <2>4 DEF b, link
<1>8. IsTip(gl, new[m]) /\ LinkAt(gl, new[m]) = lk[m]
  <2>1. LinkAt(gl, new[m]) = lk[m]
    BY <1>2, <1>3 DEF LinkAt
  <2>2. CASE Appends(at, m, new)
    <3>0. w = at[m].block /\ new[m].sector \in {at[m].sector, at[m].sector + 1}
      BY <2>2 DEF Appends
    <3> SUFFICES ASSUME NEW s \in Sectors
                 PROVE  /\ Programmed(gl, w, s) <=> s <= new[m].sector
                        /\ s < new[m].sector => gl[w][s].timestamp < lk[m].timestamp
      BY <2>1 DEF IsTip, StampAt
    <3>1. gl[w][s] = IF s = new[m].sector THEN lk[m] ELSE fl[w][s]
      BY <1>2, <1>3
    <3>2. /\ Programmed(fl, w, s) <=> s <= at[m].sector
          /\ s < at[m].sector => fl[w][s].timestamp < StampAt(fl, at[m])
      BY <1>1, <3>0 DEF IsTip
    <3>3. s \in Nat /\ at[m].sector \in Nat /\ StampAt(fl, at[m]) \in Nat
      BY <1>1, SectorType, AddressType, <1>3
    <3>4. s = at[m].sector => fl[w][s].timestamp = StampAt(fl, at[m])
      BY <3>0 DEF StampAt, LinkAt
    <3>5. Programmed(fl, w, s) => fl[w][s].timestamp \in Nat
      BY <1>3, SectorType, GeometryAssumption DEF Stamps
    <3>6. Programmed(gl, w, s) <=> s <= new[m].sector
      BY <1>2, <3>0, <3>1, <3>2, <3>3 DEF Programmed
    <3>7. s < new[m].sector => gl[w][s].timestamp < lk[m].timestamp
      <4> SUFFICES ASSUME s < new[m].sector
                   PROVE  gl[w][s].timestamp < lk[m].timestamp
        OBVIOUS
      <4>1. gl[w][s] = fl[w][s] /\ s <= at[m].sector
        BY <3>0, <3>1, <3>3
      <4>2. Programmed(fl, w, s) /\ (s < at[m].sector \/ s = at[m].sector)
        BY <3>2, <3>3, <4>1
      <4>3. fl[w][s].timestamp <= StampAt(fl, at[m]) /\ fl[w][s].timestamp \in Nat
        BY <3>2, <3>3, <3>4, <3>5, <4>2
      <4> QED BY <1>2, <3>3, <4>1, <4>3
    <3> QED BY <3>6, <3>7
  <2>3. CASE Swaps(fl, at, m, new)
    <3>1. w = OtherAnchor(at[0].block) /\ new[m].sector = 0 /\ new[m] = At(w, 0)
      BY <2>3 DEF At, Swaps
    <3>2. gl[w] = Row(lk[m])
      <4>1. gl[w] = [s \in Sectors |-> IF s = 0 THEN lk[m] ELSE fl[w][s]]
        BY <1>3, <3>1
      <4> QED BY <2>3, <3>1, <4>1 DEF Row, Swaps
    <3> HIDE DEF w
    <3>3. lk[m] \in Links
      BY <1>2
    <3>4. IsTip(gl, At(w, 0))
      BY <3>2, <3>3, RowHasTip
    <3> QED BY <2>1, <3>1, <3>4
  <2> QED BY <2>1, <2>2, <2>3
<1>9. m # 0 => IsTaken(gl, w)
  <2> SUFFICES ASSUME m # 0 PROVE IsTaken(gl, w)
    OBVIOUS
  <2>1. w = at[m].block /\ m \in 1 .. 3
    BY <1>2 DEF Appends, Swaps
  <2>2. IsTaken(fl, w)
    BY <1>1, <2>1
  <2>3. gl[w][0] = IF new[m].sector = 0 THEN lk[m] ELSE fl[w][0]
    BY <1>2, <1>3, Types
  <2>4. lk[m].type # "Unallocated"
    BY <1>2 DEF TypeAt, IsLinked
  <2> QED BY <1>2, <2>2, <2>3, <2>4 DEF IsTaken
<1> HIDE DEF w
<1>10. ASSUME NEW k \in Levels
       PROVE  /\ IsTip(gl, new[k])
              /\ k >= m => LinkAt(gl, new[k]) = lk[k]
              /\ k < m => LinkAt(gl, new[k]) = LinkAt(fl, at[k]) /\ new[k] = at[k]
  <2>1. CASE k < m
    BY <1>2a, <1>6, <2>1
  <2>2. CASE k = m
    BY <1>2a, <1>8, <2>2
  <2>3. CASE k > m
    BY <1>2a, <1>7, <2>3
  <2> QED BY <1>2a, <2>1, <2>2, <2>3
<1>11. ASSUME NEW k \in Levels PROVE LinkAt(gl, new[k]).type = TypeAt(k)
  <2>1. LinkAt(fl, at[k]).type = TypeAt(k) /\ (k < m \/ k >= m)
    BY <1>1, <1>2a
  <2>2. k >= m => lk[k].type = TypeAt(k)
    BY DEF IsLinked
  <2> QED BY <1>10, <2>1, <2>2
<1>12. \A k \in 1 .. 3 : new[k].block \in Pool /\ IsTaken(gl, new[k].block)
  <2> SUFFICES ASSUME NEW k \in 1 .. 3
               PROVE  new[k].block \in Pool /\ IsTaken(gl, new[k].block)
    OBVIOUS
  <2>1. k \in Levels
    BY DEF Levels
  <2>2. at[k].block \in Pool /\ IsTaken(fl, at[k].block)
    BY <1>1
  <2>3. CASE k < m
    BY <1>6, <1>10, <2>1, <2>2, <2>3
  <2>4. CASE k > m
    BY <1>7, <2>1, <2>4 DEF IsFilled
  <2>5. CASE k = m
    BY <1>4, <1>9, <2>5, AnchorFacts DEF w
  <2> QED BY <1>2a, <2>1, <2>3, <2>4, <2>5
<1>13. \A j, k \in 1 .. 3 : new[j].block = new[k].block => j = k
  <2> SUFFICES ASSUME NEW j \in 1 .. 3, NEW k \in 1 .. 3, new[j].block = new[k].block
               PROVE  j = k
    OBVIOUS
  <2>1. j \in Levels /\ k \in Levels
    BY DEF Levels
  <2>2. CASE j > m \/ k > m
    BY <2>1, <2>2 DEF IsFilled
  <2>3. CASE j = m \/ k = m
    BY <1>5, <2>1, <2>3 DEF w
  <2>4. CASE j < m /\ k < m
    <3>1. at[j].block = at[k].block
      BY <1>10, <2>1, <2>4
    <3> QED BY <1>1, <3>1
  <2> QED BY <1>2a, <2>1, <2>2, <2>3, <2>4
<1>14. new[0].block \in Anchors
  <2>1. 0 \in Levels
    BY DEF Levels
  <2>2. CASE m = 0
    BY <1>4, <2>2 DEF w
  <2>3. CASE m # 0
    BY <1>1, <1>2, <2>1, <2>3
  <2> QED BY <2>2, <2>3
<1>15. ASSUME NEW k \in 1 .. 3
       PROVE  /\ LinkAt(gl, new[k - 1]).chained = new[k].block
              /\ StampAt(gl, new[k - 1]) < StampAt(gl, new[k])
  <2>1. k \in Levels /\ k - 1 \in Levels /\ k - 1 # 3 /\ (k - 1) + 1 = k
    BY DEF Levels
  <2>2. k \in Nat /\ m \in Nat /\ (k - 1 >= m \/ k = m \/ k < m)
    BY <1>2a
  <2>3. /\ LinkAt(fl, at[k - 1]).chained = at[k].block
        /\ StampAt(fl, at[k - 1]) < StampAt(fl, at[k])
    BY DEF IsChain
  <2>4. CASE k - 1 >= m
    <3>1. LinkAt(gl, new[k - 1]) = lk[k - 1] /\ LinkAt(gl, new[k]) = lk[k]
      BY <1>10, <2>1, <2>2, <2>4
    <3>2. /\ lk[k - 1].chained = new[k].block
          /\ lk[k - 1].timestamp < lk[k].timestamp
      BY <2>1, <2>4 DEF IsLinked
    <3> QED BY <3>1, <3>2 DEF StampAt
  <2>5. CASE k < m
    <3>1. /\ LinkAt(gl, new[k - 1]) = LinkAt(fl, at[k - 1])
          /\ LinkAt(gl, new[k]) = LinkAt(fl, at[k]) /\ new[k] = at[k]
      BY <1>10, <2>1, <2>2, <2>5
    <3> QED BY <2>3, <3>1 DEF StampAt
  <2>6. CASE k = m
    <3>1. LinkAt(gl, new[k - 1]) = LinkAt(fl, at[k - 1])
      BY <1>10, <2>1, <2>2, <2>6
    <3>2. LinkAt(gl, new[k]) = lk[m] /\ new[k].block = at[k].block
      BY <1>8, <2>6 DEF Appends, Swaps
    <3>3. StampAt(fl, at[k - 1]) < lk[m].timestamp
      <4>1. /\ StampAt(fl, at[k - 1]) \in Nat /\ StampAt(fl, at[m]) \in Nat
            /\ lk[m].timestamp \in Nat
        BY <1>1, <1>2, <2>1
      <4> QED BY <2>3, <2>6, <4>1
    <3> QED BY <2>3, <3>1, <3>2, <3>3 DEF StampAt
  <2> QED BY <2>2, <2>4, <2>5, <2>6
<1>16. LinkAt(gl, new[3]).chained = NoBlock /\ StampAt(gl, new[3]) < TimestampInvalid
  <2>1. 3 \in Levels /\ 3 >= m
    BY DEF Levels
  <2>2. LinkAt(gl, new[3]) = lk[3] /\ lk[3].chained = NoBlock
    BY <1>10, <2>1 DEF IsLinked
  <2> QED BY <2>2 DEF StampAt
<1>17. \A s \in Sectors :
           Programmed(gl, OtherAnchor(new[0].block), s) =>
               gl[OtherAnchor(new[0].block)][s].timestamp < StampAt(gl, new[0])
  <2> SUFFICES ASSUME NEW s \in Sectors,
                      Programmed(gl, OtherAnchor(new[0].block), s)
               PROVE  gl[OtherAnchor(new[0].block)][s].timestamp < StampAt(gl, new[0])
    OBVIOUS
  <2>1. 0 \in Levels
    BY DEF Levels
  <2> DEFINE o == OtherAnchor(at[0].block)
  <2>2. o \in Blocks /\ o \in Anchors /\ o # at[0].block
    BY <1>1, AnchorFacts
  <2>3. Programmed(fl, o, s) => /\ fl[o][s].timestamp < StampAt(fl, at[0])
                                /\ fl[o][s].timestamp \in Nat
    BY <2>2, SectorType, GeometryAssumption DEF IsChain, Stamps
  <2>4. CASE new[0].block = at[0].block
    <3>1. gl[o] = fl[o]
      BY <1>3, <1>4, <2>2, <2>4, AnchorFacts DEF w
    <3>2. StampAt(fl, at[0]) <= StampAt(gl, new[0])
      <4>1. CASE m = 0
        BY <1>1, <1>2, <1>8, <2>1, <4>1 DEF StampAt
      <4>2. CASE m # 0
        <5>1. LinkAt(gl, new[0]) = LinkAt(fl, at[0])
          BY <1>2a, <1>10, <2>1, <4>2
        <5>2. StampAt(fl, at[0]) \in Nat
          BY <1>1, <2>1
        <5> QED BY <5>1, <5>2 DEF StampAt
      <4> QED BY <4>1, <4>2
    <3>3. StampAt(gl, new[0]) \in Nat
      <4>1. LinkAt(gl, new[0]) = lk[0] \/ LinkAt(gl, new[0]) = LinkAt(fl, at[0])
        BY <1>2a, <1>10, <2>1
      <4>2. lk[0].timestamp \in Nat /\ StampAt(fl, at[0]) \in Nat
        BY <1>1, <1>2, <2>1
      <4> QED BY <4>1, <4>2 DEF StampAt
    <3> QED BY <1>1, <2>1, <2>3, <2>4, <3>1, <3>2, <3>3 DEF Programmed
  <2>5. CASE new[0].block # at[0].block
    <3>1. m = 0 /\ new[0].block = o /\ OtherAnchor(new[0].block) = at[0].block
      <4>1. m = 0
        BY <1>2a, <1>10, <2>1, <2>5
      <4>2. new[0].block = o
        BY <2>5, <4>1 DEF Appends, Swaps, At
      <4> QED BY <1>1, <4>1, <4>2, AnchorFacts
    <3>2. gl[at[0].block] = fl[at[0].block] /\ w = o
      BY <1>1, <1>3, <2>1, <2>2, <3>1 DEF w
    <3>2a. Programmed(fl, at[0].block, s) /\ at[0].block \in Blocks
      BY <1>1, <2>1, <3>1, <3>2 DEF Programmed
    <3>2b. fl[at[0].block][s].timestamp \in Nat
      <4>1. fl[at[0].block][s].timestamp \in Stamps
        BY <2>1, <3>2a, SectorType
      <4> QED BY <4>1, GeometryAssumption DEF Stamps
    <3>3. fl[at[0].block][s].timestamp <= StampAt(fl, at[0])
      <4>1. s <= at[0].sector /\ s \in Nat /\ at[0].sector \in Nat
        BY <1>1, <2>1, <3>1, <3>2, SectorType, AddressType DEF IsTip, Programmed
      <4>2. CASE s < at[0].sector
        <5>1. fl[at[0].block][s].timestamp < StampAt(fl, at[0])
          BY <1>1, <2>1, <4>2 DEF IsTip
        <5>2. fl[at[0].block][s].timestamp \in Nat
          BY <3>2b
        <5> QED BY <1>1, <2>1, <5>1, <5>2
      <4>3. CASE s = at[0].sector
        <5>1. StampAt(fl, at[0]) \in Nat
          BY <1>1, <2>1
        <5> QED BY <4>3, <5>1 DEF StampAt, LinkAt
      <4> QED BY <4>1, <4>2, <4>3
    <3>5. StampAt(gl, new[0]) = lk[0].timestamp /\ StampAt(fl, at[0]) < lk[0].timestamp
      BY <1>8, <3>1 DEF StampAt
    <3> QED BY <1>1, <1>2, <2>1, <3>1, <3>2, <3>2b, <3>3, <3>5
  <2> QED BY <2>4, <2>5
<1>18. IsChain(gl, new)
  BY <1>10, <1>11, <1>12, <1>13, <1>14, <1>15, <1>16, <1>17 DEF IsChain
<1> QED BY <1>2a, <1>10, <1>18

-----------------------------------------------------------------------------
(* create(): what it has prepared. *)

LEMMA CreationFacts ==
    ASSUME SuperBlockInv
    PROVE  /\ creation.level \in 0 .. 5
           /\ creation \in Creation
           /\ flash \in Medium
           /\ 0 \in Sectors
           /\ \A b \in Blocks : flash[b] \in [Sectors -> Links \union {Erased}]
           /\ Anchor1 \in Blocks /\ Anchor2 \in Blocks /\ Anchor1 # Anchor2
           /\ Anchor1 \notin Pool /\ Anchor2 \notin Pool
           /\ Pool \subseteq Blocks
  BY Quiet, Types, BlocksAssumption DEF Creation, Medium

(* NextLevel, level by level. *)
LEMMA NextLevels ==
    ASSUME creation \in Creation
    PROVE  LET next == NextLevel(creation)
           IN  /\ next.super = creation.super
               /\ next.level = creation.level + 1
               /\ creation.level \in {0, 1} => next.pc = "allocate"
               /\ creation.level \in {2, 3} => next.pc = "erase"
               /\ creation.level = 4 => next.pc = "write"
               /\ creation.level = 2 => next.block = Anchor1
               /\ creation.level = 3 => next.block = Anchor2
               /\ creation.level = 4 => next.block = creation.super
               /\ creation.level \in 0 .. 2 => next.chained = creation.block
               /\ creation.level \in 3 .. 5 => next.chained = creation.chained
  BY DEF NextLevel, Creation

LEMMA CreateAllocatesPrepares ==
    ASSUME SuperBlockInv, CreationInv, NEW b \in Pool, CreateAllocates(b)
    PROVE  CreationInv'
<1>1. Preparing /\ creation.pc = "allocate" /\ mode = "creating"
  BY DEF CreationInv, CreateAllocates, Creating
<1>2. creation.level \in {0, 1, 2}
  BY <1>1, CreationFacts DEF Preparing, CreationSteps
<1>3. /\ creation'.level = creation.level /\ creation'.pc = "erase"
      /\ creation'.block = b /\ creation'.chained = creation.chained
      /\ creation'.super = IF creation.level = 0 THEN b ELSE creation.super
      /\ flash' = flash /\ sb' = sb /\ free' = free \ {b} /\ b \in free
  BY CreationFacts DEF CreateAllocates, Allocates, Creation
<1>4. CASE creation.level = 0
  BY <1>3, <1>4 DEF CreationInv, Preparing, CreationSteps, InPreparation
<1>5. CASE creation.level = 1
  BY <1>1, <1>3, <1>5
  DEF CreationInv, Preparing, CreationSteps, InPreparation, Blank
<1>6. CASE creation.level = 2
  BY <1>1, <1>3, <1>6
  DEF CreationInv, Preparing, CreationSteps, InPreparation, Blank, Link1, OnlyHolds
<1> QED BY <1>2, <1>4, <1>5, <1>6

LEMMA CreateErasesPrepares ==
    ASSUME SuperBlockInv, CreationInv, CreateErases
    PROVE  CreationInv'
<1> DEFINE c == creation.block
           super == creation.super
           row1 == Row(Link("SuperBlockLink", 4, super, Nothing))
           row2(l) == Row(Link("SuperBlockLink", 3, l, Nothing))
           top(l) == Row(Link("Anchor", 2, l, Nothing))
<1>1. Preparing /\ creation.pc = "erase" /\ mode = "creating"
  BY DEF CreationInv, CreateErases, Creating
<1>2. creation.level \in {0, 1, 2, 3, 4} /\ c = InPreparation
  BY <1>1, CreationFacts DEF Preparing, CreationSteps
<1>3. c \in Blocks
  BY <1>1, <1>2, CreationFacts DEF Preparing, InPreparation
<1>4. /\ \A b \in Blocks : b # c => flash'[b] = flash[b]
      /\ \A s \in Sectors : flash'[c][s] = Erased
      /\ free' = free
  <2>1. flash' = Erasing(c) /\ free' = free
    BY DEF CreateErases
  <2>2. /\ \A b \in Blocks : b # c => Erasing(c)[b] = flash[b]
        /\ Erasing(c)[c] = [s \in Sectors |-> Erased]
    BY <1>3, CreationFacts, StorageEffect
  <2> QED BY <2>1, <2>2
<1>5. CASE creation.level = 0
  <2>1. creation' = NextLevel(creation) /\ sb' = Link("SuperBlock", 5, NoBlock, sb.value)
    BY <1>5 DEF CreateErases, CreationStamp
  <2>2. /\ creation'.level = 1 /\ creation'.pc = "allocate"
        /\ creation'.super = super /\ creation'.chained = super
        /\ c = super /\ super \in Pool \ free
    BY <1>1, <1>2, <1>5, <2>1, NextLevels, CreationFacts
    DEF Preparing, InPreparation
  <2>3. sb'.type = "SuperBlock" /\ sb'.timestamp = 5
    BY <2>1 DEF Link
  <2> HIDE DEF c, super
  <2> QED BY <1>4, <2>2, <2>3
      DEF CreationInv, Preparing, CreationSteps, Blank
<1>6. CASE creation.level # 0
  <2>1. /\ creation'.level = creation.level /\ creation'.pc = "write"
        /\ creation'.block = c /\ creation'.chained = creation.chained
        /\ creation'.super = super /\ sb' = sb
    BY <1>6, CreationFacts DEF CreateErases, Creation
  <2>2. /\ super \in Pool \ free /\ super \in Blocks /\ super # c
        /\ \A s \in Sectors : flash[super][s] = Erased
        /\ sb.type = "SuperBlock" /\ sb.timestamp = 5
    BY <1>1, <1>2, <1>6, CreationFacts DEF Preparing, InPreparation, Blank
  <2>3. \A s \in Sectors : flash'[super][s] = Erased /\ flash'[c][s] = Erased
    BY <1>4, <2>2
  <2>4. CASE creation.level = 1
    <3>1. creation.chained = super /\ c \in Pool \ free
      BY <1>1, <2>4 DEF Preparing
    <3> HIDE DEF c, super
    <3> QED BY <1>4, <2>1, <2>2, <2>3, <2>4, <3>1
        DEF CreationInv, Preparing, CreationSteps, InPreparation, Blank
  <2>5. CASE creation.level = 2
    <3>1. /\ Link1 \in Pool \ free /\ Link1 # super /\ Link1 # c
          /\ flash[Link1] = row1
          /\ Link1' = Link1 /\ Link1 \in Blocks
          /\ c \in Pool \ free
      BY <1>1, <2>1, <2>5, CreationFacts DEF Preparing, Link1, OnlyHolds, Row
    <3>2. flash'[Link1] = row1
      BY <1>4, <3>1
    <3> HIDE DEF c, super, Link1
    <3> QED BY <1>4, <2>1, <2>2, <2>3, <2>5, <3>1, <3>2
        DEF CreationInv, Preparing, CreationSteps, InPreparation, Blank,
            OnlyHolds, Row
  <2>6. CASE creation.level \in {3, 4}
    <3>1. /\ Link1 \in Pool \ free /\ Link1 # super /\ flash[Link1] = row1
          /\ Link2 \in Pool \ free /\ Link2 \notin {super, Link1}
          /\ flash[Link2] = row2(Link1)
      BY <1>1, <2>6 DEF Preparing, OnlyHolds, Row
    <3>2. c \in {Anchor1, Anchor2} /\ c \notin Pool /\ c # Link1 /\ c # Link2
      BY <1>2, <2>6, <3>1, CreationFacts DEF InPreparation
    <3>3. flash'[Link1] = flash[Link1] /\ flash'[Link2] = flash[Link2]
      BY <1>4, <3>1, <3>2, CreationFacts
    <3>4. Link2' = Link2 /\ Link1' = Link1
      BY <2>1, <2>6, <3>3 DEF Link1, Link2
    <3>5. creation.level = 4 => flash'[Anchor1] = top(Link2) /\ c = Anchor2
      <4> SUFFICES ASSUME creation.level = 4
                   PROVE  flash'[Anchor1] = top(Link2) /\ c = Anchor2
        OBVIOUS
      <4>1. c = Anchor2 /\ flash[Anchor1] = top(Link2)
        BY <1>1, <1>2 DEF InPreparation, Preparing, OnlyHolds, Row
      <4> QED BY <1>4, <4>1, CreationFacts
    <3>6. creation.level = 3 => c = Anchor1
      BY <1>2 DEF InPreparation
    <3> HIDE DEF c, super, Link1, Link2
    <3>7. flash'[Link1] = row1 /\ flash'[Link2] = row2(Link1)
      BY <3>1, <3>3
    <3> QED BY <1>4, <2>1, <2>2, <2>3, <2>6, <3>1, <3>4, <3>5, <3>6, <3>7
        DEF CreationInv, Preparing, CreationSteps, InPreparation, Blank,
            OnlyHolds, Row
  <2> QED BY <1>2, <1>6, <2>4, <2>5, <2>6
<1> QED BY <1>5, <1>6

LEMMA CreateWritesPrepares ==
    ASSUME SuperBlockInv, CreationInv, CreateWrites
    PROVE  CreationInv'
<1> DEFINE c == creation.block
           super == creation.super
           link == CreationLink
           row1 == Row(Link("SuperBlockLink", 4, super, Nothing))
           row2(l) == Row(Link("SuperBlockLink", 3, l, Nothing))
           top(l) == Row(Link("Anchor", 2, l, Nothing))
<1>1. Preparing /\ creation.pc = "write" /\ mode = "creating"
  BY DEF CreationInv, CreateWrites, Creating
<1>2. /\ creation.level \in {1, 2, 3, 4, 5} /\ c = InPreparation
      /\ \A s \in Sectors : flash[c][s] = Erased
  BY <1>1, CreationFacts DEF Preparing, CreationSteps, Blank
<1>3. /\ super \in Pool \ free /\ super \in Blocks
      /\ \A s \in Sectors : flash[super][s] = Erased
      /\ sb.type = "SuperBlock" /\ sb.timestamp = 5
  BY <1>1, <1>2, CreationFacts DEF Preparing, Blank
<1>4. c \in Blocks
  BY <1>1, <1>2, CreationFacts DEF Preparing, InPreparation
<1>5. /\ \A b \in Blocks : b # c => flash'[b] = flash[b]
      /\ flash'[c] = Row(link)
      /\ free' = free /\ sb' = sb
  <2>1. flash' = Programming(c, 0, link) /\ free' = free /\ sb' = sb
    BY DEF CreateWrites
  <2>2. /\ \A b \in Blocks : b # c => Programming(c, 0, link)[b] = flash[b]
        /\ Programming(c, 0, link)[c] = [flash[c] EXCEPT ![0] = link]
        /\ flash[c] \in [Sectors -> Links \union {Erased}]
    BY <1>4, CreationFacts, StorageEffect
  <2>3. [flash[c] EXCEPT ![0] = link] = Row(link)
    BY <1>2, <2>2 DEF Row
  <2> QED BY <2>1, <2>2, <2>3
<1>6. CASE creation.level = 1
  <2>1. creation' = NextLevel(creation)
    BY <1>6 DEF CreateWrites
  <2>2. /\ creation'.level = 2 /\ creation'.pc = "allocate"
        /\ creation'.super = super /\ creation'.chained = c
    BY <1>6, <2>1, NextLevels, CreationFacts
  <2>3. c \in Pool \ free /\ c # super /\ link = Link("SuperBlockLink", 4, super, Nothing)
    BY <1>1, <1>6 DEF Preparing, CreationLink, CreationStamp
  <2>4. \A s \in Sectors : flash'[super][s] = Erased
    BY <1>3, <1>5, <2>3
  <2>5. Link1' = c
    BY <2>2 DEF Link1
  <2> HIDE DEF c, super, link
  <2> QED BY <1>3, <1>5, <2>2, <2>3, <2>4, <2>5
      DEF CreationInv, Preparing, CreationSteps, Blank, OnlyHolds, Row
<1>7. CASE creation.level = 2
  <2>1. creation' = NextLevel(creation)
    BY <1>7 DEF CreateWrites
  <2>2. /\ creation'.level = 3 /\ creation'.pc = "erase"
        /\ creation'.super = super /\ creation'.chained = c
        /\ creation'.block = Anchor1
    BY <1>7, <2>1, NextLevels, CreationFacts
  <2>3. /\ Link1 \in Pool \ free /\ Link1 # super /\ flash[Link1] = row1
        /\ c \in Pool \ free /\ c # super /\ c # Link1 /\ Link1 = creation.chained
    BY <1>1, <1>7 DEF Preparing, OnlyHolds, Row, Link1
  <2>4. link = Link("SuperBlockLink", 3, Link1, Nothing)
    BY <1>7, <2>3 DEF CreationLink, CreationStamp
  <2>5. /\ \A s \in Sectors : flash'[super][s] = Erased
        /\ flash'[Link1] = row1
    BY <1>3, <1>5, <2>3, CreationFacts
  <2>6. Link2' = c /\ Link1' = Link1
    <3>1. flash'[c][0] = link
      BY <1>5, CreationFacts DEF Row
    <3>2. link.chained = Link1
      BY <2>4 DEF Link
    <3> QED BY <2>2, <3>1, <3>2 DEF Link1, Link2
  <2> HIDE DEF c, super, link, Link1, Link2
  <2> QED BY <1>3, <1>5, <2>2, <2>3, <2>4, <2>5, <2>6
      DEF CreationInv, Preparing, CreationSteps, Blank, OnlyHolds, Row,
          InPreparation
<1>8. CASE creation.level \in {3, 4, 5}
  <2>1. /\ Link1 \in Pool \ free /\ Link1 # super /\ flash[Link1] = row1
        /\ Link2 \in Pool \ free /\ Link2 \notin {super, Link1}
        /\ flash[Link2] = row2(Link1) /\ Link2 = creation.chained
    BY <1>1, <1>8 DEF Preparing, OnlyHolds, Row, Link2
  <2>2. c # Link1 /\ c # Link2
    BY <1>2, <1>8, <2>1, CreationFacts DEF InPreparation
  <2>3. flash'[Link1] = flash[Link1] /\ flash'[Link2] = flash[Link2]
    BY <1>5, <2>1, <2>2, CreationFacts
  <2>4. /\ creation'.super = super /\ creation'.chained = creation.chained
        /\ creation'.level \in {4, 5}
    <3>1. CASE creation.level = 5
      BY <3>1, CreationFacts DEF CreateWrites, Creation
    <3>2. CASE creation.level # 5
      <4>1. creation' = NextLevel(creation)
        BY <3>2 DEF CreateWrites
      <4> QED BY <1>8, <3>2, <4>1, NextLevels, CreationFacts
    <3> QED BY <3>1, <3>2
  <2>5. Link2' = Link2 /\ Link1' = Link1
    BY <1>8, <2>3, <2>4 DEF Link1, Link2
  <2>6. CASE creation.level = 3
    <3>1. creation' = NextLevel(creation)
      BY <2>6 DEF CreateWrites
    <3>2. /\ creation'.level = 4 /\ creation'.pc = "erase"
          /\ creation'.block = Anchor2
      BY <2>6, <3>1, NextLevels, CreationFacts
    <3>3. c = Anchor1 /\ link = Link("Anchor", 2, Link2, Nothing)
      BY <1>2, <2>1, <2>6 DEF InPreparation, CreationLink, CreationStamp
    <3>4. /\ \A s \in Sectors : flash'[super][s] = Erased
          /\ flash'[Anchor1] = top(Link2)
      BY <1>3, <1>5, <3>3, CreationFacts
    <3> HIDE DEF c, super, link, Link1, Link2
    <3> QED BY <1>3, <1>5, <2>1, <2>3, <2>4, <2>5, <3>2, <3>4
        DEF CreationInv, Preparing, CreationSteps, Blank, OnlyHolds, Row,
            InPreparation
  <2>7. CASE creation.level = 4
    <3>1. creation' = NextLevel(creation)
      BY <2>7 DEF CreateWrites
    <3>2. /\ creation'.level = 5 /\ creation'.pc = "write"
          /\ creation'.block = super
      BY <2>7, <3>1, NextLevels, CreationFacts
    <3>3. /\ c = Anchor2 /\ link = Link("Anchor", 1, Link2, Nothing)
          /\ flash[Anchor1] = top(Link2)
      BY <1>1, <1>2, <2>1, <2>7
      DEF InPreparation, CreationLink, CreationStamp, Preparing, OnlyHolds, Row
    <3>4. /\ \A s \in Sectors : flash'[super][s] = Erased
          /\ flash'[Anchor1] = top(Link2)
      BY <1>3, <1>5, <3>3, CreationFacts
    <3> HIDE DEF c, super, link, Link1, Link2
    <3> QED BY <1>3, <1>5, <2>1, <2>3, <2>4, <2>5, <3>2, <3>3, <3>4
        DEF CreationInv, Preparing, CreationSteps, Blank, OnlyHolds, Row,
            InPreparation
  <2>8. CASE creation.level = 5
    <3>1. /\ creation'.level = 5 /\ creation'.pc = "locate"
          /\ creation'.block = super
      BY <1>2, <2>8, CreationFacts DEF CreateWrites, Creation, InPreparation
    <3>2. /\ c = super /\ link = sb
          /\ flash[Anchor1] = top(Link2)
          /\ flash[Anchor2] = Row(Link("Anchor", 1, Link2, Nothing))
      BY <1>1, <1>2, <2>8 DEF InPreparation, CreationLink, Preparing, OnlyHolds, Row
    <3>3. /\ flash'[Anchor1] = flash[Anchor1] /\ flash'[Anchor2] = flash[Anchor2]
          /\ flash'[super] = Row(sb)
      BY <1>3, <1>5, <3>2, CreationFacts
    <3> HIDE DEF c, super, link, Link1, Link2
    <3> QED BY <1>3, <1>5, <2>1, <2>3, <2>4, <2>5, <3>1, <3>2, <3>3
        DEF CreationInv, Preparing, CreationSteps, Blank, OnlyHolds, Row,
            InPreparation
  <2> QED BY <1>8, <2>6, <2>7, <2>8
<1> QED BY <1>2, <1>6, <1>7, <1>8

(* Three blocks and two anchors that hold a link each, stamped in the order *)
(* of the chain, make a chain: the other anchor is older.                   *)
Prepared(link2, link1, super) ==
    [k \in Levels |-> CASE k = 0 -> At(Anchor1, 0)
                        [] k = 1 -> At(link2, 0)
                        [] k = 2 -> At(link1, 0)
                        [] OTHER -> At(super, 0)]

LEMMA RowsMakeChain ==
    ASSUME NEW fl \in Medium, NEW link1 \in Pool, NEW link2 \in Pool,
           NEW super \in Pool, NEW record \in Links,
           link1 # super, link2 # super, link2 # link1,
           fl[Anchor1] = Row(Link("Anchor", 2, link2, Nothing)),
           fl[Anchor2] = Row(Link("Anchor", 1, link2, Nothing)),
           fl[link2] = Row(Link("SuperBlockLink", 3, link1, Nothing)),
           fl[link1] = Row(Link("SuperBlockLink", 4, super, Nothing)),
           fl[super] = Row(record),
           record.type = "SuperBlock", record.timestamp = 5,
           record.chained = NoBlock
    PROVE  LET at == Prepared(link2, link1, super)
           IN  /\ IsChain(fl, at)
               /\ at[1] = At(link2, 0) /\ at[2] = At(link1, 0)
               /\ at[3] = At(super, 0) /\ LinkAt(fl, at[3]) = record
<1> USE DEF Levels
<1> DEFINE at == Prepared(link2, link1, super)
           l0 == Link("Anchor", 2, link2, Nothing)
           l1 == Link("SuperBlockLink", 3, link1, Nothing)
           l2 == Link("SuperBlockLink", 4, super, Nothing)
           lo == Link("Anchor", 1, link2, Nothing)
<1>1. /\ super \in Blocks /\ link1 \in Blocks /\ link2 \in Blocks
      /\ Anchor1 \in Blocks /\ Anchor2 \in Blocks /\ 0 \in Sectors
  BY Types
<1>2. /\ fl[Anchor1] = Row(l0) /\ fl[link2] = Row(l1)
      /\ fl[link1] = Row(l2) /\ fl[Anchor2] = Row(lo)
  OBVIOUS
<1>4. l0 \in Links /\ l1 \in Links /\ l2 \in Links /\ lo \in Links
  BY <1>1, Types, LinkType DEF BlockTypes
<1>6. /\ l0.type = "Anchor" /\ l0.timestamp = 2 /\ l0.chained = link2
      /\ l1.type = "SuperBlockLink" /\ l1.timestamp = 3 /\ l1.chained = link1
      /\ l2.type = "SuperBlockLink" /\ l2.timestamp = 4 /\ l2.chained = super
      /\ lo.timestamp = 1
  BY DEF Link
<1> HIDE DEF l0, l1, l2, lo
<1>7. /\ IsTip(fl, At(Anchor1, 0)) /\ LinkAt(fl, At(Anchor1, 0)) = l0
      /\ IsTip(fl, At(link2, 0)) /\ LinkAt(fl, At(link2, 0)) = l1
      /\ IsTip(fl, At(link1, 0)) /\ LinkAt(fl, At(link1, 0)) = l2
      /\ IsTip(fl, At(super, 0)) /\ LinkAt(fl, At(super, 0)) = record
      /\ IsTaken(fl, link2) /\ IsTaken(fl, link1) /\ IsTaken(fl, super)
  BY <1>2, <1>4, <1>6, RowHasTip
<1>8. /\ at[0] = At(Anchor1, 0) /\ at[1] = At(link2, 0)
      /\ at[2] = At(link1, 0) /\ at[3] = At(super, 0)
  BY DEF Prepared
<1>8a. /\ \A k \in Levels : k = 0 \/ k = 1 \/ k = 2 \/ k = 3
       /\ \A k \in 1 .. 3 : k = 1 \/ k = 2 \/ k = 3
  OBVIOUS
<1>9. at \in [Levels -> Address]
  <2>1. /\ At(Anchor1, 0) \in Address /\ At(link2, 0) \in Address
        /\ At(link1, 0) \in Address /\ At(super, 0) \in Address
    BY <1>1, Types
  <2>2. \A k \in Levels : at[k] \in Address
    BY <1>8, <1>8a, <2>1
  <2> QED BY <2>2 DEF Prepared
<1> HIDE DEF at
<1>10. \A b : At(b, 0).block = b
  BY DEF At
<1>11. \A k \in 1 .. 3 : at[k].block \in Pool /\ IsTaken(fl, at[k].block)
  BY <1>7, <1>8, <1>8a, <1>10
<1>12. \A j, k \in 1 .. 3 : at[j].block = at[k].block => j = k
  BY <1>8, <1>8a, <1>10
<1>13. \A k \in Levels : IsTip(fl, at[k]) /\ LinkAt(fl, at[k]).type = TypeAt(k)
  <2>1. /\ TypeAt(0) = "Anchor" /\ TypeAt(1) = "SuperBlockLink"
        /\ TypeAt(2) = "SuperBlockLink" /\ TypeAt(3) = "SuperBlock"
    BY DEF TypeAt
  <2> QED BY <1>6, <1>7, <1>8, <1>8a, <2>1
<1>14. \A k \in 1 .. 3 : /\ LinkAt(fl, at[k - 1]).chained = at[k].block
                        /\ StampAt(fl, at[k - 1]) < StampAt(fl, at[k])
  <2>1. /\ LinkAt(fl, at[1 - 1]) = l0 /\ LinkAt(fl, at[2 - 1]) = l1
        /\ LinkAt(fl, at[3 - 1]) = l2 /\ LinkAt(fl, at[3]) = record
        /\ LinkAt(fl, at[1]) = l1 /\ LinkAt(fl, at[2]) = l2
    BY <1>7, <1>8
  <2> QED BY <1>6, <1>8, <1>8a, <1>10, <2>1 DEF StampAt
<1>15. /\ LinkAt(fl, at[3]).chained = NoBlock
       /\ StampAt(fl, at[3]) < TimestampInvalid
  BY <1>7, <1>8, GeometryAssumption DEF StampAt
<1>16. at[0].block = Anchor1 /\ OtherAnchor(at[0].block) = Anchor2
  BY <1>8, <1>10 DEF OtherAnchor
<1>17. \A s \in Sectors : Programmed(fl, Anchor2, s) =>
          fl[Anchor2][s].timestamp < StampAt(fl, at[0])
  <2>1. StampAt(fl, at[0]) = 2
    BY <1>6, <1>7, <1>8 DEF StampAt
  <2>2. \A s \in Sectors : Programmed(fl, Anchor2, s) => fl[Anchor2][s] = lo
    BY <1>2 DEF Programmed, Row
  <2> QED BY <1>6, <2>1, <2>2
<1>18. IsChain(fl, at)
  BY <1>9, <1>11, <1>12, <1>13, <1>14, <1>15, <1>16, <1>17 DEF IsChain, Anchors
<1> QED BY <1>7, <1>8, <1>18 DEF at

(* Before create() looks for its super block the chain it has written is    *)
(* complete.                                                                *)
LEMMA PreparedChain ==
    ASSUME SuperBlockInv, Preparing, creation.pc = "locate"
    PROVE  LET at == Prepared(Link2, Link1, creation.super)
           IN  /\ IsChain(flash, at)
               /\ at[3] = At(creation.super, 0) /\ LinkAt(flash, at[3]) = sb
<1>1. creation.level = 5
  BY CreationFacts DEF Preparing, CreationSteps
<1>2. /\ creation.super \in Pool /\ Link1 \in Pool /\ Link2 \in Pool
      /\ Link1 # creation.super /\ Link2 \notin {creation.super, Link1}
      /\ flash[Anchor1] = Row(Link("Anchor", 2, Link2, Nothing))
      /\ flash[Anchor2] = Row(Link("Anchor", 1, Link2, Nothing))
      /\ flash[Link2] = Row(Link("SuperBlockLink", 3, Link1, Nothing))
      /\ flash[Link1] = Row(Link("SuperBlockLink", 4, creation.super, Nothing))
      /\ flash[creation.super] = Row(sb)
      /\ sb.type = "SuperBlock" /\ sb.timestamp = 5
  BY <1>1 DEF Preparing, OnlyHolds, Row
<1>3. sb \in Links /\ sb.chained = NoBlock /\ flash \in Medium
  BY Quiet
<1> HIDE DEF Link1, Link2
<1> QED BY <1>2, <1>3, RowsMakeChain

(* No other operation interleaves with create(). *)
LEMMA CreationStays ==
    ASSUME SuperBlockInv, CreationInv, [Next]_vars
    PROVE  CreationInv'
<1>1. CASE mode # "creating"
  <2>1. CASE Create
    <3>1. /\ creation' = NoCreation
      BY <2>1 DEF Create
    <3> QED BY <3>1 DEF CreationInv, Preparing, NoCreation, CreationSteps
  <2>2. CASE ~Create /\ [Next]_vars
    <3>1. mode' # "creating"
      BY <1>1, <2>2 DEF Next, Step, Mount, Save, NextSector, SwapAnchor,
         AllocateNext, OutOfBlocks, ResetTo, EraseTarget, WriteTarget, Relink,
         LinkLost, SaveFails, FreeErases, FreeMarks, RolloverReturns, SaveReturns,
         CreateAllocates, CreateErases, CreateWrites, CreateLocates, Creating,
         Crash, CrashInErase, EraseFails, WriteFails, FreeFails, CreateFails, vars
    <3> QED BY <3>1 DEF CreationInv
  <2> QED BY <2>1, <2>2
<1>2. CASE mode = "creating"
  <2>1. calls = <<>>
    BY <1>2, Quiet
  <2>2. \A pc : ~Running(pc)
    BY <2>1 DEF Running
  <2>3. CASE \E b \in Pool : CreateAllocates(b)
    BY <2>3, CreateAllocatesPrepares
  <2>4. CASE CreateErases
    BY <2>4, CreateErasesPrepares
  <2>5. CASE CreateWrites
    BY <2>5, CreateWritesPrepares
  <2>6. CASE CreateLocates \/ CreateFails \/ OutOfBlocks \/ Crash \/ CrashInErase
    <3>1. mode' \in {"idle", "down"}
      BY <2>6 DEF CreateLocates, CreateFails, OutOfBlocks, Crash, CrashInErase, ResetTo
    <3> QED BY <3>1 DEF CreationInv
  <2>7. CASE Mount \/ Save \/ Create
    BY <1>2, <2>7 DEF Mount, Save, Create
  <2>8. CASE UNCHANGED vars
    BY <2>8 DEF vars, CreationInv, Preparing, CreationSteps, InPreparation,
                Link1, Link2, OnlyHolds, Blank
  <2>9. ~(NextSector \/ SwapAnchor \/ (\E b \in Pool, erased \in BOOLEAN : AllocateNext(b, erased)))
    BY <2>2 DEF NextSector, SwapAnchor, AllocateNext
  <2>10. ~(EraseTarget \/ WriteTarget \/ Relink \/ LinkLost \/ FreeErases \/ FreeMarks)
    BY <2>2 DEF EraseTarget, WriteTarget, Relink, LinkLost, FreeErases, FreeMarks
  <2>11. ~(RolloverReturns \/ SaveReturns \/ EraseFails \/ WriteFails \/ FreeFails)
    BY <2>2 DEF RolloverReturns, SaveReturns, EraseFails, WriteFails, FreeFails
  <2> QED BY <2>3, <2>4, <2>5, <2>6, <2>7, <2>8, <2>9, <2>10, <2>11 DEF Next, Step
<1> QED BY <1>1, <1>2

(* create() finds the super block it has made, also over a medium that was  *)
(* in use: whatever the anchors and the free blocks held before, no older   *)
(* link leads the walk elsewhere.                                           *)
THEOREM CreatedIsFound == Spec => []CreateIsFound
<1>1. SuperBlockInv /\ CreationInv => CreateIsFound
  <2> SUFFICES ASSUME SuperBlockInv, CreationInv, Creating("locate")
               PROVE  /\ Super(flash).where = At(creation.super, 0)
                      /\ Super(flash).link = sb
    BY DEF CreateIsFound
  <2>1. Preparing /\ creation.pc = "locate"
    BY DEF Creating, CreationInv
  <2> DEFINE at == Prepared(Link2, Link1, creation.super)
  <2>2. /\ IsChain(flash, at)
        /\ at[3] = At(creation.super, 0) /\ LinkAt(flash, at[3]) = sb
    BY <2>1, PreparedChain
  <2> HIDE DEF at
  <2>3. Super(flash) = Reading(flash, at[3])
    BY <2>2, Quiet, ChainIsWalked
  <2> QED BY <2>2, <2>3 DEF Reading
<1>2. Init => CreationInv
  BY DEF Init, CreationInv
<1>3. SuperBlockInv /\ CreationInv /\ [Next]_vars => CreationInv'
  BY CreationStays
<1>4. Spec => []CreationInv
  BY <1>2, <1>3, SuperBlockIsInvariant, PTL DEF Spec
<1> QED BY <1>1, <1>4, SuperBlockIsInvariant, PTL
============================================================================
