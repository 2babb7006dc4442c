----------------------------- MODULE LinkChain ------------------------------
(***************************************************************************)
(* What is written in the sectors of a super block chain, and how          *)
(* SuperBlockManager reads it: find_link(), which picks the newest link of *)
(* a block, and walk(), which follows the links down from the anchors.     *)
(* Nothing here has state; SuperBlock is the program that writes.          *)
(***************************************************************************)
EXTENDS Integers

CONSTANTS
    Anchor1, Anchor2,    \* AnchorBlocks[]
    Pool,                \* the blocks the allocator manages
    NoBlock,             \* BLOCK_INDEX_INVALID
    SectorsPerBlock,     \* geometry().sectors_per_block()
    TimestampInvalid,    \* TIMESTAMP_INVALID, the largest timestamp_t
    Value,               \* what callers put in the super block
    Nothing,             \* contents of a sector that holds no super block
    Erased               \* a sector whose magic is not valid

Anchors == {Anchor1, Anchor2}
Blocks  == Anchors \union Pool
Sectors == 0 .. SectorsPerBlock - 1
Stamps  == 0 .. TimestampInvalid

ASSUME BlocksAssumption ==
    /\ Anchor1 # Anchor2
    /\ Anchor1 \notin Pool /\ Anchor2 \notin Pool
    /\ NoBlock \notin Blocks
ASSUME GeometryAssumption ==
    /\ SectorsPerBlock \in Nat \ {0}
    /\ TimestampInvalid \in Nat /\ TimestampInvalid > 5
ASSUME ContentsAssumption == Nothing \notin Value

BlockTypes == {"Anchor", "SuperBlockLink", "SuperBlock", "Unallocated"}

(* SuperBlockLink and what follows it in the sector. *)
Links == [type      : BlockTypes,
          timestamp : Stamps,
          chained   : Blocks \union {NoBlock},
          value     : Value \union {Nothing}]

ASSUME ErasedAssumption == Erased \notin Links

Link(type, timestamp, chained, value) ==
    [type |-> type, timestamp |-> timestamp,
     chained |-> chained, value |-> value]

Address == [block : Blocks, sector : Sectors]
NoAddress == [block |-> NoBlock, sector |-> 0]

At(b, s) == [block |-> b, sector |-> s]

(* timestamp_t is unsigned: incrementing the largest stamp gives zero. *)
NextStamp(t) == IF t = TimestampInvalid THEN 0 ELSE t + 1

-----------------------------------------------------------------------------
(* Reading the chain. *)

Programmed(fl, b, s) == fl[b][s] # Erased

(* find_link() reads sectors in order and stops at the first invalid magic. *)
(* These are the sectors it accepts among the first n.                      *)
Readable(fl, b, n) ==
    {s \in Sectors : s < n /\ \A t \in 0 .. s : Programmed(fl, b, t)}

(* A sector stamped TIMESTAMP_INVALID is always taken, and so is the sector *)
(* after it, whatever its stamp.                                            *)
Restarts(fl, b, n) ==
    {s \in Readable(fl, b, n) : fl[b][s].timestamp = TimestampInvalid}

AfterRestarts(fl, b, n) ==
    {s \in Readable(fl, b, n) : \A r \in Restarts(fl, b, n) : r < s}

(* The sectors among which the one with the largest stamp is selected, when *)
(* the newest link known so far carries the stamp t.                        *)
Eligible(fl, b, n, t) ==
    IF Restarts(fl, b, n) = {}
    THEN {s \in Readable(fl, b, n) :
             t = TimestampInvalid \/ fl[b][s].timestamp > t}
    ELSE IF AfterRestarts(fl, b, n) # {}
    THEN AfterRestarts(fl, b, n)
    ELSE {s \in Restarts(fl, b, n) : \A r \in Restarts(fl, b, n) : r <= s}

(* The first of the sectors with the largest stamp: find_link() replaces    *)
(* its choice only by a strictly larger stamp.                              *)
IsNewest(fl, b, cands, s) ==
    /\ s \in cands
    /\ \A t \in cands :
        \/ fl[b][t].timestamp < fl[b][s].timestamp
        \/ fl[b][t].timestamp = fl[b][s].timestamp /\ s <= t

Newest(fl, b, cands) == CHOOSE s \in cands : IsNewest(fl, b, cands, s)

(* Where a walk stands: `link' and `where' of SuperBlockManager::walk. *)
Start == [link  |-> Link("SuperBlockLink", TimestampInvalid, NoBlock, Nothing),
          where |-> NoAddress]

InSector(fl, b, s) == [link |-> fl[b][s], where |-> At(b, s)]

(* What find_link() has selected after n sectors. *)
FindLinkIn(fl, b, n, found) ==
    LET cands == Eligible(fl, b, n, found.link.timestamp)
    IN  IF cands = {} THEN found
        ELSE InSector(fl, b, Newest(fl, b, cands))

FindLink(fl, b, found) ==
    IF b \in Blocks THEN FindLinkIn(fl, b, SectorsPerBlock, found) ELSE found

(* find_link() applied to what an earlier one found.  Binding that to a      *)
(* variable makes TLC evaluate it once rather than wherever it occurs.       *)
AnchorLink(fl) ==
    CHOOSE next \in {FindLink(fl, Anchor2, l) :
                        l \in {FindLink(fl, Anchor1, Start)}} : TRUE

Below(fl, found) ==
    CHOOSE next \in {FindLink(fl, l.link.chained, l) : l \in {found}} : TRUE

(* Mutant: the block the anchor names is not recognised. *)
WalkPastAnchor(fl, desired) ==
    LET top    == AnchorLink(fl)
        first  == Below(fl, top)
        second == Below(fl, first)
        path   == <<first, second, Below(fl, second)>>
        hits   == {i \in DOMAIN path : path[i].link.chained = desired}
        none   == top.where = NoAddress
    IN  CASE none                                 -> Start
          [] ~none /\ hits = {}                   -> Start
          [] OTHER -> path[CHOOSE i \in hits : \A j \in hits : i <= j]

(* walk(): the link whose chained block is `desired', or NoAddress.  The    *)
(* anchor's own link is not a match when the super block is looked for.     *)
Walk(fl, desired) ==
    LET top    == AnchorLink(fl)
        first  == Below(fl, top)
        second == Below(fl, first)
        path   == <<first, second, Below(fl, second)>>
        hits   == {i \in DOMAIN path : path[i].link.chained = desired}
        none   == top.where = NoAddress
        child  == desired # NoBlock /\ top.link.chained = desired
    IN  CASE none                                 -> Start
          [] ~none /\ child                       -> top
          [] ~none /\ ~child /\ hits = {}         -> Start
          [] OTHER -> path[CHOOSE i \in hits : \A j \in hits : i <= j]

Found(walk) == walk.where # NoAddress

Super(fl) == Walk(fl, NoBlock)

(* The blocks walk(visitor) reports: the super block's and the links'. *)
Chain(fl) ==
    LET top    == AnchorLink(fl)
        first  == Below(fl, top)
        second == Below(fl, first)
    IN  {top.link.chained, first.link.chained, second.link.chained} \ {NoBlock}
=============================================================================
