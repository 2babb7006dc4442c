------------------------- MODULE BlockedFileProofs -------------------------
(***************************************************************************)
(* A file in blocks from the allocator: what was flushed is found, at its  *)
(* place, and no block leaks, for every geometry and any number of writes, *)
(* lives, losses of power and failures.                                    *)
(***************************************************************************)
EXTENDS BlockedFileChain, Inductions, FiniteSetTheorems

LEMMA Geometry ==
    /\ TailSector \in Nat /\ TailSector >= 2
    /\ Sectors = 1 .. TailSector /\ Sectors \subseteq Nat
    /\ SectorRoom \in Nat /\ SectorRoom < Unused
    /\ TailRoom \in Nat /\ 0 < TailRoom /\ TailRoom <= SectorRoom
    /\ NumberOfBlocks \in Nat /\ NumberOfBlocks > 0
    /\ Blocks \subseteq Nat /\ NoBlock \notin Blocks
    /\ MaxPosition \in Nat /\ MaxPosition + Unused < End /\ End \in Nat /\ Unused = 65535
BY GeometryAssumption, BoundsAssumption DEF TailSector, Sectors, Blocks, Unused, End

LEMMA PositionsAreNumbers ==
    ASSUME NEW k \in Nat, NEW base \in [0 .. k -> 0 .. MaxPosition], NEW i \in 0 .. k
    PROVE  base[i] \in Nat /\ base[i] <= MaxPosition
BY Geometry

-----------------------------------------------------------------------------
(* Where sectors end. *)

LEMMA EndsIsNumber ==
    ASSUME NEW blk \in [Sectors -> Sector], NEW l, NEW from \in Nat,
           NEW n \in 0 .. TailSector, Written(blk, l, from, n),
           NEW s \in 0 .. n
    PROVE  Ends(blk, from, s) \in Nat
<1>1. CASE s = 0
  BY <1>1 DEF Ends
<1>2. CASE s # 0
  <2>1. s \in Sectors /\ s \in 1 .. n
    BY <1>2, Geometry
  <2>2. blk[s].first \in Nat
    BY <2>1 DEF Sector
  <2>3. blk[s].bytes \in Nat
    BY <2>1, Geometry DEF Written
  <2> QED BY <1>2, <2>2, <2>3 DEF Ends
<1> QED BY <1>1, <1>2

LEMMA EndsStep ==
    ASSUME NEW blk, NEW l, NEW from \in Nat,
           NEW n \in 0 .. TailSector, Written(blk, l, from, n),
           NEW s \in 1 .. n
    PROVE  Ends(blk, from, s) = Ends(blk, from, s - 1) + blk[s].bytes
BY DEF Written, Ends

(* Each written sector holds something. *)
LEMMA EndsGrow ==
    ASSUME NEW blk \in [Sectors -> Sector], NEW l, NEW from \in Nat,
           NEW n \in 0 .. TailSector, Written(blk, l, from, n),
           NEW s \in 0 .. n, NEW t \in 0 .. n
    PROVE  /\ s <= t => Ends(blk, from, s) <= Ends(blk, from, t)
           /\ s < t => Ends(blk, from, s) < Ends(blk, from, t)
<1> DEFINE E(x) == Ends(blk, from, x)
           Good == {x \in s .. n : E(s) <= E(x) /\ (s < x => E(s) < E(x))}
<1>1. \A x \in 0 .. n : E(x) \in Nat
  BY EndsIsNumber
<1>2. \A x \in 1 .. n : E(x - 1) < E(x)
  <2> SUFFICES ASSUME NEW x \in 1 .. n PROVE E(x - 1) < E(x)
    OBVIOUS
  <2>1. E(x) = E(x - 1) + blk[x].bytes
    BY EndsStep
  <2>2. blk[x].bytes \in Nat /\ blk[x].bytes > 0
    BY Geometry DEF Written
  <2>3. E(x - 1) \in Nat
    BY <1>1
  <2> HIDE DEF E
  <2> QED BY <2>1, <2>2, <2>3
<1> HIDE DEF E
<1>3. s \in Good
  BY <1>1
<1>4. ASSUME NEW i \in s + 1 .. n, i - 1 \in Good PROVE i \in Good
  <2>1. i \in 1 .. n /\ i - 1 \in 0 .. n /\ i \in 0 .. n /\ s \in 0 .. n
    BY Geometry
  <2>2. E(i - 1) < E(i) /\ E(i - 1) \in Nat /\ E(i) \in Nat /\ E(s) \in Nat
    BY <1>1, <1>2, <2>1
  <2> QED BY <1>4, <2>2
<1>5. s .. n \subseteq Good
  <2> HIDE DEF Good
  <2>1. s \in Int /\ n \in Int
    BY Geometry
  <2> QED BY <1>3, <1>4, <2>1, IntervalInduction
<1>6. s <= t => t \in Good
  BY <1>5
<1>7. s <= t => E(s) <= E(t) /\ (s < t => E(s) < E(t))
  BY <1>6
<1> QED BY <1>7, Geometry DEF E

(* The sum that BytesIn computes. *)
SumsUp(g, b, n) ==
    /\ g \in [0 .. n -> Int] /\ g[0] = 0
    /\ \A s \in 1 .. n : g[s] = g[s - 1] + sectors[b][s].bytes

LEMMA SumIs ==
    ASSUME NEW b, NEW n \in Nat, NEW g, SumsUp(g, b, n)
    PROVE  BytesIn(b, n) = g[n]
<1> USE DEF SumsUp
<1> DEFINE IsSum(f) == f = [s \in 0 .. n |-> IF s = 0 THEN 0
                                             ELSE f[s - 1] + sectors[b][s].bytes]
           sum == CHOOSE f : IsSum(f)
           Good == {s \in 0 .. n : sum[s] = g[s]}
<1>1. IsSum(g)
  BY SMTT(30)
<1>2. IsSum(sum)
  BY <1>1
<1>4. BytesIn(b, n) = sum[n]
  BY DEF BytesIn
<1> HIDE DEF sum
<1>3. /\ sum[0] = 0
      /\ \A s \in 1 .. n : sum[s] = sum[s - 1] + sectors[b][s].bytes
  <2>1. \A s \in 0 .. n : sum[s] = IF s = 0 THEN 0 ELSE sum[s - 1] + sectors[b][s].bytes
    BY <1>2
  <2>2. 0 \in 0 .. n /\ \A s \in 1 .. n : s \in 0 .. n /\ s # 0
    OBVIOUS
  <2> QED BY <2>1, <2>2
<1>5. 0 \in Good
  BY <1>3
<1>6. \A i \in 0 + 1 .. n : i - 1 \in Good => i \in Good
  BY <1>3
<1>7. 0 .. n \subseteq Good
  <2>1. 0 \in Int /\ n \in Int
    OBVIOUS
  <2> HIDE DEF Good
  <2> QED BY <2>1, <1>5, <1>6, IntervalInduction
<1> QED BY <1>4, <1>7

LEMMA BytesInWritten ==
    ASSUME NEW b, sectors[b] \in [Sectors -> Sector], NEW l, NEW from \in Nat,
           NEW m \in 0 .. TailSector, Written(sectors[b], l, from, m),
           NEW n \in 0 .. m
    PROVE  BytesIn(b, n) = Ends(sectors[b], from, n) - from
<1> DEFINE E(s) == Ends(sectors[b], from, s)
           g == [s \in 0 .. n |-> E(s) - from]
<1>1. \A s \in 0 .. m : E(s) \in Nat
  BY EndsIsNumber
<1>2. \A s \in 1 .. m : E(s) = E(s - 1) + sectors[b][s].bytes /\ sectors[b][s].bytes \in Nat
  <2> SUFFICES ASSUME NEW s \in 1 .. m
               PROVE  E(s) = E(s - 1) + sectors[b][s].bytes /\ sectors[b][s].bytes \in Nat
    OBVIOUS
  <2>1. sectors[b][s].bytes \in Nat
    BY Geometry DEF Written
  <2> QED BY <2>1, EndsStep
<1>3. E(0) = from
  BY DEF Ends
<1> HIDE DEF E
<1>4. g \in [0 .. n -> Int] /\ g[0] = 0 /\ n \in Nat /\ n \in 0 .. n
  BY <1>1, <1>3, Geometry
<1>5. ASSUME NEW s \in 1 .. n PROVE g[s] = g[s - 1] + sectors[b][s].bytes
  <2>1. s \in 1 .. m /\ s \in 0 .. n /\ s - 1 \in 0 .. n /\ s \in 0 .. m /\ s - 1 \in 0 .. m
    BY Geometry
  <2> QED BY <1>1, <1>2, <2>1
<1>6. g[n] = E(n) - from
  BY <1>4
<1> HIDE DEF g
<1>7. BytesIn(b, n) = g[n]
  <2>1. SumsUp(g, b, n)
    BY <1>4, <1>5 DEF SumsUp
  <2> QED BY <1>4, <2>1, SumIs
<1> QED BY <1>6, <1>7 DEF E
-----------------------------------------------------------------------------
(* Where a file's blocks begin. *)

(* The parts of IsChain that speak of one block. *)
LEMMA ChainBlocks ==
    ASSUME NEW ss, NEW l, NEW k \in Nat, NEW path, NEW base, NEW m,
           IsChain(ss, l, k, path, base, m)
    PROVE  /\ \A i \in 0 .. k : i < k => Full(ss[path[i]], l, base[i], base[i + 1], path[i + 1])
           /\ Part(ss[path[k]], l, base[k], m)
           /\ base[0] = 0
BY DEF IsChain

LEMMA BasesGrow ==
    ASSUME NEW ss \in [Blocks -> [Sectors -> Sector]], NEW l, NEW k \in Nat,
           NEW path \in [0 .. k -> Blocks], NEW base \in [0 .. k -> 0 .. MaxPosition],
           NEW m, IsChain(ss, l, k, path, base, m),
           NEW i \in 0 .. k, NEW j \in 0 .. k
    PROVE  /\ i <= j => base[i] <= base[j]
           /\ i < j => base[i] < base[j]
<1> DEFINE Good == {x \in i .. k : base[i] <= base[x] /\ (i < x => base[i] < base[x])}
<1>1. \A x \in 0 .. k : base[x] \in Nat
  BY PositionsAreNumbers
<1>2. ASSUME NEW x \in 0 .. k, x < k PROVE base[x] < base[x + 1]
  <2> DEFINE blk == ss[path[x]]
  <2>1. Full(blk, l, base[x], base[x + 1], path[x + 1])
    BY <1>2, ChainBlocks
  <2>2. blk \in [Sectors -> Sector] /\ base[x] \in Nat
    BY <1>1
  <2>3. TailSector \in 0 .. TailSector /\ 0 \in 0 .. TailSector /\ 0 < TailSector
    BY Geometry
  <2>4. Written(blk, l, base[x], TailSector) /\ Ends(blk, base[x], TailSector) = base[x + 1]
    BY <2>1 DEF Full
  <2> HIDE DEF blk
  <2>5. Ends(blk, base[x], 0) < Ends(blk, base[x], TailSector)
    BY <2>2, <2>3, <2>4, EndsGrow
  <2> QED BY <2>4, <2>5 DEF Ends
<1>3. i \in Good
  BY <1>1
<1>4. ASSUME NEW x \in i + 1 .. k, x - 1 \in Good PROVE x \in Good
  <2>1. x - 1 \in 0 .. k /\ x - 1 < k /\ x \in 0 .. k /\ x - 1 + 1 = x
    OBVIOUS
  <2>2. base[x - 1] < base[x]
    BY <1>2, <2>1
  <2>3. base[x - 1] \in Nat /\ base[x] \in Nat /\ base[i] \in Nat
    BY <1>1, <2>1
  <2> QED BY <1>4, <2>2, <2>3
<1>5. i .. k \subseteq Good
  <2>1. i \in Int /\ k \in Int
    OBVIOUS
  <2> HIDE DEF Good
  <2> QED BY <1>3, <1>4, <2>1, IntervalInduction
<1> QED BY <1>5

(* The block in which the byte at p is, or would be. *)
LEMMA BlockOf ==
    ASSUME NEW k \in Nat, NEW base \in [0 .. k -> 0 .. MaxPosition], base[0] = 0,
           NEW p \in Nat
    PROVE  \E i \in 0 .. k : base[i] <= p /\ (i < k => p < base[i + 1])
<1> DEFINE S == {i \in 0 .. k : base[i] <= p}
<1>1. S \in SUBSET Int /\ S # {} /\ k \in Int /\ \A n \in S : n <= k
  <2>1. 0 \in S
    OBVIOUS
  <2> QED BY <2>1
<1>2. PICK i \in S : \A j \in S : j <= i
  <2> HIDE DEF S
  <2> QED BY <1>1, GreatestInteger
<1>3. ASSUME i < k PROVE p < base[i + 1]
  <2>1. i + 1 \in 0 .. k /\ ~(i + 1 <= i)
    BY <1>3
  <2>2. base[i + 1] \in Nat
    BY <2>1, PositionsAreNumbers
  <2> QED BY <1>2, <2>1, <2>2
<1> QED BY <1>2, <1>3

-----------------------------------------------------------------------------
(* seek() goes from block to block. *)

LEMMA SkipsAre ==
    ASSUME NEW from, NEW desired, NEW g,
           g = [n \in 0 .. NumberOfBlocks |-> g[n]],
           g[0] = [block |-> from, bytes |-> 0],
           \A n \in 1 .. NumberOfBlocks : g[n] = SkipBlock(g[n - 1], desired)
    PROVE  SkipBlocks(from, desired) = g
<1> DEFINE N == NumberOfBlocks
           IsSkips(f) == f = [n \in 0 .. N |-> IF n = 0 THEN [block |-> from, bytes |-> 0]
                                               ELSE SkipBlock(f[n - 1], desired)]
           skips == CHOOSE f : IsSkips(f)
           Good == {n \in 0 .. N : skips[n] = g[n]}
<1>1. N \in Nat
  BY Geometry
<1>2. IsSkips(g)
  <2> HIDE DEF N
  <2>1. \A n \in 0 .. N : n = 0 \/ n \in 1 .. N
    BY <1>1
  <2>2. \A n \in 0 .. N : g[n] = IF n = 0 THEN [block |-> from, bytes |-> 0]
                                             ELSE SkipBlock(g[n - 1], desired)
    BY <2>1 DEF N
  <2>3. g = [n \in 0 .. N |-> g[n]]
    BY DEF N
  <2> QED BY <2>2, <2>3
<1>3. IsSkips(skips)
  BY <1>2
<1>4. SkipBlocks(from, desired) = skips
  BY DEF SkipBlocks
<1> HIDE DEF skips, N
<1>5. /\ skips[0] = [block |-> from, bytes |-> 0]
      /\ \A n \in 1 .. N : skips[n] = SkipBlock(skips[n - 1], desired)
  BY <1>1, <1>3
<1>6. 0 \in Good
  BY <1>1, <1>5
<1>7. ASSUME NEW i \in 0 + 1 .. N, i - 1 \in Good PROVE i \in Good
  <2>1. i \in 1 .. N /\ i \in 0 .. N
    BY <1>1
  <2>2. g[i] = SkipBlock(g[i - 1], desired)
    BY <2>1 DEF N
  <2> QED BY <1>5, <1>7, <2>1, <2>2
<1>8. 0 .. N \subseteq Good
  <2>1. 0 \in Int /\ N \in Int
    BY <1>1
  <2> HIDE DEF Good
  <2> QED BY <2>1, <1>6, <1>7, IntervalInduction
<1>9. \A n \in 0 .. N : skips[n] = g[n]
  BY <1>8
<1>10. skips = [n \in 0 .. N |-> skips[n]]
  BY <1>3
<1>11. g = [n \in 0 .. N |-> g[n]]
  BY DEF N
<1> QED BY <1>4, <1>9, <1>10, <1>11

SkipsEndIn(skips, path, base, i) ==
    /\ skips[NumberOfBlocks] = [block |-> path[i], bytes |-> base[i]]
    /\ \A n \in 0 .. NumberOfBlocks :
           skips[n].block = IF n <= i THEN path[n] ELSE path[i]

(* It stops in the block that has the byte, or in the last one. *)
LEMMA SkipsTo ==
    ASSUME sectors \in [Blocks -> [Sectors -> Sector]],
           NEW k \in 0 .. NumberOfBlocks - 1,
           NEW path \in [0 .. k -> Blocks], NEW base \in [0 .. k -> 0 .. MaxPosition],
           NEW m \in 0 .. TailSector - 1, path[0] = start,
           IsChain(sectors, life, k, path, base, m),
           NEW p \in Nat, NEW i \in 0 .. k, base[i] <= p, i < k => p < base[i + 1]
    PROVE  SkipsEndIn(SkipBlocks(start, p), path, base, i)
<1> DEFINE g == [n \in 0 .. NumberOfBlocks |->
                   IF n <= i THEN [block |-> path[n], bytes |-> base[n]]
                             ELSE [block |-> path[i], bytes |-> base[i]]]
<1>1. k \in Nat /\ i \in Nat /\ i <= k /\ NumberOfBlocks \in Nat /\ k < NumberOfBlocks
  BY Geometry
<1>2. \A x \in 0 .. k : base[x] \in Nat /\ path[x] \in Blocks
  BY <1>1, PositionsAreNumbers
<1>3. base[0] = 0
  BY <1>1, ChainBlocks
<1>4. ASSUME NEW x \in 0 .. k, x < i
      PROVE  SkipBlock([block |-> path[x], bytes |-> base[x]], p)
                 = [block |-> path[x + 1], bytes |-> base[x + 1]]
  <2>1. x + 1 \in 0 .. k /\ x < k /\ x + 1 <= i
    BY <1>1, <1>4
  <2>2. Full(sectors[path[x]], life, base[x], base[x + 1], path[x + 1])
    BY <1>1, <2>1, ChainBlocks
  <2>3. base[x + 1] <= base[i]
    BY <1>1, <2>1, BasesGrow
  <2>4. /\ sectors[path[x]][TailSector].link = path[x + 1]
        /\ sectors[path[x]][TailSector].inBlock = base[x + 1] - base[x]
    BY <2>2 DEF Full
  <2>5. path[x + 1] # NoBlock
    BY <1>2, <2>1, Geometry
  <2>6. base[x] + (base[x + 1] - base[x]) = base[x + 1] /\ p >= base[x + 1]
    BY <1>2, <2>1, <2>3
  <2> QED BY <2>4, <2>5, <2>6 DEF SkipBlock
<1>5. SkipBlock([block |-> path[i], bytes |-> base[i]], p)
          = [block |-> path[i], bytes |-> base[i]]
  <2>1. CASE i < k
    <3>1. i + 1 \in 0 .. k
      BY <1>1, <2>1
    <3>2. sectors[path[i]][TailSector].inBlock = base[i + 1] - base[i]
      <4>1. Full(sectors[path[i]], life, base[i], base[i + 1], path[i + 1])
        BY <1>1, <2>1, ChainBlocks
      <4> QED BY <4>1 DEF Full
    <3>3. ~(p >= base[i] + (base[i + 1] - base[i]))
      BY <1>2, <2>1, <3>1
    <3> QED BY <3>2, <3>3 DEF SkipBlock
  <2>2. CASE ~(i < k)
    <3>1. i = k
      BY <1>1, <2>2
    <3>2. TailSector \in m + 1 .. TailSector
      BY Geometry
    <3>3. sectors[path[i]][TailSector] = Unwritten
      <4>1. Part(sectors[path[k]], life, base[k], m)
        BY <1>1, ChainBlocks
      <4> QED BY <3>1, <3>2, <4>1 DEF Part
    <3>4. sectors[path[i]][TailSector].link = NoBlock
      BY <3>3 DEF Unwritten
    <3> QED BY <3>4 DEF SkipBlock
  <2> QED BY <2>1, <2>2
<1>6. g[0] = [block |-> start, bytes |-> 0]
  BY <1>1, <1>3
<1>7. ASSUME NEW n \in 1 .. NumberOfBlocks PROVE g[n] = SkipBlock(g[n - 1], p)
  <2>1. n \in 0 .. NumberOfBlocks /\ n - 1 \in 0 .. NumberOfBlocks
    BY <1>1
  <2>2. CASE n <= i
    <3>1. n - 1 \in 0 .. k /\ n - 1 < i /\ n - 1 + 1 = n /\ n - 1 <= i
      BY <1>1, <2>2
    <3>2. SkipBlock([block |-> path[n - 1], bytes |-> base[n - 1]], p)
              = [block |-> path[n], bytes |-> base[n]]
      BY <1>4, <3>1
    <3> QED BY <2>1, <2>2, <3>1, <3>2
  <2>3. CASE ~(n <= i)
    <3>1. g[n] = [block |-> path[i], bytes |-> base[i]]
      BY <2>1, <2>3
    <3>2. g[n - 1] = [block |-> path[i], bytes |-> base[i]]
      <4>1. CASE n - 1 <= i
        <5>1. n - 1 = i
          BY <1>1, <2>3, <4>1
        <5> QED BY <2>1, <5>1
      <4>2. CASE ~(n - 1 <= i)
        BY <2>1, <4>2
      <4> QED BY <4>1, <4>2
    <3> QED BY <1>5, <3>1, <3>2
  <2> QED BY <2>2, <2>3
<1>8. g = [n \in 0 .. NumberOfBlocks |-> g[n]]
  OBVIOUS
<1>9. SkipBlocks(start, p) = g
  <2> HIDE DEF g
  <2> QED BY <1>6, <1>7, <1>8, SkipsAre
<1>10. g[NumberOfBlocks] = [block |-> path[i], bytes |-> base[i]]
  BY <1>1
<1>11. ASSUME NEW n \in 0 .. NumberOfBlocks
       PROVE  g[n].block = IF n <= i THEN path[n] ELSE path[i]
  OBVIOUS
<1> HIDE DEF g
<1> QED BY <1>9, <1>10, <1>11 DEF SkipsEndIn

-----------------------------------------------------------------------------
(* seek() goes from sector to sector. *)

LEMMA LeastIs ==
    ASSUME NEW S \in SUBSET Nat, NEW n \in S, \A x \in S : n <= x
    PROVE  Least(S) = n
<1>1. \E x \in S : \A y \in S : x <= y
  OBVIOUS
<1>2. Least(S) \in S /\ \A y \in S : Least(S) <= y
  BY <1>1 DEF Least
<1>3. Least(S) <= n /\ n <= Least(S) /\ n \in Nat /\ Least(S) \in Nat
  BY <1>2
<1> HIDE DEF Least
<1> QED BY <1>3

(* Bytes that were written are counted; an erased sector counts as empty. *)
LEMMA WrittenIsNotEmpty ==
    ASSUME NEW blk, NEW l, NEW from, NEW n \in 0 .. TailSector, Written(blk, l, from, n),
           NEW s \in 1 .. n
    PROVE  ~Empty(blk[s])
BY Geometry DEF Written, Empty

LEMMA UnwrittenIsEmpty ==
    Empty(Unwritten) /\ Unwritten.bytes = Unused /\ Unwritten.link = NoBlock
BY DEF Empty, Unwritten

StopOf(b, rest) == Least({s \in Sectors : Stops(b, s, rest)})

(* Where the search stops in a block that is written up to sector n. *)
LEMMA StopsAt ==
    ASSUME NEW b, sectors[b] \in [Sectors -> Sector], NEW from \in Nat,
           NEW n \in 0 .. TailSector, Written(sectors[b], life, from, n),
           NEW p \in Nat, from <= p,
           NEW t \in Sectors, t - 1 <= n,
           Stops(b, t, p - from), Ends(sectors[b], from, t - 1) <= p
    PROVE  StopOf(b, p - from) = t
<1> DEFINE S == {s \in Sectors : Stops(b, s, p - from)}
           E(s) == Ends(sectors[b], from, s)
<1>1. t \in S
  OBVIOUS
<1>2. ASSUME NEW s \in Sectors, s < t PROVE ~Stops(b, s, p - from)
  <2>1. s \in 1 .. n /\ s \in 0 .. n /\ s <= t - 1 /\ t - 1 \in 0 .. n /\ s # TailSector
    BY <1>2, Geometry
  <2>2. ~Empty(sectors[b][s])
    BY <2>1, WrittenIsNotEmpty
  <2>3. E(s) <= E(t - 1)
    BY <2>1, EndsGrow
  <2>4. BytesIn(b, s) = E(s) - from
    BY <2>1, BytesInWritten
  <2>5. E(s) \in Nat /\ E(t - 1) \in Nat
    BY <2>1, EndsIsNumber
  <2> HIDE DEF E
  <2>6. E(t - 1) <= p
    BY DEF E
  <2>7. ~(p - from < E(s) - from)
    BY <2>3, <2>5, <2>6
  <2> QED BY <2>1, <2>2, <2>4, <2>7 DEF Stops
<1>3. S \in SUBSET Nat /\ \A s \in S : t <= s
  <2> SUFFICES ASSUME NEW s \in S PROVE t <= s
    BY Geometry
  <2>1. s \in Sectors /\ Stops(b, s, p - from) /\ s \in Nat /\ t \in Nat
    BY Geometry
  <2>2. ~(s < t)
    BY <1>2, <2>1
  <2> QED BY <2>1, <2>2
<1> HIDE DEF S
<1>4. Least(S) = t
  BY <1>1, <1>3, LeastIs
<1> QED BY <1>4 DEF S, StopOf

(* What a search returns that stops in sector t of block i. *)
SeekStop(b, from, t, p) ==
    LET into  == p - from - BytesIn(b, t - 1)
        there == IF t = TailSector THEN into < sectors[b][TailSector].bytes
                                   ELSE ~Empty(sectors[b][t])
        past  == BytesIn(b, t - 1) + (IF there THEN into ELSE 0)
    IN  [head |-> At(b, t), offset |-> IF there THEN into ELSE 0,
         bytes |-> from + past, inBlock |-> past]

LEMMA SeekStopsAt ==
    ASSUME NEW p \in Nat, NEW b, NEW from, NEW t,
           SkipBlocks(start, p)[NumberOfBlocks] = [block |-> b, bytes |-> from],
           StopOf(b, p - from) = t
    PROVE  SeekFrom(start, p) = SeekStop(b, from, t, p)
BY DEF SeekFrom, SeekStop, StopOf

(* How much of block i is written. *)
WrittenIn(k, m, i) == IF i < k THEN TailSector ELSE m

LEMMA BlockIsWritten ==
    ASSUME NEW ss, NEW l, NEW k \in Nat, NEW path, NEW base, NEW m \in 0 .. TailSector - 1,
           IsChain(ss, l, k, path, base, m), NEW i \in 0 .. k
    PROVE  /\ WrittenIn(k, m, i) \in 0 .. TailSector
           /\ Written(ss[path[i]], l, base[i], WrittenIn(k, m, i))
           /\ i < k => Ends(ss[path[i]], base[i], TailSector) = base[i + 1]
<1>1. CASE i < k
  BY <1>1, ChainBlocks, Geometry DEF WrittenIn, Full
<1>2. CASE ~(i < k)
  <2>1. i = k
    BY <1>2
  <2>2. Part(ss[path[k]], l, base[k], m)
    BY ChainBlocks
  <2>3. m \in 0 .. TailSector
    BY Geometry
  <2> QED BY <2>1, <2>2, <2>3 DEF WrittenIn, Part
<1> QED BY <1>1, <1>2

(* A byte that is in the file is found where it was written. *)
LEMMA SeekInside ==
    ASSUME sectors \in [Blocks -> [Sectors -> Sector]],
           NEW k \in 0 .. NumberOfBlocks - 1,
           NEW path \in [0 .. k -> Blocks], NEW base \in [0 .. k -> 0 .. MaxPosition],
           NEW m \in 0 .. TailSector - 1, path[0] = start,
           IsChain(sectors, life, k, path, base, m),
           NEW p \in Nat, p < Size(sectors, k, path, base, m)
    PROVE  \E i \in 0 .. k, s \in Sectors :
               /\ s <= WrittenIn(k, m, i) /\ base[i] <= p
               /\ sectors[path[i]][s].first <= p
               /\ p < sectors[path[i]][s].first + sectors[path[i]][s].bytes
               /\ SeekFrom(start, p) =
                      [head |-> At(path[i], s),
                       offset |-> p - sectors[path[i]][s].first,
                       bytes |-> p, inBlock |-> p - base[i]]
<1>1. k \in Nat /\ base[0] = 0
  <2>1. k \in Nat
    BY Geometry
  <2> QED BY <2>1, ChainBlocks
<1>2. PICK i \in 0 .. k : base[i] <= p /\ (i < k => p < base[i + 1])
  BY <1>1, BlockOf
<1> DEFINE blk == sectors[path[i]]
           from == base[i]
           n == WrittenIn(k, m, i)
           E(s) == Ends(blk, from, s)
           S == {s \in 1 .. n : p < E(s)}
<1>3. /\ n \in 0 .. TailSector /\ Written(blk, life, from, n)
      /\ blk \in [Sectors -> Sector] /\ from \in Nat /\ from <= p
  BY <1>1, <1>2, BlockIsWritten, PositionsAreNumbers
<1>4. p < E(n)
  <2>1. CASE i < k
    <3>1. Ends(sectors[path[i]], base[i], TailSector) = base[i + 1]
      <4>1. Full(sectors[path[i]], life, base[i], base[i + 1], path[i + 1])
        BY <1>1, <2>1, ChainBlocks
      <4> QED BY <4>1 DEF Full
    <3>2. p < base[i + 1]
      BY <1>2, <2>1
    <3>3. n = TailSector
      BY <2>1 DEF WrittenIn
    <3> QED BY <3>1, <3>2, <3>3
  <2>2. CASE ~(i < k)
    <3>1. i = k
      BY <1>1, <2>2
    <3> QED BY <3>1 DEF WrittenIn, Size
  <2> QED BY <2>1, <2>2
<1>5. n \in S
  <2>1. E(0) = from
    BY DEF Ends
  <2> HIDE DEF n, E
  <2>2. n # 0
    BY <1>3, <1>4, <2>1
  <2>3. n \in 1 .. n
    BY <1>3, <2>2, Geometry
  <2> QED BY <2>3, <1>4
<1>6. PICK s \in S : \A x \in S : s <= x
  <2>1. S \in SUBSET Nat /\ S # {}
    BY <1>5
  <2> HIDE DEF S
  <2> QED BY <2>1, LeastNatural
<1>7. s \in Sectors /\ s \in 1 .. n /\ s - 1 \in 0 .. n /\ s \in 0 .. n /\ s <= n /\ p < E(s)
  BY <1>3, <1>6, Geometry
<1>8. E(s - 1) <= p
  <2>1. CASE s = 1
    BY <1>3, <2>1 DEF Ends
  <2>2. CASE s # 1
    <3>1. s - 1 \in 1 .. n /\ ~(s <= s - 1) /\ s - 1 \in 0 .. n
      BY <1>3, <1>7, <2>2
    <3>2. E(s - 1) \in Nat
      BY <1>3, <3>1, EndsIsNumber
    <3> HIDE DEF E
    <3>3. ~(p < E(s - 1))
      BY <1>6, <3>1
    <3> QED BY <3>2, <3>3
  <2> QED BY <2>1, <2>2
<1>9. /\ blk[s].first = E(s - 1) /\ blk[s].bytes \in 1 .. SectorRoom
      /\ E(s) = E(s - 1) + blk[s].bytes
      /\ E(s - 1) \in Nat
      /\ BytesIn(path[i], s) = E(s) - from
      /\ BytesIn(path[i], s - 1) = E(s - 1) - from
      /\ ~Empty(blk[s])
  <2>1. blk[s].first = E(s - 1) /\ blk[s].bytes \in 1 .. SectorRoom
    BY <1>3, <1>7 DEF Written
  <2>2. E(s) = E(s - 1) + blk[s].bytes
    BY <1>3, <1>7, EndsStep
  <2>3. E(s - 1) \in Nat
    BY <1>3, <1>7, EndsIsNumber
  <2>4. BytesIn(path[i], s) = E(s) - from
    BY <1>3, <1>7, BytesInWritten
  <2>5. BytesIn(path[i], s - 1) = E(s - 1) - from
    BY <1>3, <1>7, BytesInWritten
  <2>6. ~Empty(blk[s])
    BY <1>3, <1>7, WrittenIsNotEmpty
  <2> QED BY <2>1, <2>2, <2>3, <2>4, <2>5, <2>6
<1>10. Stops(path[i], s, p - from)
  <2>1. E(s) \in Nat /\ p < E(s)
    BY <1>3, <1>7, EndsIsNumber
  <2>2. p - from < E(s) - from
    <3> HIDE DEF E, from
    <3> QED BY <2>1, <1>3
  <2> QED BY <1>9, <2>2 DEF Stops
<1>11. StopOf(path[i], p - from) = s
  <2>1. s - 1 <= n
    BY <1>7
  <2> HIDE DEF n
  <2> QED BY <1>3, <1>7, <1>8, <1>10, <2>1, StopsAt
<1>12. SkipBlocks(start, p)[NumberOfBlocks] = [block |-> path[i], bytes |-> from]
  <2>1. SkipsEndIn(SkipBlocks(start, p), path, base, i)
    BY <1>2, SkipsTo
  <2> QED BY <2>1 DEF SkipsEndIn
<1>13. SeekFrom(start, p) = SeekStop(path[i], from, s, p)
  <2> HIDE DEF from
  <2> QED BY <1>11, <1>12, SeekStopsAt
<1>14. SeekStop(path[i], from, s, p) =
           [head |-> At(path[i], s), offset |-> p - blk[s].first,
            bytes |-> p, inBlock |-> p - from]
  <2> DEFINE F == E(s - 1)
  <2>1. F \in Nat /\ from \in Nat /\ F <= p /\ p < F + blk[s].bytes
        /\ BytesIn(path[i], s - 1) = F - from /\ blk[s].first = F
        /\ blk[s].bytes \in Nat
    BY <1>3, <1>7, <1>8, <1>9, Geometry, SMTT(30)
  <2> DEFINE held == blk[s].bytes
  <2> HIDE DEF F, E, from, held
  <2>2. /\ p - from - (F - from) = p - F
        /\ p - F < blk[s].bytes
        /\ F - from + (p - F) = p - from
        /\ from + (p - from) = p
    BY <2>1
  <2> QED BY <1>9, <2>1, <2>2 DEF SeekStop
<1>15. p < blk[s].first + blk[s].bytes /\ blk[s].first <= p
  BY <1>7, <1>8, <1>9
<1> QED BY <1>2, <1>7, <1>13, <1>14, <1>15

(* A seek to the end of the file, or past every file, ends behind what was  *)
(* written.                                                                 *)
LEMMA SeekPast ==
    ASSUME sectors \in [Blocks -> [Sectors -> Sector]],
           NEW k \in 0 .. NumberOfBlocks - 1,
           NEW path \in [0 .. k -> Blocks], NEW base \in [0 .. k -> 0 .. MaxPosition],
           NEW m \in 0 .. TailSector - 1, path[0] = start,
           IsChain(sectors, life, k, path, base, m),
           NEW p \in Nat,
           \/ p = Size(sectors, k, path, base, m)
           \/ p >= Size(sectors, k, path, base, m) + Unused
    PROVE  /\ SeekFrom(start, p) =
                  [head |-> At(path[k], m + 1), offset |-> 0,
                   bytes |-> Size(sectors, k, path, base, m),
                   inBlock |-> Size(sectors, k, path, base, m) - base[k]]
           /\ sectors[path[k]][m + 1] = Unwritten
<1> DEFINE blk == sectors[path[k]]
           from == base[k]
           E(s) == Ends(blk, from, s)
           z == E(m)
<1>1. /\ k \in Nat /\ k \in 0 .. k /\ ~(k < k) /\ m \in 0 .. TailSector /\ m \in 0 .. m
      /\ m + 1 \in Sectors /\ m + 1 - 1 = m /\ m \in Nat
  BY Geometry
<1>2. Written(blk, life, from, m) /\ \A s \in m + 1 .. TailSector : blk[s] = Unwritten
  <2>1. Part(blk, life, from, m)
    BY <1>1, ChainBlocks
  <2> QED BY <2>1 DEF Part
<1>3. blk \in [Sectors -> Sector] /\ from \in Nat
  BY <1>1, PositionsAreNumbers
<1>4. z \in Nat /\ from <= z /\ BytesIn(path[k], m) = z - from
  <2>1. z \in Nat
    BY <1>1, <1>2, <1>3, EndsIsNumber
  <2>2. E(0) <= E(m)
    <3>1. 0 \in 0 .. m /\ 0 <= m
      BY <1>1
    <3> QED BY <1>1, <1>2, <1>3, <3>1, EndsGrow
  <2>3. BytesIn(path[k], m) = E(m) - from
    BY <1>1, <1>2, <1>3, BytesInWritten
  <2> QED BY <2>1, <2>2, <2>3 DEF Ends
<1>5. z = Size(sectors, k, path, base, m)
  BY DEF Size
<1> HIDE DEF z
<1>6. blk[m + 1] = Unwritten
  <2>1. m + 1 \in m + 1 .. TailSector
    BY Geometry
  <2> QED BY <1>2, <2>1
<1>7. z <= p /\ from <= p
  BY <1>4, <1>5, Geometry
<1>8. Stops(path[k], m + 1, p - from)
  BY <1>6, UnwrittenIsEmpty DEF Stops
<1>9. StopOf(path[k], p - from) = m + 1
  <2>1. Ends(blk, from, m + 1 - 1) <= p
    BY <1>1, <1>7 DEF z
  <2>2. m + 1 - 1 <= m
    BY <1>1
  <2> DEFINE t == m + 1
             b == path[k]
  <2>3. sectors[b] \in [Sectors -> Sector] /\ Written(sectors[b], life, from, m)
    BY <1>2, <1>3
  <2>4. /\ t \in Sectors /\ t - 1 <= m /\ Ends(sectors[b], from, t - 1) <= p
        /\ Stops(b, t, p - from) /\ m \in 0 .. TailSector
    BY <1>1, <1>8, <2>1
  <2> HIDE DEF from, t, b
  <2>5. StopOf(b, p - from) = t
    BY <1>3, <1>7, <2>3, <2>4, StopsAt
  <2> QED BY <2>5 DEF t, b
<1>10. SkipBlocks(start, p)[NumberOfBlocks] = [block |-> path[k], bytes |-> from]
  <2>1. SkipsEndIn(SkipBlocks(start, p), path, base, k)
    BY <1>1, <1>7, SkipsTo
  <2> QED BY <2>1 DEF SkipsEndIn
<1>11. SeekFrom(start, p) = SeekStop(path[k], from, m + 1, p)
  <2> HIDE DEF from
  <2> QED BY <1>9, <1>10, SeekStopsAt
<1>12. SeekStop(path[k], from, m + 1, p) =
           [head |-> At(path[k], m + 1), offset |-> 0, bytes |-> z, inBlock |-> z - from]
  <2>1. /\ BytesIn(path[k], m + 1 - 1) = z - from
        /\ p - from - (z - from) = p - z
        /\ from + (z - from + 0) = z /\ z - from + 0 = z - from
    <3> HIDE DEF from
    <3> QED BY <1>1, <1>3, <1>4
  <2>2. Empty(blk[m + 1]) /\ blk[m + 1].bytes = Unused
    BY <1>6, UnwrittenIsEmpty
  <2>3. p - z < Unused => p - z = 0
    BY <1>4, <1>5, Geometry
  <2> HIDE DEF from
  <2>4. CASE m + 1 = TailSector
    BY <2>1, <2>2, <2>3, <2>4 DEF SeekStop
  <2>5. CASE m + 1 # TailSector
    BY <2>1, <2>2, <2>5 DEF SeekStop
  <2> QED BY <2>4, <2>5
<1> QED BY <1>5, <1>6, <1>11, <1>12

-----------------------------------------------------------------------------
(* What the invariant says of a file. *)

IsFile(k, path, base, m) ==
    /\ k \in 0 .. NumberOfBlocks - 1 /\ m \in 0 .. TailSector - 1
    /\ path \in [0 .. k -> Blocks] /\ base \in [0 .. k -> 0 .. MaxPosition]
    /\ FileIs(k, path, base, m)

HasFile == start # NoBlock => \E k, path, base, m : IsFile(k, path, base, m)

LEMMA InvHasFile ==
    FileInv <=> TypeOK /\ CallOK /\ Filled /\ FormatsBlock /\ FreeIsUnbegun /\ HasFile
BY DEF FileInv, HasFile, IsFile

LEMMA SectorsAreTyped ==
    ASSUME TypeOK PROVE sectors \in [Blocks -> [Sectors -> Sector]]
BY DEF TypeOK

LEMMA SizeIs ==
    ASSUME TypeOK, NEW k, NEW path, NEW base, NEW m, IsFile(k, path, base, m)
    PROVE  /\ FileSize = Size(sectors, k, path, base, m)
           /\ Size(sectors, k, path, base, m) \in Nat
           /\ base[k] <= Size(sectors, k, path, base, m)
           /\ SeekFrom(start, End).head = At(path[k], m + 1)
           /\ SeekFrom(start, End) =
                  [head |-> At(path[k], m + 1), offset |-> 0,
                   bytes |-> Size(sectors, k, path, base, m),
                   inBlock |-> Size(sectors, k, path, base, m) - base[k]]
<1> USE DEF IsFile
<1>1. /\ sectors \in [Blocks -> [Sectors -> Sector]]
      /\ path[0] = start /\ IsChain(sectors, life, k, path, base, m)
      /\ Size(sectors, k, path, base, m) <= MaxPosition
  BY SectorsAreTyped DEF FileIs, IsPath
<1>2. k \in Nat /\ k \in 0 .. k /\ m \in 0 .. TailSector /\ m \in 0 .. m /\ 0 \in 0 .. m
      /\ m \in Nat
  BY Geometry
<1>3. Written(sectors[path[k]], life, base[k], m)
  <2>1. Part(sectors[path[k]], life, base[k], m)
    BY <1>1, <1>2, ChainBlocks
  <2> QED BY <2>1 DEF Part
<1>4. sectors[path[k]] \in [Sectors -> Sector] /\ base[k] \in Nat
  BY <1>1, <1>2, PositionsAreNumbers
<1>5. Size(sectors, k, path, base, m) \in Nat
  BY <1>2, <1>3, <1>4, EndsIsNumber DEF Size
<1>6. base[k] <= Size(sectors, k, path, base, m)
  <2>1. Ends(sectors[path[k]], base[k], 0) <= Ends(sectors[path[k]], base[k], m)
    BY <1>2, <1>3, <1>4, EndsGrow
  <2>2. Ends(sectors[path[k]], base[k], 0) = base[k]
    BY DEF Ends
  <2> QED BY <2>1, <2>2 DEF Size
<1>7. End \in Nat /\ End >= Size(sectors, k, path, base, m) + Unused
  BY <1>1, <1>5, Geometry
<1>8. SeekFrom(start, End) =
          [head |-> At(path[k], m + 1), offset |-> 0,
           bytes |-> Size(sectors, k, path, base, m),
           inBlock |-> Size(sectors, k, path, base, m) - base[k]]
  <2> HIDE DEF FileIs
  <2> QED BY <1>1, <1>7, SeekPast
<1> QED BY <1>5, <1>6, <1>8 DEF FileSize

LEMMA NothingBehind ==
    ASSUME NEW k, NEW path, NEW base, NEW m, IsFile(k, path, base, m)
    PROVE  \A s \in m + 1 .. TailSector : s \in Sectors /\ sectors[path[k]][s] = Unwritten
<1>1. k \in Nat /\ m \in Nat /\ m + 1 \in 1 .. TailSector
  BY Geometry DEF IsFile
<1>2. IsChain(sectors, life, k, path, base, m)
  BY DEF IsFile, FileIs
<1>3. Part(sectors[path[k]], life, base[k], m)
  BY <1>1, <1>2, ChainBlocks
<1> QED BY <1>1, <1>3, Geometry DEF Part

LEMMA VisitedIs ==
    ASSUME TypeOK, NEW k, NEW path, NEW base, NEW m, IsFile(k, path, base, m)
    PROVE  Visited(start) = {path[i] : i \in 0 .. k}
<1>1. /\ sectors \in [Blocks -> [Sectors -> Sector]]
      /\ path[0] = start /\ IsChain(sectors, life, k, path, base, m)
      /\ k \in 0 .. NumberOfBlocks - 1 /\ m \in 0 .. TailSector - 1
      /\ path \in [0 .. k -> Blocks] /\ base \in [0 .. k -> 0 .. MaxPosition]
  BY SectorsAreTyped DEF IsFile, FileIs, IsPath
<1>2. k \in Nat /\ k \in 0 .. k /\ ~(k < k) /\ k < NumberOfBlocks /\ NumberOfBlocks \in Nat
  BY <1>1, Geometry
<1>3. End \in Nat /\ base[k] <= End
  BY <1>1, <1>2, PositionsAreNumbers, Geometry
<1>4. SkipsEndIn(SkipBlocks(start, End), path, base, k)
  BY <1>1, <1>2, <1>3, SkipsTo
<1>5. \A n \in 0 .. NumberOfBlocks :
          SkipBlocks(start, End)[n].block = IF n <= k THEN path[n] ELSE path[k]
  BY <1>4 DEF SkipsEndIn
<1>6. Visited(start) = {SkipBlocks(start, End)[n].block : n \in 0 .. NumberOfBlocks}
  BY DEF Visited
<1>7. \A n \in 0 .. NumberOfBlocks : n \in 0 .. k \/ ~(n <= k)
  BY <1>2
<1>8. \A n \in 0 .. k : n \in 0 .. NumberOfBlocks /\ n <= k
  BY <1>2
<1> QED BY <1>2, <1>5, <1>6, <1>7, <1>8

-----------------------------------------------------------------------------
(* The properties follow from the invariant. *)

LEMMA InvNothingLost ==
    ASSUME FileInv PROVE NothingFlushedIsLost
<1> SUFFICES ASSUME start # NoBlock PROVE FileSize >= durable
  BY DEF NothingFlushedIsLost
<1>1. PICK k, path, base, m : IsFile(k, path, base, m)
  BY InvHasFile DEF HasFile
<1>2. FileSize = Size(sectors, k, path, base, m) /\ Size(sectors, k, path, base, m) \in Nat
  BY <1>1, SizeIs, InvHasFile
<1>3. durable <= Size(sectors, k, path, base, m) /\ durable \in Nat
  BY <1>1, InvHasFile DEF IsFile, FileIs, TypeOK
<1> QED BY <1>2, <1>3

LEMMA InvBytesFound ==
    ASSUME FileInv PROVE EveryByteIsFound
<1> SUFFICES ASSUME start # NoBlock, NEW p \in 0 .. FileSize - 1
             PROVE  LET info   == SeekFrom(start, p)
                        sector == sectors[info.head.block][info.head.sector]
                    IN  /\ info.bytes = p
                        /\ sector.life = life
                        /\ sector.first + info.offset = p
                        /\ info.offset < sector.bytes
  BY DEF EveryByteIsFound
<1>1. PICK k, path, base, m : IsFile(k, path, base, m)
  BY InvHasFile DEF HasFile
<1>2. FileSize = Size(sectors, k, path, base, m) /\ Size(sectors, k, path, base, m) \in Nat
  BY <1>1, SizeIs, InvHasFile
<1>3. /\ sectors \in [Blocks -> [Sectors -> Sector]]
      /\ path[0] = start /\ IsChain(sectors, life, k, path, base, m)
      /\ k \in 0 .. NumberOfBlocks - 1 /\ m \in 0 .. TailSector - 1
      /\ path \in [0 .. k -> Blocks] /\ base \in [0 .. k -> 0 .. MaxPosition]
      /\ p \in Nat /\ p < Size(sectors, k, path, base, m) /\ k \in Nat
  BY <1>1, <1>2, SectorsAreTyped, InvHasFile, Geometry DEF IsFile, FileIs, IsPath
<1>4. PICK i \in 0 .. k, s \in Sectors :
               /\ s <= WrittenIn(k, m, i)
               /\ sectors[path[i]][s].first <= p
               /\ p < sectors[path[i]][s].first + sectors[path[i]][s].bytes
               /\ SeekFrom(start, p) =
                      [head |-> At(path[i], s),
                       offset |-> p - sectors[path[i]][s].first,
                       bytes |-> p, inBlock |-> p - base[i]]
  BY <1>3, SeekInside
<1> DEFINE sector == sectors[path[i]][s]
<1>5. sector.life = life /\ sector.first \in Nat /\ sector.bytes \in Nat
  <2>1. Written(sectors[path[i]], life, base[i], WrittenIn(k, m, i))
        /\ WrittenIn(k, m, i) \in 0 .. TailSector
    BY <1>3, BlockIsWritten
  <2>2. s \in 1 .. WrittenIn(k, m, i)
    BY <1>4, <2>1, Geometry
  <2>3. sector.first \in Nat
    BY <1>3, SectorsAreTyped, InvHasFile DEF Sector
  <2> QED BY <2>1, <2>2, <2>3, Geometry DEF Written
<1>6. SeekFrom(start, p).head.block = path[i] /\ SeekFrom(start, p).head.sector = s
  BY <1>4 DEF At
<1>7. /\ SeekFrom(start, p).bytes = p
      /\ SeekFrom(start, p).offset = p - sector.first
  BY <1>4
<1>8. sector.first + (p - sector.first) = p /\ p - sector.first < sector.bytes
  <2> HIDE DEF sector
  <2>1. p < sector.first + sector.bytes
    BY <1>4 DEF sector
  <2> QED BY <1>3, <1>5, <2>1
<1> QED BY <1>5, <1>6, <1>7, <1>8

LEMMA InvWritesErased ==
    ASSUME FileInv PROVE WritesErasedSectors
<1> SUFFICES ASSUME Running("sector"), file.mode = "write", faults = 0
             PROVE  sectors[file.head.block][file.head.sector] = Unwritten
  BY DEF WritesErasedSectors
<1>1. Writing /\ start # NoBlock /\ ~Entering
  <2>1. Writing /\ ~Entering
    BY DEF Writing, Entering, Running
  <2>2. call.op \notin {"format", "erase"}
    BY InvHasFile DEF CallOK, Running
  <2> QED BY <2>1, <2>2, InvHasFile DEF CallOK
<1>2. PICK k, path, base, m : IsFile(k, path, base, m)
  BY <1>1, InvHasFile DEF HasFile
<1>3. Own(k, path, base, m)
  BY <1>1, <1>2 DEF IsFile, FileIs, Appending
<1>4. sectors[path[k]][m + 1] = Unwritten
  <2>1. m + 1 \in m + 1 .. TailSector
    BY <1>2, Geometry DEF IsFile
  <2> QED BY <1>2, <2>1, NothingBehind
<1> QED BY <1>3, <1>4 DEF Own, At

LEMMA InvNoLeaks ==
    ASSUME FileInv PROVE NoBlockLeaks
<1> SUFFICES ASSUME Idle, start # NoBlock, crashes + faults = 0
             PROVE  Blocks \ free = Visited(start)
  BY DEF NoBlockLeaks
<1>1. PICK k, path, base, m : IsFile(k, path, base, m)
  BY InvHasFile DEF HasFile
<1>2. Visited(start) = {path[i] : i \in 0 .. k}
  BY <1>1, VisitedIs, InvHasFile
<1>3. AllClaimed(k, path) /\ path \in [0 .. k -> Blocks] /\ k \in Nat
  BY <1>1, Geometry DEF IsFile, FileIs
<1>4. HasPending => file.pending.block = path[k]
  <2> SUFFICES ASSUME HasPending PROVE file.pending.block = path[k]
    OBVIOUS
  <2>1. Writing /\ call.pc = "none"
    BY InvHasFile DEF CallOK, HasPending
  <2>2. crashes \in Nat /\ faults \in Nat
    BY InvHasFile, BoundsAssumption DEF TypeOK
  <2>3. faults = 0
    BY <2>2
  <2>4. Linked(k, path, base, m)
    BY <1>1, <2>1, <2>3 DEF IsFile, FileIs, Appending
  <2> QED BY <2>4 DEF Linked
<1>5. \A b \in Blocks : b \notin free <=> \E i \in 0 .. k : b = path[i]
  BY <1>3, <1>4 DEF AllClaimed
<1> QED BY <1>2, <1>3, <1>5

-----------------------------------------------------------------------------
(* read() *)

(* What IsFile says of the medium. *)
LEMMA FileOnMedium ==
    ASSUME TypeOK, NEW k, NEW path, NEW base, NEW m, IsFile(k, path, base, m)
    PROVE  /\ k \in Nat /\ k < NumberOfBlocks /\ k \in 0 .. k
           /\ m \in Nat /\ m < TailSector /\ m \in 0 .. TailSector - 1
           /\ path \in [0 .. k -> Blocks] /\ base \in [0 .. k -> 0 .. MaxPosition]
           /\ \A i \in 0 .. k : base[i] \in Nat /\ sectors[path[i]] \in [Sectors -> Sector]
           /\ sectors \in [Blocks -> [Sectors -> Sector]]
           /\ path[0] = start /\ base[0] = 0
           /\ IsChain(sectors, life, k, path, base, m)
           /\ \A i, j \in 0 .. k : path[i] = path[j] => i = j
<1>1. /\ k \in Nat /\ k < NumberOfBlocks /\ k \in 0 .. k
      /\ m \in Nat /\ m < TailSector /\ m \in 0 .. TailSector - 1
      /\ path \in [0 .. k -> Blocks] /\ base \in [0 .. k -> 0 .. MaxPosition]
  BY Geometry DEF IsFile
<1>2. sectors \in [Blocks -> [Sectors -> Sector]]
  BY SectorsAreTyped
<1>3. \A i \in 0 .. k : base[i] \in Nat /\ sectors[path[i]] \in [Sectors -> Sector]
  BY <1>1, <1>2, PositionsAreNumbers
<1>4. /\ path[0] = start /\ IsChain(sectors, life, k, path, base, m)
      /\ \A i, j \in 0 .. k : path[i] = path[j] => i = j
  BY DEF IsFile, FileIs, IsPath
<1>5. base[0] = 0
  BY <1>1, <1>4, ChainBlocks
<1> QED BY <1>1, <1>2, <1>3, <1>4, <1>5

LEMMA FileIsWritten ==
    ASSUME TypeOK, NEW k, NEW path, NEW base, NEW m, IsFile(k, path, base, m),
           NEW i \in 0 .. k
    PROVE  /\ WrittenIn(k, m, i) \in 0 .. TailSector
           /\ Written(sectors[path[i]], life, base[i], WrittenIn(k, m, i))
           /\ i < k => Ends(sectors[path[i]], base[i], TailSector) = base[i + 1]
<1>1. k \in Nat /\ m \in 0 .. TailSector - 1 /\ IsChain(sectors, life, k, path, base, m)
  BY FileOnMedium
<1> QED BY <1>1, BlockIsWritten

(* A sector begins where the one before it ends. *)
LEMMA StartIsEnd ==
    ASSUME TypeOK, NEW k, NEW path, NEW base, NEW m, IsFile(k, path, base, m),
           NEW i \in 0 .. k, NEW s \in Sectors, s <= WrittenIn(k, m, i) + 1
    PROVE  StartOf(sectors, k, path, base, m, i, s) = Ends(sectors[path[i]], base[i], s - 1)
<1>1. /\ k \in Nat /\ m \in Nat /\ m \in 0 .. TailSector - 1 /\ s \in Nat
      /\ s \in 1 .. TailSector
      /\ IsChain(sectors, life, k, path, base, m)
  BY FileOnMedium, Geometry
<1>2. /\ WrittenIn(k, m, i) \in 0 .. TailSector
      /\ Written(sectors[path[i]], life, base[i], WrittenIn(k, m, i))
  BY FileIsWritten
<1>3. CASE i < k \/ s <= m
  <2>1. s \in 1 .. WrittenIn(k, m, i)
    BY <1>1, <1>3 DEF WrittenIn
  <2> QED BY <1>2, <1>3, <2>1 DEF StartOf, Written
<1>4. CASE ~(i < k \/ s <= m)
  <2>1. i = k /\ s - 1 = m
    BY <1>1, <1>4 DEF WrittenIn
  <2> QED BY <1>4, <2>1 DEF StartOf, Size
<1> QED BY <1>3, <1>4

(* What a reader buffers next is what follows, or nothing at the end. *)
LEMMA LoadedIs ==
    ASSUME TypeOK, NEW k, NEW path, NEW base, NEW m, IsFile(k, path, base, m),
           Reading(file, k, path, base, m)
    PROVE  /\ Loaded \in File
           /\ Loaded.mode = file.mode /\ Loaded.pending = file.pending
           /\ Reading(Loaded, k, path, base, m)
           /\ Loaded.pos = Loaded.avail =>
                  Loaded.position = Size(sectors, k, path, base, m)
<1> DEFINE z == Size(sectors, k, path, base, m)
<1>1. file \in File
  BY DEF TypeOK
<1>2. z \in Nat
  BY SizeIs
<1>3. CASE file.pos # file.avail
  <2>1. Loaded = file
    BY <1>3 DEF Loaded
  <2> QED BY <1>1, <1>3, <2>1
<1>4. CASE file.pos = file.avail /\ file.head = NoAddress
  <2>1. Loaded = [file EXCEPT !.pos = 0, !.avail = 0]
    BY <1>4 DEF Loaded
  <2> HIDE DEF z
  <2>2. file.position = z /\ file.offset = 0
    <3>1. file.position + (file.avail - file.pos) = z /\ file.offset = 0
      BY <1>4 DEF Reading, z
    <3> QED BY <1>1, <1>4, <3>1 DEF File
  <2> DEFINE L == Loaded
  <2>3. /\ L \in File /\ L.mode = file.mode /\ L.pending = file.pending
        /\ L.pos = 0 /\ L.avail = 0 /\ L.position = z /\ L.offset = 0 /\ L.head = NoAddress
    BY <1>1, <1>4, <2>1, <2>2 DEF File
  <2> HIDE DEF L
  <2>4. L.position + (L.avail - L.pos) = z
    BY <1>2, <2>3
  <2>5. Reading(L, k, path, base, m)
    BY <2>3, <2>4 DEF Reading, z
  <2> QED BY <2>3, <2>5 DEF L, z
<1>5. CASE file.pos = file.avail /\ file.head # NoAddress
  <2> DEFINE s == IF file.head.sector = 0 THEN 1 ELSE file.head.sector
  <2>1. PICK i \in 0 .. k :
            /\ file.head.block = path[i]
            /\ file.head.sector = 0 => i = 0
            /\ file.position + (file.avail - file.pos)
                   = StartOf(sectors, k, path, base, m, i, s) + file.offset
            /\ file.offset > 0 => /\ i < k \/ s <= m
                                  /\ file.offset < sectors[path[i]][s].bytes
    BY <1>5 DEF Reading
  <2> DEFINE blk == sectors[path[i]]
             sector == blk[s]
             at == At(path[i], s)
             L == Loaded
  <2>2. /\ file.head \in Address /\ s \in Sectors /\ s \in Nat /\ s >= 1 /\ s <= TailSector
        /\ path[i] \in Blocks /\ path[i] # NoBlock
    BY <1>1, <1>5, FileOnMedium, Geometry, SMTT(30) DEF File, Address
  <2>3. L = Buffered([file EXCEPT !.buffer = sector, !.head = NextHead(at, sector)], sector)
    <3>1. (IF file.head.sector = 0 THEN At(file.head.block, 1) ELSE file.head) = at
      BY <2>1, <2>2 DEF At, Address
    <3>2. at.block = path[i] /\ at.sector = s
      BY DEF At
    <3> HIDE DEF s, at
    <3> QED BY <1>5, <3>1, <3>2 DEF Loaded
  <2>4. IsTail(at) <=> s = TailSector
    BY <2>2 DEF IsTail, At, NoAddress
  <2>5. sector \in Sector /\ blk \in [Sectors -> Sector] /\ base[i] \in Nat
    BY <2>2, FileOnMedium
  <2>6. /\ k \in Nat /\ m \in Nat /\ m \in 0 .. TailSector - 1 /\ m < TailSector
        /\ IsChain(sectors, life, k, path, base, m)
        /\ i \in Nat /\ i <= k /\ path \in [0 .. k -> Blocks]
    BY FileOnMedium
  <2>7. /\ WrittenIn(k, m, i) \in 0 .. TailSector
        /\ Written(blk, life, base[i], WrittenIn(k, m, i))
        /\ i < k => Ends(blk, base[i], TailSector) = base[i + 1]
    BY FileIsWritten
  <2>8. file.position \in Nat /\ file.offset \in Nat /\ file.pos \in Nat /\ file.avail \in Nat
    BY <1>1 DEF File
  <2>9. file.position = StartOf(sectors, k, path, base, m, i, s) + file.offset
    <3> HIDE DEF s, blk
    <3>1. file.position + (file.avail - file.pos) = file.position
      BY <1>5, <2>8
    <3> QED BY <2>1, <3>1
  <2> HIDE DEF L, s, z
  <2>10. CASE i < k \/ s <= m
    <3>1. s \in 1 .. WrittenIn(k, m, i) /\ s <= WrittenIn(k, m, i) + 1
      <4>1. WrittenIn(k, m, i) = TailSector \/ (WrittenIn(k, m, i) = m /\ s <= m)
        BY <2>10 DEF WrittenIn
      <4> QED BY <2>2, <2>6, <4>1, Geometry
    <3>2. /\ sector.life = life /\ sector.bytes \in 1 .. SectorRoom /\ sector.bytes \in Nat
          /\ sector.bytes > 0
          /\ sector.first = Ends(blk, base[i], s - 1) /\ sector.first \in Nat
          /\ ~Empty(sector) /\ Ends(blk, base[i], s) = sector.first + sector.bytes
      <4>1. sector.life = life /\ sector.bytes \in 1 .. SectorRoom
            /\ sector.first = Ends(blk, base[i], s - 1)
        BY <2>7, <3>1 DEF Written
      <4>2. sector.bytes \in Nat /\ sector.bytes > 0 /\ sector.first \in Nat
        <5>1. sector.first \in Nat
          BY <2>5 DEF Sector
        <5> HIDE DEF sector
        <5> QED BY <4>1, <5>1, Geometry
      <4>3. ~Empty(sector)
        BY <4>1, Geometry DEF Empty
      <4>4. Ends(blk, base[i], s) = sector.first + sector.bytes
        BY <2>2 DEF Ends
      <4> QED BY <4>1, <4>2, <4>3, <4>4
    <3>3. file.position = sector.first + file.offset
      BY <2>9, <2>10 DEF StartOf
    <3>4. file.offset < sector.bytes
      <4>1. CASE file.offset > 0
        BY <2>1, <4>1 DEF s
      <4>2. CASE ~(file.offset > 0)
        <5>1. file.offset = 0
          BY <2>8, <4>2
        <5> QED BY <3>2, <5>1
      <4> QED BY <4>1, <4>2
    <3> HIDE DEF sector, at, blk
    <3>5. L = [file EXCEPT !.buffer = sector, !.head = NextHead(at, sector),
                           !.pos = file.offset, !.avail = sector.bytes, !.offset = 0]
      BY <1>1, <2>3, <3>2 DEF Buffered, File
    <3>6. /\ L.buffer = sector /\ L.head = NextHead(at, sector)
          /\ L.pos = file.offset /\ L.avail = sector.bytes /\ L.offset = 0
          /\ L.position = file.position /\ L.mode = file.mode /\ L.pending = file.pending
      BY <1>1, <3>5 DEF File
    <3>7. \E j \in 0 .. k, t \in Sectors :
              /\ L.head = At(path[j], t)
              /\ StartOf(sectors, k, path, base, m, j, t) = sector.first + sector.bytes
      <4>1. CASE s # TailSector
        <5>1. L.head = At(path[i], s + 1)
          BY <2>4, <3>6, <4>1 DEF NextHead, At, at
        <5>2. s + 1 \in Sectors /\ s + 1 <= WrittenIn(k, m, i) + 1 /\ s + 1 - 1 = s
          BY <2>2, <2>7, <3>1, <4>1, Geometry
        <5>3. StartOf(sectors, k, path, base, m, i, s + 1) = Ends(blk, base[i], s)
          <6> DEFINE t == s + 1
          <6>1. t \in Sectors /\ t <= WrittenIn(k, m, i) + 1 /\ t - 1 = s
            BY <2>2, <5>2
          <6> HIDE DEF t
          <6>2. StartOf(sectors, k, path, base, m, i, t) = Ends(blk, base[i], t - 1)
            BY <6>1, StartIsEnd DEF blk
          <6> QED BY <6>1, <6>2 DEF t
        <5> QED BY <3>2, <5>1, <5>2, <5>3
      <4>2. CASE s = TailSector
        <5>1. i < k /\ i + 1 \in 0 .. k
          BY <2>6, <2>10, <4>2, Geometry
        <5>2. Full(blk, life, base[i], base[i + 1], path[i + 1])
          BY <2>6, <5>1, ChainBlocks DEF blk
        <5>3. sector.link = path[i + 1]
          BY <4>2, <5>2 DEF Full, sector
        <5>4. path[i + 1] # NoBlock
          BY <2>6, <5>1, Geometry
        <5>5. L.head = At(path[i + 1], 1)
          BY <2>4, <3>6, <4>2, <5>3, <5>4 DEF NextHead
        <5>6. 1 \in Sectors /\ 1 <= WrittenIn(k, m, i + 1) + 1 /\ 1 - 1 = 0
          <6>1. WrittenIn(k, m, i + 1) \in Nat
            BY <2>6, Geometry DEF WrittenIn
          <6> QED BY <6>1, Geometry
        <5>7. StartOf(sectors, k, path, base, m, i + 1, 1)
                  = Ends(sectors[path[i + 1]], base[i + 1], 0)
          BY <5>1, <5>6, StartIsEnd
        <5>8. Ends(sectors[path[i + 1]], base[i + 1], 0) = base[i + 1]
          BY DEF Ends
        <5>9. base[i + 1] = sector.first + sector.bytes
          BY <2>7, <3>2, <4>2, <5>1
        <5> QED BY <5>1, <5>5, <5>6, <5>7, <5>8, <5>9
      <4> QED BY <4>1, <4>2
    <3>8. PICK j \in 0 .. k, t \in Sectors :
              /\ L.head = At(path[j], t)
              /\ StartOf(sectors, k, path, base, m, j, t) = sector.first + sector.bytes
      BY <3>7
    <3>9. /\ L.head # NoAddress /\ L.head.block = path[j] /\ L.head.sector = t /\ t # 0
          /\ L.head \in Address
      <4>1. path[j] \in Blocks /\ path[j] # NoBlock
        BY <2>6, Geometry
      <4>2. t # 0 /\ t \in 0 .. TailSector
        BY Geometry
      <4> QED BY <3>8, <4>1, <4>2 DEF At, NoAddress, Address
    <3>10. L.position + (L.avail - L.pos)
               = StartOf(sectors, k, path, base, m, j, t) + L.offset
      BY <2>8, <3>2, <3>3, <3>6, <3>8
    <3>11. Reading(L, k, path, base, m)
      BY <2>8, <3>2, <3>3, <3>4, <3>6, <3>9, <3>10 DEF Reading
    <3>12. L \in File
      BY <1>1, <2>5, <2>8, <3>2, <3>5, <3>6, <3>9 DEF File, sector
    <3>13. L.pos # L.avail
      BY <2>8, <3>2, <3>4, <3>6
    <3> QED BY <3>6, <3>11, <3>12, <3>13 DEF L
  <2>11. CASE ~(i < k \/ s <= m)
    <3>1. i = k /\ s > m /\ s \in m + 1 .. TailSector
      BY <2>2, <2>6, <2>11
    <3>2. sector = Unwritten
      BY <3>1, NothingBehind
    <3>3. file.offset = 0 /\ file.position = z
      BY <1>2, <2>1, <2>8, <2>9, <2>11 DEF StartOf, z, s
    <3> HIDE DEF sector, at, blk
    <3>4. L = [file EXCEPT !.buffer = sector, !.head = NextHead(at, sector),
                           !.pos = 0, !.avail = 0]
      BY <1>1, <2>3, <3>2, UnwrittenIsEmpty DEF Buffered, File
    <3>5. /\ L.buffer = sector /\ L.head = NextHead(at, sector)
          /\ L.pos = 0 /\ L.avail = 0 /\ L.offset = 0
          /\ L.position = z /\ L.mode = file.mode /\ L.pending = file.pending
      BY <1>1, <3>3, <3>4 DEF File
    <3>6. L.position + (L.avail - L.pos) = z
      BY <1>2, <3>5
    <3>7. CASE s # TailSector
      <4>1. L.head = At(path[k], s + 1)
        BY <2>4, <3>1, <3>5, <3>7 DEF NextHead, At, at
      <4>2. s + 1 \in 1 .. TailSector /\ ~(k < k \/ s + 1 <= m)
        BY <2>2, <2>6, <3>1, <3>7, Geometry
      <4>3. /\ L.head # NoAddress /\ L.head.block = path[k] /\ L.head.sector = s + 1
            /\ s + 1 # 0 /\ L.head \in Address
        BY <2>2, <3>1, <4>1, <4>2 DEF At, NoAddress, Address
      <4>4. StartOf(sectors, k, path, base, m, k, s + 1) = z
        BY <4>2 DEF StartOf, z
      <4>5. L.position + (L.avail - L.pos)
                = StartOf(sectors, k, path, base, m, k, s + 1) + L.offset
        BY <1>2, <3>5, <3>6, <4>4
      <4>6. Reading(L, k, path, base, m)
        BY <2>6, <3>5, <4>3, <4>5 DEF Reading
      <4>7. L \in File
        BY <1>1, <2>5, <3>4, <3>5, <4>3 DEF File, sector
      <4> QED BY <3>5, <4>6, <4>7 DEF L, z
    <3>8. CASE s = TailSector
      <4>1. L.head = NoAddress
        BY <2>4, <3>2, <3>5, <3>8, UnwrittenIsEmpty DEF NextHead
      <4>2. Reading(L, k, path, base, m)
        BY <3>5, <3>6, <4>1 DEF Reading, z
      <4>3. L \in File
        BY <1>1, <2>5, <3>4, <3>5, <4>1 DEF File, sector
      <4> QED BY <3>5, <4>2, <4>3 DEF L, z
    <3> QED BY <3>7, <3>8
  <2> QED BY <2>10, <2>11
<1>6. file.head = NoAddress \/ file.head # NoAddress
  OBVIOUS
<1> QED BY <1>3, <1>4, <1>5

LEMMA InvReads ==
    ASSUME FileInv PROVE ReadsWhatWasWritten
<1> SUFFICES ASSUME Idle, file.mode = "read"
             PROVE  /\ Loaded.pos < Loaded.avail =>
                           /\ Loaded.buffer.life = life
                           /\ Loaded.buffer.first + Loaded.pos = Loaded.position
                           /\ Loaded.avail <= Loaded.buffer.bytes
                    /\ Loaded.pos = Loaded.avail => Loaded.position >= durable
  BY DEF ReadsWhatWasWritten
<1>1. start # NoBlock
  BY InvHasFile DEF CallOK, Writing
<1>2. PICK k, path, base, m : IsFile(k, path, base, m)
  BY <1>1, InvHasFile DEF HasFile
<1>3. /\ Reading(file, k, path, base, m)
      /\ durable <= Size(sectors, k, path, base, m)
  BY <1>2 DEF IsFile, FileIs
<1>4. /\ Reading(Loaded, k, path, base, m)
      /\ Loaded.pos = Loaded.avail =>
            Loaded.position = Size(sectors, k, path, base, m)
  BY <1>2, <1>3, LoadedIs, InvHasFile
<1>5. durable \in Nat /\ Size(sectors, k, path, base, m) \in Nat
  BY <1>2, SizeIs, InvHasFile DEF TypeOK
<1> HIDE DEF Loaded
<1> QED BY <1>3, <1>4, <1>5 DEF Reading

-----------------------------------------------------------------------------
(* Steps that keep the invariant. *)

LEMMA InvAgain ==
    TypeOK' /\ CallOK' /\ Filled' /\ FormatsBlock' /\ FreeIsUnbegun' /\ HasFile' => FileInv'
BY DEF FileInv, HasFile, IsFile

LEMMA FileAgain ==
    ASSUME NEW k, NEW path, NEW base, NEW m, IsFile(k, path, base, m)'
    PROVE  HasFile'
BY DEF HasFile

(* The pc of a call that is about to write a sector. *)
LEMMA SavingIs ==
    ASSUME NEW op, NEW after, NEW left, NEW size,
           file.head \in Address
    PROVE  /\ Saving(op, after, left, size).op = op
           /\ Saving(op, after, left, size).after = after
           /\ Saving(op, after, left, size).left = left
           /\ Saving(op, after, left, size).size = size
           /\ Saving(op, after, left, size).block = NoGiven
           /\ Saving(op, after, left, size).rest = {}
           /\ Saving(op, after, left, size).pc =
                  IF AtTail /\ file.pending = NoGiven THEN "allocate" ELSE "sector"
<1>1. IsTail(file.head) <=> AtTail
  <2>1. file.head # NoAddress
    BY Geometry DEF Address, NoAddress, At
  <2> QED BY <2>1 DEF IsTail, AtTail
<1> QED BY <1>1 DEF Saving, NoCall

LEMMA FillingIs ==
    ASSUME NEW left, NEW size
    PROVE  /\ Filling(left, size).op = "write" /\ Filling(left, size).pc = "fill"
           /\ Filling(left, size).left = left /\ Filling(left, size).size = size
           /\ Filling(left, size).block = NoGiven /\ Filling(left, size).rest = {}
           /\ Filling(left, size).after = "return"
BY DEF Filling, NoCall

LEMMA NoCallIs ==
    /\ NoCall.op = "none" /\ NoCall.pc = "none" /\ NoCall.left = 0 /\ NoCall.after = "return"
    /\ NoCall.block = NoGiven /\ NoCall.rest = {} /\ NoCall \in Call
BY DEF NoCall, Call, NoGiven, Given

LEMMA CallsAreTyped ==
    ASSUME NEW left \in Nat, NEW size \in Nat
    PROVE  /\ Filling(left, size) \in Call
           /\ file.head \in Address =>
                  \A op \in {"write", "flush", "close"},
                     after \in {"return", "keep", "fill", "fill unless full"} :
                      Saving(op, after, left, size) \in Call
<1>1. NoGiven \in Given
  BY DEF NoGiven, Given
<1>2. Filling(left, size) \in Call
  BY <1>1 DEF Filling, NoCall, Call
<1>3. ASSUME file.head \in Address,
             NEW op \in {"write", "flush", "close"},
             NEW after \in {"return", "keep", "fill", "fill unless full"}
      PROVE  Saving(op, after, left, size) \in Call
  <2> DEFINE pc == IF IsTail(file.head) /\ file.pending = NoGiven THEN "allocate" ELSE "sector"
  <2>1. pc \in {"allocate", "sector"}
    OBVIOUS
  <2>2. Saving(op, after, left, size) = [NoCall EXCEPT !.op = op, !.after = after,
                                             !.left = left, !.size = size, !.pc = pc]
    BY DEF Saving
  <2> HIDE DEF pc
  <2> QED BY <2>1, <2>2, NoCallIs DEF Call
<1> QED BY <1>2, <1>3

(* A writer's address is one in the file. *)
LEMMA WriterIsPlaced ==
    ASSUME FileInv, Writing, start # NoBlock
    PROVE  /\ file.head \in Address /\ file.head # NoAddress
           /\ IsTail(file.head) <=> AtTail
           /\ Room(file.head) \in Nat /\ Room(file.head) <= SectorRoom
           /\ Room(file.head) > 0
<1>1. PICK k, path, base, m : IsFile(k, path, base, m)
  BY InvHasFile DEF HasFile
<1>2. /\ k \in Nat /\ k \in 0 .. k /\ path \in [0 .. k -> Blocks]
      /\ m \in Nat /\ m < TailSector
  BY <1>1, FileOnMedium, InvHasFile
<1>3. \/ file.head = At(path[k], m + 1)
      \/ m > 0 /\ file.head = At(path[k], m)
      \/ k > 0 /\ file.head = At(path[k - 1], TailSector)
  BY <1>1 DEF IsFile, FileIs, Appending, Own, Kept, Linked, Crossing
<1>4. file.head \in Address
  <2>1. m + 1 \in 0 .. TailSector /\ m \in 0 .. TailSector /\ TailSector \in 0 .. TailSector
    BY <1>2, Geometry
  <2>2. k > 0 => path[k - 1] \in Blocks
    BY <1>2
  <2> QED BY <1>2, <1>3, <2>1, <2>2 DEF At, Address
<1>5. file.head # NoAddress
  BY <1>4, Geometry DEF Address, NoAddress, At
<1>6. IsTail(file.head) <=> AtTail
  BY <1>5 DEF IsTail, AtTail
<1> QED BY <1>4, <1>5, <1>6, Geometry DEF Room

(* Bytes go to the buffer, or a call begins, ends or is about to write. *)
BytesGoIn(c) ==
    /\ UNCHANGED <<medium, free, client, counters>>
    /\ file' = [file EXCEPT !.pos = @ + c, !.inBlock = @ + c, !.position = @ + c]
    /\ file.pos + c <= Room(file.head)

CallGoesOn(c) ==
    /\ call' \in Call
    /\ \/ call' = NoCall
       \/ /\ call'.pc \in {"fill", "allocate", "sector"}
          /\ call'.op \in {"write", "flush", "close"}
    /\ call'.rest = {}
    /\ file.position + c + call'.left <= MaxPosition
    /\ call'.pc = "fill" \/ call'.after \in {"fill", "fill unless full"}
           => call'.left > 0 /\ call'.op = "write"
    /\ call'.after = "keep" => file.mode = "multiple" /\ call'.op = "write"
    /\ call'.pc \in {"allocate", "sector"} => file.pos + c > 0
    /\ call'.pc = "allocate" => AtTail /\ file.pending = NoGiven
    /\ call'.pc = "sector" /\ AtTail => HasPending

LEMMA SectorsAreNumbers ==
    ASSUME TypeOK, NEW b \in Blocks, NEW s \in Sectors
    PROVE  sectors[b][s].first \in Nat /\ sectors[b][s].bytes \in Nat
<1>1. sectors[b][s] \in Sector
  BY SectorsAreTyped
<1>2. sectors[b][s].bytes \in 0 .. SectorRoom \union {Unused}
  BY <1>1 DEF Sector
<1> QED BY <1>1, <1>2, Geometry, SMTT(30) DEF Sector

LEMMA WriterGoesOn ==
    ASSUME FileInv, Writing, start # NoBlock, call.pc \in {"none", "fill"},
           NEW c \in Nat, BytesGoIn(c), CallGoesOn(c)
    PROVE  FileInv'
<1>1. TypeOK /\ CallOK /\ Filled /\ FormatsBlock /\ FreeIsUnbegun
  BY InvHasFile
<1>2. file \in File
  BY <1>1 DEF TypeOK
<1>3. /\ file'.pos = file.pos + c /\ file'.inBlock = file.inBlock + c
      /\ file'.position = file.position + c
      /\ file'.head = file.head /\ file'.pending = file.pending /\ file'.mode = file.mode
      /\ file' \in File
      /\ file.pos \in Nat /\ file.inBlock \in Nat /\ file.position \in Nat
      /\ file.pos + c <= Room(file.head)
  <2>1. file.pos \in Nat /\ file.inBlock \in Nat /\ file.position \in Nat
    BY <1>2 DEF File
  <2>2. file.pos + c \in Nat /\ file.inBlock + c \in Nat /\ file.position + c \in Nat
    BY <2>1
  <2> QED BY <1>2, <2>1, <2>2 DEF File, BytesGoIn
<1>4. UNCHANGED <<heads, sectors, free, start, whole, life, durable, formats, crashes, faults>>
  BY DEF BytesGoIn, medium, client, counters
<1>5. Writing' /\ (HasPending' <=> HasPending) /\ ~Entering' /\ ~Entering /\ (AtTail' <=> AtTail)
  <2>1. call'.pc \notin {"enter erase", "enter head"}
    BY NoCallIs DEF CallGoesOn
  <2> QED BY <1>3, <2>1 DEF Writing, HasPending, AtTail, Entering
<1>6. TypeOK'
  BY <1>1, <1>3, <1>4 DEF TypeOK, CallGoesOn
<1>7. CallOK'
  <2>1. call'.pc = "none" <=> call' = NoCall
    BY NoCallIs DEF CallGoesOn
  <2> QED BY <1>1, <1>3, <1>4, <1>5, <2>1, NoCallIs DEF CallOK, Idle, Writing, CallGoesOn
<1>8. Filled'
  <2>1. Room(file.head)' = Room(file.head)
    BY <1>3 DEF Room, IsTail
  <2> QED BY <1>1, <1>3, <1>4, <1>5, <2>1, NoCallIs DEF Filled, CallGoesOn
<1>9. FormatsBlock' /\ FreeIsUnbegun'
  BY <1>1, <1>4 DEF FormatsBlock, FreeIsUnbegun
<1>10. HasFile'
  <2>1. PICK k, path, base, m : IsFile(k, path, base, m)
    BY InvHasFile DEF HasFile
  <2>2. /\ IsPath(path, k, start) /\ IsChain(sectors, life, k, path, base, m)
        /\ Size(sectors, k, path, base, m) <= MaxPosition
        /\ durable <= Size(sectors, k, path, base, m)
        /\ Claimed(k, path) /\ AllClaimed(k, path) /\ Appending(k, path, base, m)
        /\ k \in 0 .. NumberOfBlocks - 1 /\ m \in 0 .. TailSector - 1
        /\ path \in [0 .. k -> Blocks] /\ base \in [0 .. k -> 0 .. MaxPosition]
    BY <2>1 DEF IsFile, FileIs
  <2>3. Claimed(k, path)' /\ AllClaimed(k, path)'
    BY <1>3, <1>4, <1>5, <2>2 DEF Claimed, AllClaimed
  <2>4. /\ Size(sectors, k, path, base, m) \in Nat
        /\ \A i \in 0 .. k : base[i] \in Nat /\ sectors[path[i]] \in [Sectors -> Sector]
        /\ k \in Nat /\ m \in Nat /\ m < TailSector /\ k \in 0 .. k
    BY <2>1, <1>1, SizeIs, FileOnMedium
  <2>5. Own(k, path, base, m) <=> Own(k, path, base, m)'
    <3> DEFINE z == Size(sectors, k, path, base, m)
               from == base[k]
    <3>1. from \in Nat /\ z \in Nat
      BY <2>4
    <3>2. Own(k, path, base, m) <=>
              /\ file.head = At(path[k], m + 1) /\ file.position = z + file.pos
              /\ file.inBlock = file.position - from
      BY DEF Own
    <3>3. Own(k, path, base, m)' <=>
              /\ file'.head = At(path[k], m + 1) /\ file'.position = z + file'.pos
              /\ file'.inBlock = file'.position - from
      BY <1>4 DEF Own
    <3> HIDE DEF z, from
    <3> QED BY <1>3, <3>1, <3>2, <3>3
  <2>6. Kept(k, path, base, m) => Kept(k, path, base, m)'
    <3> SUFFICES ASSUME Kept(k, path, base, m) PROVE Kept(k, path, base, m)'
      OBVIOUS
    <3> DEFINE last == sectors[path[k]][m]
    <3>1. m \in Sectors
      BY <2>4, Geometry DEF Kept
    <3>2. base[k] \in Nat /\ path[k] \in Blocks
      BY <2>2, <2>4
    <3>3. last.first \in Nat /\ last.bytes \in Nat
      BY <1>1, <3>1, <3>2, SectorsAreNumbers
    <3>4. last' = last
      BY <1>4
    <3>5. /\ m > 0 /\ file.head = At(path[k], m) /\ file.position = last.first + file.pos
          /\ last.bytes <= file.pos /\ file.inBlock = file.position - base[k]
      BY DEF Kept
    <3> HIDE DEF last
    <3>6. /\ file'.position = last'.first + file'.pos
          /\ last'.bytes <= file'.pos /\ file'.inBlock = file'.position - base[k]
      BY <1>3, <3>2, <3>3, <3>4, <3>5
    <3> QED BY <1>3, <3>5, <3>6 DEF Kept, last
  <2>7. Linked(k, path, base, m) => Linked(k, path, base, m)'
    <3> SUFFICES ASSUME Linked(k, path, base, m) PROVE Linked(k, path, base, m)'
      OBVIOUS
    <3> DEFINE last == sectors[path[k - 1]][TailSector]
    <3>1. k - 1 \in 0 .. k /\ TailSector \in Sectors
      BY <2>4, Geometry DEF Linked
    <3>2. base[k - 1] \in Nat /\ path[k - 1] \in Blocks
      BY <2>2, <2>4, <3>1
    <3>3. last.first \in Nat /\ last.bytes \in Nat
      BY <1>1, <3>1, <3>2, SectorsAreNumbers
    <3>4. last' = last
      BY <1>4
    <3>5. /\ k > 0 /\ m = 0 /\ file.head = At(path[k - 1], TailSector)
          /\ file.position = last.first + file.pos
          /\ file.pending.block = path[k]
          /\ last.bytes <= file.pos /\ file.inBlock = file.position - base[k - 1]
      BY DEF Linked
    <3> HIDE DEF last
    <3>6. /\ file'.position = last'.first + file'.pos
          /\ last'.bytes <= file'.pos /\ file'.inBlock = file'.position - base[k - 1]
      BY <1>3, <3>2, <3>3, <3>4, <3>5
    <3> QED BY <1>3, <3>5, <3>6 DEF Linked, last
  <2>8. HasPending' => PendingIsBegun(k, path, base, m)'
    <3>1. call.pc \notin {"erase", "head"} /\ call'.pc \notin {"erase", "head"}
      BY NoCallIs DEF CallGoesOn
    <3> QED BY <1>3, <1>4, <1>5, <2>2, <2>5, <3>1 DEF Appending, PendingIsBegun
  <2>9. Appending(k, path, base, m)'
    <3>1. \/ Own(k, path, base, m)'
          \/ /\ Kept(k, path, base, m)' \/ Linked(k, path, base, m)'
             /\ faults' = 0 => file'.mode = "multiple"
      BY <1>3, <1>4, <1>5, <2>2, <2>5, <2>6, <2>7 DEF Appending
    <3>2. faults' = 0 /\ HasPending' => Linked(k, path, base, m)'
      BY <1>4, <1>5, <2>2, <2>7 DEF Appending
    <3> HIDE DEF Own, Kept, Linked
    <3> QED BY <1>5, <2>8, <3>1, <3>2 DEF Appending
  <2>10. file'.mode # "read"
    BY <1>3 DEF Writing
  <2>11. IsFile(k, path, base, m)'
    BY <1>4, <2>2, <2>3, <2>9, <2>10 DEF IsFile, FileIs
  <2> QED BY <2>11, FileAgain
<1> QED BY <1>6, <1>7, <1>8, <1>9, <1>10, InvAgain

LEMMA IdleWriterHasFile ==
    ASSUME FileInv, Idle, Writing
    PROVE  start # NoBlock /\ call.pc = "none"
BY InvHasFile, NoCallIs DEF CallOK, Idle

LEMMA FillingWriterHasFile ==
    ASSUME FileInv, Running("fill")
    PROVE  /\ start # NoBlock /\ call.pc = "fill" /\ Writing
           /\ call.left \in Nat /\ call.left > 0 /\ call.size \in Nat
           /\ file.position + call.left <= MaxPosition /\ file.pos <= Room(file.head)
<1>1. call.pc = "fill"
  BY DEF Running
<1>2. call # NoCall
  BY <1>1, NoCallIs
<1>3. Writing /\ start # NoBlock
  BY <1>1, <1>2, InvHasFile DEF CallOK, Idle
<1>4. call \in Call
  BY InvHasFile DEF TypeOK
<1> QED BY <1>1, <1>3, <1>4, InvHasFile DEF Filled, Call

LEMMA NumbersOfFile ==
    ASSUME FileInv
    PROVE  /\ file.pos \in Nat /\ file.position \in Nat /\ file.inBlock \in Nat
           /\ file.avail \in Nat /\ file.offset \in Nat
BY InvHasFile DEF TypeOK, File

(* A call that only begins. *)
LEMMA NoBytesGoIn ==
    ASSUME FileInv, Writing, start # NoBlock,
           UNCHANGED <<medium, free, file, client, counters>>
    PROVE  BytesGoIn(0)
<1>1. file \in File /\ file.pos <= Room(file.head)
  BY InvHasFile DEF TypeOK, Filled
<1>2. /\ file.pos + 0 = file.pos /\ file.inBlock + 0 = file.inBlock
      /\ file.position + 0 = file.position
  BY NumbersOfFile
<1>3. file = [file EXCEPT !.pos = @ + 0, !.inBlock = @ + 0, !.position = @ + 0]
  BY <1>1, <1>2 DEF File
<1> QED BY <1>1, <1>2, <1>3 DEF BytesGoIn

Afters(after, left, op) ==
    /\ after \in {"return", "keep", "fill", "fill unless full"}
    /\ after \in {"fill", "fill unless full"} => left > 0 /\ op = "write"
    /\ after = "keep" => file.mode = "multiple" /\ op = "write"

LEMMA SavingGoesOn ==
    ASSUME FileInv, Writing, start # NoBlock,
           NEW c \in Nat, NEW op \in {"write", "flush", "close"}, NEW after,
           NEW left \in Nat, NEW size \in Nat, Afters(after, left, op),
           call' = Saving(op, after, left, size),
           file.pos + c > 0, file.position + c + left <= MaxPosition
    PROVE  CallGoesOn(c)
<1>1. file.head \in Address
  BY WriterIsPlaced
<1>2. /\ call'.op = op /\ call'.after = after /\ call'.left = left /\ call'.rest = {}
      /\ call'.pc = IF AtTail /\ file.pending = NoGiven THEN "allocate" ELSE "sector"
  BY <1>1, SavingIs
<1>3. call' \in Call
  BY <1>1, CallsAreTyped DEF Afters
<1> QED BY <1>2, <1>3 DEF CallGoesOn, Afters, HasPending

LEMMA FillingGoesOn ==
    ASSUME FileInv, NEW c \in Nat, NEW left \in Nat, NEW size \in Nat, left > 0,
           call' = Filling(left, size), file.position + c + left <= MaxPosition
    PROVE  CallGoesOn(c)
<1>1. /\ call'.op = "write" /\ call'.pc = "fill" /\ call'.left = left /\ call'.rest = {}
      /\ call'.after = "return"
  BY FillingIs
<1>2. call' \in Call
  BY CallsAreTyped
<1> QED BY <1>1, <1>2 DEF CallGoesOn

LEMMA ReturnGoesOn ==
    ASSUME FileInv, NEW c \in Nat, call' = NoCall, file.position + c <= MaxPosition
    PROVE  CallGoesOn(c)
<1>1. file.position + c + 0 = file.position + c
  BY NumbersOfFile
<1> QED BY <1>1, NoCallIs DEF CallGoesOn

LEMMA WriteKeeps ==
    ASSUME FileInv, NEW n \in Sizes, Write(n)
    PROVE  FileInv'
<1>1. /\ Idle /\ Writing /\ n \in Nat /\ n > 0 /\ file.position + n <= MaxPosition
      /\ UNCHANGED <<medium, free, file, client, counters>>
      /\ \/ call' = Saving("write", "fill unless full", n, n) /\ file.pos > 0
         \/ call' = Filling(n, n)
  <2>1. n \in Nat /\ n > 0
    <3>1. Sizes \subseteq Nat \ {0}
      BY WritesAssumption, Zenon
    <3> QED BY <3>1
  <2> QED BY <2>1 DEF Write
<1>2. start # NoBlock /\ call.pc = "none"
  BY <1>1, IdleWriterHasFile
<1>3. BytesGoIn(0)
  BY <1>1, <1>2, NoBytesGoIn
<1>4. file.pos + 0 = file.pos /\ file.position + 0 = file.position
  BY NumbersOfFile
<1>5. Afters("fill unless full", n, "write")
  BY <1>1 DEF Afters
<1>6. CallGoesOn(0)
  <2>1. CASE call' = Saving("write", "fill unless full", n, n) /\ file.pos > 0
    BY <1>1, <1>2, <1>4, <1>5, <2>1, SavingGoesOn
  <2>2. CASE call' = Filling(n, n)
    BY <1>1, <1>4, <2>2, FillingGoesOn
  <2> QED BY <1>1, <2>1, <2>2
<1> QED BY <1>1, <1>2, <1>3, <1>6, WriterGoesOn

LEMMA FlushKeeps ==
    ASSUME FileInv, Flush
    PROVE  FileInv'
<1>1. /\ Idle /\ Writing /\ file.pos > 0
      /\ UNCHANGED <<medium, free, file, client, counters>>
      /\ call' = Saving("flush", "return", 0, 0)
  BY DEF Flush
<1>2. start # NoBlock /\ call.pc = "none"
  BY <1>1, IdleWriterHasFile
<1>3. BytesGoIn(0)
  BY <1>1, <1>2, NoBytesGoIn
<1>4. file.pos + 0 = file.pos /\ file.position + 0 + 0 <= MaxPosition
  BY <1>1, <1>2, InvHasFile, NumbersOfFile, NoCallIs DEF Filled, Idle
<1>5. Afters("return", 0, "flush")
  BY DEF Afters
<1>6. CallGoesOn(0)
  BY <1>1, <1>2, <1>4, <1>5, SavingGoesOn
<1> QED BY <1>1, <1>2, <1>3, <1>6, WriterGoesOn

LEMMA FillFlushesKeeps ==
    ASSUME FileInv, FillFlushes
    PROVE  FileInv'
<1>1. /\ Running("fill") /\ UNCHANGED <<medium, free, file, client, counters>>
      /\ \/ file.pos = 0 /\ call' = call
         \/ /\ file.pos # 0
            /\ call' = Saving("write", IF whole THEN "fill" ELSE "fill unless full",
                              call.left, call.size)
  BY DEF FillFlushes
<1>2. /\ start # NoBlock /\ call.pc = "fill" /\ Writing
      /\ call.left \in Nat /\ call.left > 0 /\ call.size \in Nat
      /\ file.position + call.left <= MaxPosition
  BY <1>1, FillingWriterHasFile
<1>3. BytesGoIn(0)
  BY <1>1, <1>2, NoBytesGoIn
<1>4. file.pos + 0 = file.pos /\ file.position + 0 = file.position /\ file.pos \in Nat
  BY NumbersOfFile
<1>5. CallGoesOn(0)
  <2>1. CASE file.pos = 0 /\ call' = call
    <3>1. call \in Call /\ call.op = "write" /\ call.rest = {}
      BY <1>2, InvHasFile DEF TypeOK, CallOK
    <3>2. call.after = "keep" => file.mode = "multiple"
      BY <1>2, InvHasFile DEF Filled
    <3> QED BY <1>2, <1>4, <2>1, <3>1, <3>2 DEF CallGoesOn
  <2>2. CASE /\ file.pos # 0
             /\ call' = Saving("write", IF whole THEN "fill" ELSE "fill unless full",
                               call.left, call.size)
    <3>1. Afters(IF whole THEN "fill" ELSE "fill unless full", call.left, "write")
      BY <1>2 DEF Afters
    <3>2. file.pos + 0 > 0
      <4>1. file.pos # 0 /\ file.pos \in Nat
        BY <1>4, <2>2
      <4> QED BY <4>1
    <3> QED BY <1>2, <1>4, <2>2, <3>1, <3>2, SavingGoesOn
  <2> QED BY <1>1, <2>1, <2>2
<1> QED BY <1>1, <1>2, <1>3, <1>5, WriterGoesOn

LEMMA FillBufferKeeps ==
    ASSUME FileInv, FillBuffer
    PROVE  FileInv'
<1> DEFINE c == IF call.left < RoomLeft THEN call.left ELSE RoomLeft
           left == call.left - c
<1>1. /\ Running("fill") /\ UNCHANGED <<medium, free, client, counters>>
      /\ file' = [file EXCEPT !.pos = @ + c, !.inBlock = @ + c, !.position = @ + c]
      /\ \/ left > 0 /\ call' = Filling(left, call.size)
         \/ /\ left = 0 /\ file.mode = "multiple"
            /\ call' = Saving("write", "keep", 0, call.size)
         \/ call' = NoCall
  BY DEF FillBuffer
<1>2. /\ start # NoBlock /\ call.pc = "fill" /\ Writing
      /\ call.left \in Nat /\ call.left > 0 /\ call.size \in Nat
      /\ file.position + call.left <= MaxPosition /\ file.pos <= Room(file.head)
  BY <1>1, FillingWriterHasFile
<1>3. file.pos \in Nat /\ file.position \in Nat /\ Room(file.head) \in Nat
  BY <1>2, NumbersOfFile, WriterIsPlaced
<1>4. /\ c \in Nat /\ c <= call.left /\ left \in Nat
      /\ left = 0 => c = call.left
      /\ file.pos + c <= Room(file.head)
      /\ file.position + c + left = file.position + call.left
      /\ file.position + c <= file.position + call.left
  <2>1. RoomLeft \in Nat /\ RoomLeft = Room(file.head) - file.pos
    BY <1>2, <1>3 DEF RoomLeft
  <2> QED BY <1>2, <1>3, <2>1
<1> HIDE DEF c, left
<1>5. BytesGoIn(c)
  BY <1>1, <1>4 DEF BytesGoIn
<1>6. CallGoesOn(c)
  <2>1. CASE left > 0 /\ call' = Filling(left, call.size)
    BY <1>2, <1>4, <2>1, FillingGoesOn
  <2>2. CASE left = 0 /\ file.mode = "multiple" /\ call' = Saving("write", "keep", 0, call.size)
    <3>1. Afters("keep", 0, "write")
      BY <2>2 DEF Afters
    <3>2. file.pos + c > 0 /\ file.position + c + 0 <= MaxPosition
      BY <1>2, <1>3, <1>4, <2>2, Geometry
    <3> QED BY <1>2, <1>4, <2>2, <3>1, <3>2, SavingGoesOn
  <2>3. CASE call' = NoCall
    <3>1. file.position + c <= MaxPosition
      BY <1>2, <1>3, <1>4, Geometry
    <3> QED BY <1>4, <2>3, <3>1, ReturnGoesOn
  <2> QED BY <1>1, <2>1, <2>2, <2>3
<1> QED BY <1>2, <1>4, <1>5, <1>6, WriterGoesOn

-----------------------------------------------------------------------------
(* Files are opened, closed and read between the calls that write. *)

(* An idle file object is replaced by another one over the same file. *)
LEMMA FileMoves ==
    ASSUME FileInv, Idle, start # NoBlock,
           UNCHANGED <<medium, free, call, client, counters>>,
           file' \in File, file'.pending = NoGiven,
           file'.mode = "closed" => file' = Closed,
           NEW k, NEW path, NEW base, NEW m, IsFile(k, path, base, m),
           Writing' => /\ Own(k, path, base, m)' /\ file'.pos = 0
                       /\ Writing \/ durable = 0 \/ crashes = 0,
           file'.mode = "read" => Reading(file', k, path, base, m)
    PROVE  FileInv'
<1>1. TypeOK /\ CallOK /\ Filled /\ FormatsBlock /\ FreeIsUnbegun
  BY InvHasFile
<1>2. UNCHANGED <<heads, sectors, free, call, start, whole, life, durable, formats,
                  crashes, faults>>
  BY DEF medium, client, counters
<1>3. call = NoCall /\ ~Entering /\ ~Entering' /\ call.pc = "none"
  BY <1>2, NoCallIs DEF Idle, Entering
<1>4. ~HasPending'
  BY DEF HasPending
<1>5. /\ k \in 0 .. NumberOfBlocks - 1 /\ m \in 0 .. TailSector - 1
      /\ path \in [0 .. k -> Blocks] /\ base \in [0 .. k -> 0 .. MaxPosition]
      /\ IsPath(path, k, start) /\ IsChain(sectors, life, k, path, base, m)
      /\ Size(sectors, k, path, base, m) <= MaxPosition
      /\ durable <= Size(sectors, k, path, base, m)
      /\ Claimed(k, path) /\ AllClaimed(k, path)
      /\ Writing => Appending(k, path, base, m)
      /\ k \in Nat /\ k \in 0 .. k /\ Size(sectors, k, path, base, m) \in Nat
  BY <1>1, FileOnMedium, SizeIs DEF IsFile, FileIs
<1>6. TypeOK'
  BY <1>1, <1>2 DEF TypeOK
<1>7. CallOK'
  <2>1. Idle' /\ call'.pc = "none" /\ call'.op = "none" /\ call'.rest = {}
    BY <1>2, <1>3, NoCallIs DEF Idle
  <2>2. start' # NoBlock
    BY <1>2
  <2> QED BY <2>1, <2>2 DEF CallOK
<1>8. Filled'
  <2> SUFFICES ASSUME Writing' PROVE Filled'
    BY DEF Filled
  <2>1. call' = NoCall
    BY <1>2, <1>3
  <2>2. file'.position = Size(sectors, k, path, base, m) + 0
    BY <1>2 DEF Own
  <2>3. file'.position + 0 <= MaxPosition
    BY <1>5, <2>2, Geometry
  <2>4. 0 <= Room(file.head)'
    BY Geometry DEF Room
  <2> QED BY <2>1, <2>3, <2>4, NoCallIs DEF Filled
<1>9. FormatsBlock' /\ FreeIsUnbegun'
  BY <1>1, <1>2 DEF FormatsBlock, FreeIsUnbegun
<1>10. AllClaimed(k, path)'
  <2> SUFFICES ASSUME crashes + faults = 0 PROVE AllClaimed(k, path)'
    BY <1>2 DEF AllClaimed
  <2>1. HasPending => file.pending.block = path[k]
    <3> SUFFICES ASSUME HasPending PROVE file.pending.block = path[k]
      OBVIOUS
    <3>1. Writing
      BY <1>1 DEF CallOK, HasPending
    <3>2. faults = 0
      BY <1>1, BoundsAssumption DEF TypeOK
    <3> QED BY <1>3, <1>5, <3>1, <3>2 DEF Appending, Linked
  <2>2. \A b \in Blocks : b \notin free <=> \E i \in 0 .. k : b = path[i]
    BY <1>5, <2>1 DEF AllClaimed
  <2> QED BY <1>2, <1>4, <2>2 DEF AllClaimed
<1>11. Claimed(k, path)'
  BY <1>2, <1>3, <1>5 DEF Claimed
<1>12. Writing' => Appending(k, path, base, m)'
  BY <1>3, <1>4 DEF Appending
<1>13. file'.mode = "read" => Reading(file, k, path, base, m)'
  BY <1>2 DEF Reading
<1>14. IsFile(k, path, base, m)'
  BY <1>2, <1>5, <1>10, <1>11, <1>12, <1>13 DEF IsFile, FileIs
<1>15. HasFile'
  BY <1>14, FileAgain
<1> QED BY <1>6, <1>7, <1>8, <1>9, <1>15, InvAgain

LEMMA ClosedIs ==
    /\ Closed \in File /\ Closed.mode = "closed" /\ Closed.pending = NoGiven
    /\ Closed.pos = 0 /\ Closed.position = 0 /\ Closed.avail = 0 /\ Closed.offset = 0
    /\ Unwritten \in Sector
<1>1. Unwritten \in Sector
  BY BoundsAssumption DEF Unwritten, Sector
<1>2. NoGiven \in Given
  BY DEF NoGiven, Given
<1> QED BY <1>1, <1>2 DEF Closed, File

LEMMA CloseKeeps ==
    ASSUME FileInv, Close
    PROVE  FileInv'
<1>1. Idle /\ file.mode # "closed" /\ UNCHANGED <<medium, free, client, counters>>
  BY DEF Close
<1>2. start # NoBlock
  BY <1>1, InvHasFile, NoCallIs DEF CallOK, Idle
<1>3. CASE Writing /\ file.pos > 0
  <2>1. call' = Saving("close", "return", 0, 0) /\ UNCHANGED file
    BY <1>3 DEF Close
  <2>2. BytesGoIn(0)
    BY <1>1, <1>2, <1>3, <2>1, NoBytesGoIn
  <2>3. file.pos + 0 = file.pos /\ file.position + 0 + 0 <= MaxPosition
    BY <1>1, <1>2, <1>3, InvHasFile, NumbersOfFile, NoCallIs DEF Filled, Idle
  <2>4. Afters("return", 0, "close")
    BY DEF Afters
  <2>5. CallGoesOn(0)
    BY <1>2, <1>3, <2>1, <2>3, <2>4, SavingGoesOn
  <2>6. call.pc = "none"
    BY <1>1, NoCallIs DEF Idle
  <2> QED BY <1>2, <1>3, <2>2, <2>5, <2>6, WriterGoesOn
<1>4. CASE ~(Writing /\ file.pos > 0)
  <2>1. file' = Closed /\ UNCHANGED <<medium, free, call, client, counters>>
    BY <1>1, <1>4 DEF Close
  <2>2. ~Writing' /\ file'.mode # "read"
    BY <2>1, ClosedIs DEF Writing
  <2>3. PICK k, path, base, m : IsFile(k, path, base, m)
    BY <1>2, InvHasFile DEF HasFile
  <2> QED BY <1>1, <1>2, <2>1, <2>2, <2>3, ClosedIs, FileMoves
<1> QED BY <1>3, <1>4

(* The object after a seek to the end of the file, or past every file. *)
LEMMA SoughtEnd ==
    ASSUME TypeOK, NEW k, NEW path, NEW base, NEW m, IsFile(k, path, base, m),
           NEW f \in File, NEW p \in Nat,
           \/ p = Size(sectors, k, path, base, m)
           \/ p >= Size(sectors, k, path, base, m) + Unused
    PROVE  /\ Sought(f, p) \in File
           /\ Sought(f, p).mode = f.mode /\ Sought(f, p).pending = f.pending
           /\ Sought(f, p).pos = f.pos /\ Sought(f, p).avail = f.avail
           /\ Sought(f, p).head = At(path[k], m + 1) /\ Sought(f, p).head \in Address
           /\ Sought(f, p).offset = 0
           /\ Sought(f, p).position = Size(sectors, k, path, base, m)
           /\ Sought(f, p).inBlock = Size(sectors, k, path, base, m) - base[k]
<1> DEFINE z == Size(sectors, k, path, base, m)
<1>1. /\ sectors \in [Blocks -> [Sectors -> Sector]]
      /\ path[0] = start /\ IsChain(sectors, life, k, path, base, m)
      /\ k \in 0 .. NumberOfBlocks - 1 /\ m \in 0 .. TailSector - 1
      /\ path \in [0 .. k -> Blocks] /\ base \in [0 .. k -> 0 .. MaxPosition]
      /\ k \in 0 .. k /\ m \in Nat /\ m < TailSector /\ base[k] \in Nat
  BY FileOnMedium, Geometry DEF IsFile
<1>2. z \in Nat /\ base[k] <= z
  BY SizeIs
<1>3. /\ SeekFrom(start, p) = [head |-> At(path[k], m + 1), offset |-> 0, bytes |-> z,
                               inBlock |-> z - base[k]]
      /\ sectors[path[k]][m + 1] = Unwritten
  BY <1>1, SeekPast
<1> HIDE DEF z
<1>4. At(path[k], m + 1) \in Address /\ At(path[k], m + 1) # NoAddress
  <2>1. path[k] \in Blocks /\ m + 1 \in 0 .. TailSector
    BY <1>1, Geometry
  <2> QED BY <2>1, Geometry DEF At, Address, NoAddress
<1>5. At(path[k], m + 1).block = path[k] /\ At(path[k], m + 1).sector = m + 1
  BY DEF At
<1>6. z - base[k] \in Nat
  BY <1>1, <1>2
<1> DEFINE info == SeekFrom(start, p)
<1>7. /\ info.head = At(path[k], m + 1) /\ info.offset = 0 /\ info.bytes = z
      /\ info.inBlock = z - base[k]
      /\ sectors[info.head.block][info.head.sector] = Unwritten
  BY <1>3, <1>5
<1>8. Unwritten \in Sector
  BY ClosedIs
<1> DEFINE g == Sought(f, p)
           at == At(path[k], m + 1)
           into == z - base[k]
<1>9. g = [f EXCEPT !.head = info.head,
                    !.buffer = sectors[info.head.block][info.head.sector],
                    !.offset = info.offset, !.inBlock = info.inBlock,
                    !.position = info.bytes]
  BY DEF Sought
<1> HIDE DEF info, g, at, into
<1>10. g = [f EXCEPT !.head = at, !.buffer = Unwritten, !.offset = 0, !.inBlock = into,
                     !.position = z]
  BY <1>7, <1>9 DEF at, into
<1>11. into \in Nat /\ at \in Address
  BY <1>4, <1>6 DEF at, into
<1>12. /\ g \in File
       /\ g.mode = f.mode /\ g.pending = f.pending /\ g.pos = f.pos /\ g.avail = f.avail
       /\ g.head = at /\ g.offset = 0 /\ g.position = z /\ g.inBlock = into
  BY <1>2, <1>8, <1>10, <1>11 DEF File
<1> QED BY <1>4, <1>12 DEF z, g, at, into

LEMMA OpenToWriteKeeps ==
    ASSUME FileInv, InPool, NEW mode \in Modes, OpenToWrite(mode)
    PROVE  FileInv'
<1> DEFINE opened == [Closed EXCEPT !.mode = mode]
<1>1. /\ Idle /\ file.mode = "closed" /\ start # NoBlock
      /\ durable = 0 \/ crashes = 0
      /\ file' = Sought(opened, End)
      /\ UNCHANGED <<medium, free, call, client, counters>>
  BY DEF OpenToWrite, InPool
<1>2. /\ opened \in File /\ opened.mode \in {"write", "multiple"}
      /\ opened.pending = NoGiven /\ opened.pos = 0
  <2>1. mode \in {"write", "multiple"}
    BY WritesAssumption
  <2> QED BY <2>1, ClosedIs DEF File
<1>3. PICK k, path, base, m : IsFile(k, path, base, m)
  BY <1>1, InvHasFile DEF HasFile
<1> HIDE DEF opened
<1>4. TypeOK /\ Size(sectors, k, path, base, m) \in Nat
      /\ Size(sectors, k, path, base, m) <= MaxPosition
  BY <1>3, InvHasFile, SizeIs DEF IsFile, FileIs
<1>5. End \in Nat /\ End >= Size(sectors, k, path, base, m) + Unused
  BY <1>4, Geometry
<1>6. /\ file' \in File /\ file'.mode = opened.mode /\ file'.pending = NoGiven
      /\ file'.pos = 0 /\ file'.head = At(path[k], m + 1)
      /\ file'.position = Size(sectors, k, path, base, m)
      /\ file'.inBlock = Size(sectors, k, path, base, m) - base[k]
  BY <1>1, <1>2, <1>3, <1>4, <1>5, SoughtEnd
<1>7. Own(k, path, base, m)'
  <2>1. sectors' = sectors
    BY <1>1 DEF medium
  <2>2. file'.position = Size(sectors, k, path, base, m) + file'.pos
    BY <1>4, <1>6
  <2> QED BY <1>6, <2>1, <2>2 DEF Own
<1>8. file'.mode # "closed" /\ file'.mode # "read"
  BY <1>2, <1>6
<1> QED BY <1>1, <1>3, <1>6, <1>7, <1>8, FileMoves

LEMMA OpenToReadKeeps ==
    ASSUME FileInv, InPool, OpenToRead
    PROVE  FileInv'
<1> DEFINE f == [Closed EXCEPT !.mode = "read", !.head = At(start, 0)]
<1>1. /\ Idle /\ file.mode = "closed" /\ start # NoBlock /\ file' = f
      /\ UNCHANGED <<medium, free, call, client, counters>>
  BY DEF OpenToRead, InPool
<1>2. PICK k, path, base, m : IsFile(k, path, base, m)
  BY <1>1, InvHasFile DEF HasFile
<1>3. /\ TypeOK /\ 0 \in 0 .. k /\ path[0] = start /\ base[0] = 0 /\ start \in Blocks
  BY <1>1, <1>2, InvHasFile, FileOnMedium DEF TypeOK
<1>4. At(start, 0) \in Address /\ At(start, 0) # NoAddress
      /\ At(start, 0).block = start /\ At(start, 0).sector = 0
  BY <1>1, <1>3, Geometry DEF At, NoAddress, Address
<1>5. /\ f \in File /\ f.mode = "read" /\ f.pending = NoGiven /\ f.head = At(start, 0)
      /\ f.pos = 0 /\ f.avail = 0 /\ f.offset = 0 /\ f.position = 0
  BY <1>4, ClosedIs DEF File
<1> HIDE DEF f
<1>6. StartOf(sectors, k, path, base, m, 0, 1) = 0
  <2>1. 1 \in Sectors /\ 1 <= WrittenIn(k, m, 0) + 1 /\ 1 - 1 = 0
    <3>1. WrittenIn(k, m, 0) \in Nat
      BY <1>2, <1>3, FileIsWritten, Geometry
    <3> QED BY <3>1, Geometry
  <2>2. StartOf(sectors, k, path, base, m, 0, 1) = Ends(sectors[path[0]], base[0], 1 - 1)
    BY <1>2, <1>3, <2>1, StartIsEnd
  <2> QED BY <1>3, <2>1, <2>2 DEF Ends
<1>7. Reading(f, k, path, base, m)
  BY <1>3, <1>4, <1>5, <1>6 DEF Reading
<1>8. ~Writing' /\ file'.mode # "closed"
  BY <1>1, <1>5 DEF Writing
<1> QED BY <1>1, <1>2, <1>5, <1>7, <1>8, FileMoves

LEMMA ReaderHasFile ==
    ASSUME FileInv, file.mode = "read"
    PROVE  start # NoBlock /\ file.pending = NoGiven
BY InvHasFile DEF CallOK, Writing

(* A byte that is sought is the next one that is read. *)
LEMMA SoughtIsNext ==
    ASSUME TypeOK, file.mode = "read", file.pos = file.avail,
           NEW k, NEW path, NEW base, NEW m, IsFile(k, path, base, m),
           NEW p \in Nat, p < Size(sectors, k, path, base, m)
    PROVE  /\ Sought(file, p) \in File
           /\ Sought(file, p).mode = file.mode /\ Sought(file, p).pending = file.pending
           /\ Reading(Sought(file, p), k, path, base, m)
<1>1. /\ sectors \in [Blocks -> [Sectors -> Sector]]
      /\ path[0] = start /\ IsChain(sectors, life, k, path, base, m)
      /\ k \in 0 .. NumberOfBlocks - 1 /\ m \in 0 .. TailSector - 1
      /\ path \in [0 .. k -> Blocks] /\ base \in [0 .. k -> 0 .. MaxPosition]
      /\ \A i \in 0 .. k : base[i] \in Nat
      /\ k \in Nat /\ m \in Nat /\ m < TailSector
  BY FileOnMedium, Geometry, SMTT(30) DEF IsFile
<1>2. PICK i \in 0 .. k, s \in Sectors :
               /\ s <= WrittenIn(k, m, i) /\ base[i] <= p
               /\ sectors[path[i]][s].first <= p
               /\ p < sectors[path[i]][s].first + sectors[path[i]][s].bytes
               /\ SeekFrom(start, p) =
                      [head |-> At(path[i], s),
                       offset |-> p - sectors[path[i]][s].first,
                       bytes |-> p, inBlock |-> p - base[i]]
  BY <1>1, SeekInside
<1> DEFINE sector == sectors[path[i]][s]
           at == At(path[i], s)
           into == p - sector.first
           before == p - base[i]
           g == Sought(file, p)
<1>3. /\ sector \in Sector /\ sector.first \in Nat /\ sector.bytes \in Nat
      /\ path[i] \in Blocks /\ s \in 0 .. TailSector /\ s # 0
  <2>1. path[i] \in Blocks
    BY <1>1
  <2>2. sector.first \in Nat /\ sector.bytes \in Nat
    BY <2>1, SectorsAreNumbers
  <2> QED BY <1>1, <2>1, <2>2, Geometry
<1>4. into \in Nat /\ before \in Nat /\ into < sector.bytes /\ sector.first + into = p
  <2> HIDE DEF sector
  <2>1. sector.first <= p /\ p < sector.first + sector.bytes /\ base[i] <= p
    BY <1>2 DEF sector
  <2> QED BY <1>1, <1>3, <2>1, SMTT(30)
<1>5. at \in Address /\ at # NoAddress /\ at.block = path[i] /\ at.sector = s
  BY <1>3, Geometry DEF At, Address, NoAddress
<1> DEFINE info == SeekFrom(start, p)
<1>6. /\ info.head = at /\ info.offset = into /\ info.bytes = p /\ info.inBlock = before
      /\ sectors[info.head.block][info.head.sector] = sector
  BY <1>2, <1>5
<1>7. g = [file EXCEPT !.head = info.head,
                       !.buffer = sectors[info.head.block][info.head.sector],
                       !.offset = info.offset, !.inBlock = info.inBlock,
                       !.position = info.bytes]
  BY DEF Sought
<1>8. i < k \/ s <= m
  BY <1>1, <1>2 DEF WrittenIn
<1>9. StartOf(sectors, k, path, base, m, i, s) = sector.first
  BY <1>8 DEF StartOf
<1> HIDE DEF info, g, at, into, before, sector
<1>10. g = [file EXCEPT !.head = at, !.buffer = sector, !.offset = into,
                        !.inBlock = before, !.position = p]
  BY <1>6, <1>7
<1>11. file \in File
  BY DEF TypeOK
<1>12. /\ g \in File /\ g.mode = file.mode /\ g.pending = file.pending
       /\ g.pos = file.pos /\ g.avail = file.avail /\ g.head = at /\ g.offset = into
       /\ g.position = p
  BY <1>3, <1>4, <1>5, <1>10, <1>11 DEF File
<1>13. g.position + (g.avail - g.pos) = sector.first + g.offset
  <2>1. file.pos \in Nat /\ file.avail \in Nat
    BY <1>11 DEF File
  <2> QED BY <1>3, <1>4, <1>12, <2>1
<1>14. g.offset < sectors[path[i]][s].bytes
  BY <1>4, <1>12 DEF sector
<1>15. g.pos <= g.avail /\ ~(g.pos < g.avail)
  <2>1. g.pos = g.avail /\ g.pos \in Nat
    BY <1>11, <1>12 DEF File
  <2> QED BY <2>1
<1>16. Reading(g, k, path, base, m)
  <2>1. (IF g.head.sector = 0 THEN 1 ELSE g.head.sector) = s
    BY <1>3, <1>5, <1>12
  <2> QED BY <1>3, <1>5, <1>8, <1>9, <1>12, <1>13, <1>14, <1>15, <2>1 DEF Reading
<1> QED BY <1>12, <1>16 DEF g

LEMMA SeekKeeps ==
    ASSUME FileInv, InPool, NEW desired, Seek(desired)
    PROVE  FileInv'
<1>1. /\ Idle /\ file.mode = "read" /\ file.pos = file.avail
      /\ desired \in 0 .. FileSize /\ file' = Sought(file, desired)
      /\ UNCHANGED <<medium, free, call, client, counters>>
  BY DEF Seek, InPool
<1>2. start # NoBlock /\ file.pending = NoGiven
  BY <1>1, ReaderHasFile
<1>3. PICK k, path, base, m : IsFile(k, path, base, m)
  BY <1>2, InvHasFile DEF HasFile
<1> DEFINE z == Size(sectors, k, path, base, m)
<1>4. TypeOK /\ FileSize = z /\ z \in Nat /\ file \in File
  BY <1>3, InvHasFile, SizeIs DEF TypeOK
<1>5. /\ Sought(file, desired) \in File
      /\ Sought(file, desired).mode = "read" /\ Sought(file, desired).pending = NoGiven
      /\ Reading(Sought(file, desired), k, path, base, m)
  <2> DEFINE g == Sought(file, desired)
  <2>1. CASE desired = z
    <3> HIDE DEF z
    <3>1. /\ g \in File /\ g.mode = file.mode /\ g.pending = file.pending
          /\ g.pos = file.pos /\ g.avail = file.avail
          /\ g.head = At(path[k], m + 1) /\ g.head \in Address
          /\ g.offset = 0 /\ g.position = z
      <4>1. desired \in Nat
        BY <1>4, <2>1
      <4> QED BY <1>3, <1>4, <2>1, <4>1, SoughtEnd DEF z
    <3>2. g.head # NoAddress /\ g.head.block = path[k] /\ g.head.sector = m + 1
      BY <3>1, Geometry DEF Address, NoAddress, At
    <3>3. m \in Nat /\ k \in Nat /\ k \in 0 .. k
      BY <1>3, <1>4, FileOnMedium
    <3>4. StartOf(sectors, k, path, base, m, k, m + 1) = z
      BY <3>3 DEF StartOf, z
    <3>5. g.pos = g.avail /\ g.pos \in Nat /\ g.avail \in Nat
      BY <1>1, <1>4, <3>1 DEF File
    <3> HIDE DEF g
    <3>6. g.position + (g.avail - g.pos) = z + g.offset
      BY <1>4, <3>1, <3>5
    <3>7. (IF g.head.sector = 0 THEN 1 ELSE g.head.sector) = m + 1 /\ g.head.sector # 0
      BY <3>2, <3>3
    <3>8. Reading(g, k, path, base, m)
      BY <3>1, <3>2, <3>3, <3>4, <3>5, <3>6, <3>7 DEF Reading
    <3> QED BY <1>1, <1>2, <3>1, <3>8 DEF g
  <2>2. CASE desired # z
    <3>1. desired \in Nat /\ desired < z
      BY <1>1, <1>4, <2>2
    <3> QED BY <1>1, <1>2, <1>3, <1>4, <3>1, SoughtIsNext
  <2> QED BY <2>1, <2>2
<1>6. ~Writing' /\ file'.mode # "closed"
  BY <1>1, <1>5 DEF Writing
<1> HIDE DEF z
<1> QED BY <1>1, <1>2, <1>3, <1>5, <1>6, FileMoves

LEMMA ReadKeeps ==
    ASSUME FileInv, NEW n \in Sizes, Read(n)
    PROVE  FileInv'
<1> DEFINE remaining == Loaded.avail - Loaded.pos
           c == IF remaining > n THEN n ELSE remaining
<1>1. /\ Idle /\ file.mode = "read"
      /\ file' = [Loaded EXCEPT !.pos = @ + c, !.position = @ + c]
      /\ UNCHANGED <<medium, free, call, client, counters>>
  BY DEF Read
<1>2. start # NoBlock /\ file.pending = NoGiven
  BY <1>1, ReaderHasFile
<1>3. PICK k, path, base, m : IsFile(k, path, base, m)
  BY <1>2, InvHasFile DEF HasFile
<1>4. TypeOK /\ Reading(file, k, path, base, m)
  BY <1>1, <1>3, InvHasFile DEF IsFile, FileIs
<1>5. /\ Loaded \in File /\ Loaded.mode = "read" /\ Loaded.pending = NoGiven
      /\ Reading(Loaded, k, path, base, m)
  BY <1>1, <1>2, <1>3, <1>4, LoadedIs
<1>6. n \in Nat
  <2>1. Sizes \subseteq Nat \ {0}
    BY WritesAssumption, Zenon
  <2> QED BY <2>1
<1> DEFINE L == Loaded
           f == [L EXCEPT !.pos = @ + c, !.position = @ + c]
<1> HIDE DEF L
<1>7. L \in File /\ Reading(L, k, path, base, m) /\ L.mode = "read" /\ L.pending = NoGiven
  BY <1>5 DEF L
<1>8. L.pos \in Nat /\ L.avail \in Nat /\ L.position \in Nat /\ L.pos <= L.avail
  BY <1>7 DEF File, Reading
<1>9. c \in Nat /\ L.pos + c <= L.avail
  <2>1. remaining = L.avail - L.pos
    BY DEF L
  <2> HIDE DEF remaining
  <2> QED BY <1>6, <1>8, <2>1
<1> HIDE DEF c
<1>10. /\ f \in File /\ f.pos = L.pos + c /\ f.position = L.position + c
       /\ f.mode = "read" /\ f.pending = NoGiven /\ f.head = L.head
       /\ f.buffer = L.buffer /\ f.avail = L.avail /\ f.offset = L.offset
  <2>1. L.pos + c \in Nat /\ L.position + c \in Nat
    BY <1>8, <1>9
  <2> QED BY <1>7, <2>1 DEF File
<1> HIDE DEF f
<1>11. /\ f.position + (f.avail - f.pos) = L.position + (L.avail - L.pos)
       /\ f.pos <= f.avail
       /\ f.pos < f.avail => L.pos < L.avail
       /\ \A x \in Nat : x + L.pos = L.position => x + f.pos = f.position
  BY <1>8, <1>9, <1>10
<1>12. L.buffer.first \in Nat
  BY <1>7 DEF File, Sector
<1>13. Reading(f, k, path, base, m)
  BY <1>7, <1>10, <1>11, <1>12 DEF Reading
<1>14. file' = f
  BY <1>1 DEF f, L
<1>15. ~Writing' /\ file'.mode # "closed"
  BY <1>10, <1>14 DEF Writing
<1> QED BY <1>1, <1>2, <1>3, <1>10, <1>13, <1>14, <1>15, FileMoves

-----------------------------------------------------------------------------
(* Memory is lost. *)

SameBlocks(ss, tt, k, path) == \A i \in 0 .. k : tt[path[i]] = ss[path[i]]

(* A chain is only as much as its blocks. *)
LEMMA SameChain ==
    ASSUME NEW was, NEW now, NEW l, NEW k \in Nat, NEW path, NEW base, NEW m,
           IsChain(was, l, k, path, base, m),
           SameBlocks(was, now, k, path)
    PROVE  /\ IsChain(now, l, k, path, base, m)
           /\ Size(now, k, path, base, m) = Size(was, k, path, base, m)
<1>1. now[path[k]] = was[path[k]]
  BY DEF SameBlocks
<1>2. \A i \in 0 .. k - 1 : now[path[i]] = was[path[i]]
  BY DEF SameBlocks
<1> QED BY <1>1, <1>2 DEF IsChain, Size

LEMMA NothingWrong ==
    ASSUME NEW x \in Nat, NEW y \in Nat, x + y = 0 PROVE x = 0 /\ y = 0 /\ ~(x > 0)
OBVIOUS

(* What is left of a file. *)
Survives(hs, ss, k, path) ==
    /\ SameBlocks(sectors, ss, k, path)
    /\ durable = 0 => \A i \in 0 .. k : hs[path[i]] = "file"

FileSurvives(hs, ss) ==
    \A k, path, base, m : IsFile(k, path, base, m) => Survives(hs, ss, k, path)

LEMMA ResetToKeeps ==
    ASSUME FileInv,
           NEW hs \in [Blocks -> {"none", "free", "file"}],
           NEW ss \in [Blocks -> [Sectors -> Sector]],
           ResetTo(hs, ss),
           crashes' \in 0 .. MaxCrashes, UNCHANGED <<formats, faults>>,
           \/ crashes' > 0
           \/ call.pc = "allocate" /\ hs = heads /\ crashes' = crashes,
           FileSurvives(hs, ss)
    PROVE  FileInv'
<1>1. TypeOK /\ CallOK /\ Filled /\ FormatsBlock /\ FreeIsUnbegun
  BY InvHasFile
<1>2. /\ heads' = hs /\ sectors' = ss /\ free' = {b \in Blocks : hs[b] # "file"}
      /\ file' = Closed /\ call' = NoCall
      /\ UNCHANGED <<start, whole, life, durable, formats, faults>>
  BY DEF ResetTo, client
<1>3. TypeOK'
  BY <1>1, <1>2, ClosedIs, NoCallIs DEF TypeOK
<1>4. ~Writing' /\ Idle' /\ ~HasPending' /\ ~Entering'
  BY <1>2, ClosedIs, NoCallIs DEF Writing, Idle, HasPending, Entering
<1>5. CallOK' /\ Filled'
  BY <1>2, <1>4, ClosedIs, NoCallIs DEF CallOK, Filled
<1>6. FreeIsUnbegun'
  BY <1>2 DEF FreeIsUnbegun
<1>7. crashes' + faults' = 0 => /\ call.pc = "allocate" /\ hs = heads
                                /\ crashes + faults = 0 /\ ~Entering /\ call.rest = {}
  <2> SUFFICES ASSUME crashes' + faults' = 0
               PROVE  /\ call.pc = "allocate" /\ hs = heads
                      /\ crashes + faults = 0 /\ ~Entering /\ call.rest = {}
    OBVIOUS
  <2>1. faults' \in Nat /\ crashes' \in Nat
    <3>1. faults \in Nat /\ faults' = faults
      BY <1>1, <1>2, BoundsAssumption DEF TypeOK
    <3>2. crashes' \in 0 .. MaxCrashes /\ MaxCrashes \in Nat
      BY BoundsAssumption
    <3> QED BY <3>1, <3>2
  <2>2. ~(crashes' > 0)
    BY <2>1, NothingWrong
  <2>3. call.pc = "allocate" /\ hs = heads /\ crashes' = crashes
    BY <2>2
  <2> QED BY <1>1, <1>2, <2>3 DEF Entering, CallOK
<1>8. FormatsBlock'
  <2>1. ASSUME start = NoBlock, crashes' + faults' = 0, NEW b \in Blocks
        PROVE  b \in free'
    <3>1. b \in free
      BY <1>1, <1>7, <2>1 DEF FormatsBlock
    <3> QED BY <1>1, <1>2, <1>7, <2>1, <3>1 DEF FreeIsUnbegun
  <2> QED BY <1>2, <1>4, <2>1, ClosedIs, NoCallIs DEF FormatsBlock
<1>9. HasFile'
  <2> SUFFICES ASSUME start # NoBlock PROVE HasFile'
    BY <1>2 DEF HasFile
  <2>1. PICK k, path, base, m : IsFile(k, path, base, m)
    BY InvHasFile DEF HasFile
  <2>2. Survives(hs, ss, k, path)
    BY <2>1 DEF FileSurvives
  <2>3. /\ k \in 0 .. NumberOfBlocks - 1 /\ m \in 0 .. TailSector - 1
        /\ path \in [0 .. k -> Blocks] /\ base \in [0 .. k -> 0 .. MaxPosition]
        /\ IsPath(path, k, start) /\ IsChain(sectors, life, k, path, base, m)
        /\ Size(sectors, k, path, base, m) <= MaxPosition
        /\ durable <= Size(sectors, k, path, base, m)
        /\ Claimed(k, path) /\ AllClaimed(k, path) /\ k \in Nat
    BY <2>1, <1>1, FileOnMedium DEF IsFile, FileIs
  <2>4. /\ IsChain(ss, life, k, path, base, m)
        /\ Size(ss, k, path, base, m) = Size(sectors, k, path, base, m)
    <3>1. SameBlocks(sectors, ss, k, path)
      BY <2>2 DEF Survives
    <3>2. k \in Nat /\ IsChain(sectors, life, k, path, base, m)
      BY <2>3
    <3>3. IsChain(ss, life, k, path, base, m)
      BY <3>1, <3>2, SameChain
    <3>4. Size(ss, k, path, base, m) = Size(sectors, k, path, base, m)
      <4>1. ss[path[k]] = sectors[path[k]]
        BY <3>1, <3>2 DEF SameBlocks
      <4> QED BY <4>1 DEF Size
    <3> QED BY <3>3, <3>4
  <2>5. ASSUME crashes' = 0 PROVE \A i \in 0 .. k : hs[path[i]] = "file"
    <3>1. crashes = 0 /\ ~Entering /\ hs = heads
      <4>1. ~(crashes' > 0)
        BY <2>5
      <4>2. call.pc = "allocate" /\ hs = heads /\ crashes' = crashes
        BY <4>1
      <4> QED BY <2>5, <4>2 DEF Entering
    <3> QED BY <2>3, <3>1 DEF Claimed
  <2>6. Claimed(k, path)'
    <3> SUFFICES ASSUME durable = 0 \/ crashes' = 0, NEW i \in 0 .. k
                 PROVE  path[i] \notin free' /\ hs[path[i]] = "file"
      BY <1>2, <1>4 DEF Claimed
    <3>1. hs[path[i]] = "file"
      BY <2>2, <2>5 DEF Survives
    <3> QED BY <1>2, <3>1
  <2>7. AllClaimed(k, path)'
    <3> SUFFICES ASSUME crashes' + faults' = 0, NEW b \in Blocks
                 PROVE  b \notin free' <=> \E i \in 0 .. k : b = path[i]
      BY <1>2, <1>4 DEF AllClaimed
    <3>1. start = NoBlock \/ ~HasPending
      <4>1. Writing
        BY <1>1, <1>7, NoCallIs DEF CallOK, Idle
      <4> QED BY <1>1, <1>7, <4>1 DEF Filled, HasPending
    <3>2. b \notin free <=> \E i \in 0 .. k : b = path[i]
      BY <1>7, <2>3, <3>1 DEF AllClaimed
    <3>3. b \in free => heads[b] # "file"
      BY <1>1 DEF FreeIsUnbegun
    <3>4. \A i \in 0 .. k : heads[path[i]] = "file"
      <4>1. crashes' = 0
        <5>1. faults \in Nat /\ faults' = faults
          BY <1>1, <1>2, BoundsAssumption DEF TypeOK
        <5>2. crashes' \in 0 .. MaxCrashes /\ MaxCrashes \in Nat
          BY BoundsAssumption
        <5>3. faults' \in Nat /\ crashes' \in Nat
          BY <5>1, <5>2
        <5> QED BY <5>3, NothingWrong
      <4> QED BY <1>7, <2>5, <4>1
    <3> QED BY <1>2, <1>7, <3>2, <3>3, <3>4
  <2>8. IsFile(k, path, base, m)'
    <3>1. ~Writing' /\ file'.mode # "read"
      BY <1>2, <1>4, ClosedIs
    <3> QED BY <1>2, <2>3, <2>4, <2>6, <2>7, <3>1 DEF IsFile, FileIs
  <2> QED BY <2>8, FileAgain
<1> QED BY <1>3, <1>5, <1>6, <1>8, <1>9, InvAgain

(* As long as nothing was reported as written every block of the file has a *)
(* head: only a full block is followed by one that is begun again.          *)
LEMMA EmptyFileIsBegun ==
    ASSUME FileInv, NEW k, NEW path, NEW base, NEW m, IsFile(k, path, base, m),
           durable = 0
    PROVE  \A i \in 0 .. k : heads[path[i]] = "file"
<1>1. ~Entering
  <2> SUFFICES ASSUME Entering PROVE FALSE
    OBVIOUS
  <2>1. Writing
    BY InvHasFile, NoCallIs DEF Entering, CallOK, Idle
  <2>2. Crossing(k, path, base, m)
    BY <2>1 DEF IsFile, FileIs, Appending
  <2> QED BY <2>2 DEF Crossing
<1> QED BY <1>1 DEF IsFile, FileIs, Claimed

LEMMA ResetKeeps ==
    ASSUME FileInv, Reset, crashes' \in 0 .. MaxCrashes, UNCHANGED <<formats, faults>>,
           crashes' > 0 \/ (call.pc = "allocate" /\ crashes' = crashes)
    PROVE  FileInv'
<1>1. ResetTo(heads, sectors)
  BY DEF Reset
<1>2. /\ heads \in [Blocks -> {"none", "free", "file"}]
      /\ sectors \in [Blocks -> [Sectors -> Sector]]
  BY InvHasFile DEF TypeOK
<1>3. ASSUME NEW k, NEW path, NEW base, NEW m, IsFile(k, path, base, m)
      PROVE  Survives(heads, sectors, k, path)
  BY <1>3, EmptyFileIsBegun DEF Survives, SameBlocks
<1>4. FileSurvives(heads, sectors)
  BY <1>3 DEF FileSurvives
<1> QED BY <1>1, <1>2, <1>4, ResetToKeeps

LEMMA OutOfBlocksKeeps ==
    ASSUME FileInv, OutOfBlocks
    PROVE  FileInv'
<1>1. Reset /\ call.pc = "allocate" /\ UNCHANGED <<formats, crashes, faults>>
  BY DEF OutOfBlocks, Running, counters
<1>2. crashes' \in 0 .. MaxCrashes /\ UNCHANGED <<formats, faults>> /\ crashes' = crashes
  BY <1>1, InvHasFile DEF TypeOK
<1> QED BY <1>1, <1>2, ResetKeeps

LEMMA CrashKeeps ==
    ASSUME FileInv, Crash
    PROVE  FileInv'
<1>1. Reset /\ crashes < MaxCrashes /\ crashes' = crashes + 1 /\ UNCHANGED <<formats, faults>>
  BY DEF Crash
<1>2. crashes' \in 0 .. MaxCrashes /\ crashes' > 0
  BY <1>1, InvHasFile, BoundsAssumption DEF TypeOK
<1> QED BY <1>1, <1>2, ResetKeeps

LEMMA WriteNowhereKeeps ==
    ASSUME FileInv, WriteNowhere
    PROVE  FALSE
<1>1. call.pc = "sector" /\ file.head = NoAddress
  BY DEF WriteNowhere, Running
<1>2. Writing /\ start # NoBlock
  BY <1>1, InvHasFile, NoCallIs DEF CallOK, Idle
<1> QED BY <1>1, <1>2, WriterIsPlaced

LEMMA LeastIsIn ==
    ASSUME NEW S \in SUBSET Blocks, S # {}
    PROVE  Least(S) \in S
<1>1. S \in SUBSET Nat
  BY Geometry
<1>2. PICK n \in S : \A x \in S : n <= x
  BY <1>1, LeastNatural
<1> QED BY <1>1, <1>2, LeastIs

(* The block that is being erased. *)
LEMMA DoomedIs ==
    ASSUME FileInv, NEW b \in Doomed
    PROVE  /\ b \in Blocks
           /\ \A k, path, base, m : IsFile(k, path, base, m) /\ start # NoBlock =>
                  \/ /\ call.pc = "erase" /\ \A i \in 0 .. k : path[i] # b
                     /\ b = file.pending.block
                  \/ /\ call.pc = "enter erase" /\ b = path[k] /\ durable > 0
                     /\ sectors[b] = Blank
<1>1. TypeOK /\ CallOK /\ Filled /\ FormatsBlock
  BY InvHasFile
<1>2. \/ call.pc = "erase" /\ b = call.block.block
      \/ call.pc = "enter erase" /\ b = call.block.block
      \/ call.pc = "free" /\ b = Least(call.rest)
  BY DEF Doomed
<1>3. Writing
  BY <1>1, <1>2, NoCallIs DEF CallOK, Idle
<1>4. ASSUME start # NoBlock, NEW k, NEW path, NEW base, NEW m, IsFile(k, path, base, m)
      PROVE  /\ b \in Blocks
             /\ \/ /\ call.pc = "erase" /\ \A i \in 0 .. k : path[i] # b
                   /\ b = file.pending.block
                \/ /\ call.pc = "enter erase" /\ b = path[k] /\ durable > 0
                   /\ sectors[b] = Blank
  <2>1. Appending(k, path, base, m)
    BY <1>3, <1>4 DEF IsFile, FileIs
  <2>2. call.pc # "free"
    BY <1>1, <1>4, <1>3 DEF CallOK
  <2>3. CASE call.pc = "erase"
    <3>1. HasPending
      BY <1>1, <1>3, <1>4, <2>3 DEF Filled
    <3>2. PendingIsBegun(k, path, base, m)
      BY <2>1, <3>1 DEF Appending
    <3>3. /\ Own(k, path, base, m) /\ call.block = file.pending
          /\ file.pending.block \in Blocks
          /\ \A i \in 0 .. k : path[i] # file.pending.block
      BY <2>3, <3>2 DEF PendingIsBegun
    <3> QED BY <1>2, <2>3, <3>3
  <2>4. CASE call.pc = "enter erase"
    <3>1. Crossing(k, path, base, m)
      BY <2>1, <2>4 DEF Appending, Entering
    <3>2. b = path[k] /\ durable > 0 /\ m = 0
      BY <1>2, <2>4, <3>1 DEF Crossing
    <3>3. /\ \A s \in 0 + 1 .. TailSector : s \in Sectors /\ sectors[b][s] = Unwritten
          /\ b \in Blocks /\ sectors[b] \in [Sectors -> Sector]
      <4>1. b \in Blocks /\ sectors[b] \in [Sectors -> Sector]
        BY <1>1, <1>4, <3>2, FileOnMedium
      <4> QED BY <1>4, <3>2, <4>1, NothingBehind
    <3>4. sectors[b] = Blank
      BY <3>3, Geometry DEF Blank
    <3> QED BY <2>4, <3>2, <3>3, <3>4
  <2> QED BY <1>2, <2>2, <2>3, <2>4
<1>5. b \in Blocks
  <2>1. CASE start # NoBlock
    <3>1. PICK k, path, base, m : IsFile(k, path, base, m)
      BY <2>1, InvHasFile DEF HasFile
    <3> QED BY <1>4, <2>1, <3>1
  <2>2. CASE start = NoBlock
    <3>1. call.op \in {"format", "erase"}
      BY <1>1, <1>3, <2>2 DEF CallOK
    <3>2. CASE call.pc = "enter erase"
      BY <1>1, <1>2, <2>2, <3>2 DEF FormatsBlock, Entering
    <3>3. CASE call.pc = "free"
      <4>1. call.rest # {} /\ call.rest \subseteq Blocks
        BY <1>1, <3>3 DEF CallOK, TypeOK, Call
      <4> QED BY <1>2, <3>3, <4>1, LeastIsIn
    <3>4. call.pc # "erase"
      BY <1>1, <3>1 DEF CallOK
    <3> QED BY <1>2, <3>2, <3>3, <3>4
  <2> QED BY <2>1, <2>2
<1> QED BY <1>4, <1>5

LEMMA CrashInEraseKeeps ==
    ASSUME FileInv, NEW b, NEW headKept, NEW kept, CrashInErase(b, headKept, kept)
    PROVE  FileInv'
<1> DEFINE hs == [heads EXCEPT ![b] = IF headKept THEN @ ELSE "none"]
           ss == [sectors EXCEPT ![b] =
                     [s \in Sectors |-> IF s \in kept THEN @[s] ELSE Unwritten]]
<1>1. /\ ResetTo(hs, ss) /\ crashes < MaxCrashes /\ crashes' = crashes + 1
      /\ UNCHANGED <<formats, faults>> /\ b \in Doomed
  BY DEF CrashInErase
<1>2. crashes' \in 0 .. MaxCrashes /\ crashes' > 0
  BY <1>1, InvHasFile, BoundsAssumption DEF TypeOK
<1>3. /\ b \in Blocks
      /\ heads \in [Blocks -> {"none", "free", "file"}]
      /\ sectors \in [Blocks -> [Sectors -> Sector]] /\ sectors[b] \in [Sectors -> Sector]
  BY <1>1, InvHasFile, DoomedIs DEF TypeOK
<1>4. hs \in [Blocks -> {"none", "free", "file"}]
  BY <1>3
<1>5. ss \in [Blocks -> [Sectors -> Sector]]
  <2>1. [s \in Sectors |-> IF s \in kept THEN sectors[b][s] ELSE Unwritten] \in [Sectors -> Sector]
    BY <1>3, ClosedIs
  <2> QED BY <1>3, <2>1
<1>6. sectors[b] = Blank => ss = sectors
  <2> SUFFICES ASSUME sectors[b] = Blank PROVE ss = sectors
    OBVIOUS
  <2>1. [s \in Sectors |-> IF s \in kept THEN sectors[b][s] ELSE Unwritten] = Blank
    BY DEF Blank
  <2> QED BY <1>3, <2>1
<1>7. ASSUME NEW k, NEW path, NEW base, NEW m, IsFile(k, path, base, m)
      PROVE  Survives(hs, ss, k, path)
  <2> HIDE DEF hs, ss
  <2>1. CASE start = NoBlock
    <3>1. start \in Blocks
      <4>1. path[0] = start /\ 0 \in 0 .. k /\ path \in [0 .. k -> Blocks]
        BY <1>7, InvHasFile, FileOnMedium
      <4> QED BY <4>1
    <3> QED BY <2>1, <3>1, Geometry
  <2>2. CASE start # NoBlock
    <3>1. \/ \A i \in 0 .. k : path[i] # b
          \/ durable > 0 /\ sectors[b] = Blank
      BY <1>1, <1>7, <2>2, DoomedIs
    <3>2. \A i \in 0 .. k : path[i] \in Blocks
      BY <1>7, InvHasFile, FileOnMedium
    <3>3. CASE \A i \in 0 .. k : path[i] # b
      <4>1. \A i \in 0 .. k : hs[path[i]] = heads[path[i]] /\ ss[path[i]] = sectors[path[i]]
        BY <1>3, <3>2, <3>3 DEF hs, ss
      <4> QED BY <1>7, <4>1, EmptyFileIsBegun DEF Survives, SameBlocks
    <3>4. CASE durable > 0 /\ sectors[b] = Blank
      <4>1. ss = sectors
        BY <1>6, <3>4
      <4>2. durable # 0
        BY <3>4
      <4> QED BY <4>1, <4>2 DEF Survives, SameBlocks
    <3> QED BY <3>1, <3>3, <3>4
  <2> QED BY <2>1, <2>2
<1> HIDE DEF hs, ss
<1>8. FileSurvives(hs, ss)
  BY <1>7 DEF FileSurvives
<1> QED BY <1>1, <1>2, <1>4, <1>5, <1>8, ResetToKeeps

-----------------------------------------------------------------------------
(* A file is formatted, or given up and its blocks freed. *)

LEMMA NoFileAgain == start' = NoBlock => HasFile'
BY DEF HasFile

LEMMA FormatKeeps ==
    ASSUME FileInv, NEW mode \in Modes, Format(mode)
    PROVE  FileInv'
<1>1. TypeOK /\ CallOK /\ FormatsBlock /\ FreeIsUnbegun
  BY InvHasFile
<1>2. /\ Idle /\ file.mode = "closed" /\ start = NoBlock
      /\ formats < MaxFormats /\ formats' = formats + 1
      /\ file' = [Closed EXCEPT !.mode = mode]
      /\ call' = [NoCall EXCEPT !.op = "format", !.pc = "allocate"]
      /\ UNCHANGED <<heads, sectors, free, start, whole, life, durable, crashes, faults>>
  BY DEF Format, medium, client
<1>3. /\ file' \in File /\ file'.mode \in {"write", "multiple"}
      /\ file'.pending = NoGiven /\ file'.pos = 0 /\ file'.position = 0
  <2>1. mode \in {"write", "multiple"}
    BY WritesAssumption
  <2> QED BY <1>2, <2>1, ClosedIs DEF File
<1>4. /\ call' \in Call /\ call'.op = "format" /\ call'.pc = "allocate" /\ call'.rest = {}
      /\ call' # NoCall
  BY <1>2, NoCallIs DEF Call, NoCall
<1>5. formats' \in 0 .. MaxFormats
  BY <1>1, <1>2, BoundsAssumption DEF TypeOK
<1>6. TypeOK'
  BY <1>1, <1>2, <1>3, <1>4, <1>5 DEF TypeOK
<1>7. CallOK'
  BY <1>2, <1>3, <1>4 DEF CallOK, Idle, Writing
<1>8. Filled'
  BY <1>2 DEF Filled
<1>9. FormatsBlock'
  <2>1. call.rest = {} /\ ~Entering
    BY <1>2, NoCallIs DEF Idle, Entering
  <2>2. ~Entering'
    BY <1>4 DEF Entering
  <2> QED BY <1>1, <1>2, <1>3, <1>4, <2>1, <2>2 DEF FormatsBlock
<1>10. FreeIsUnbegun'
  BY <1>1, <1>2 DEF FreeIsUnbegun
<1>11. HasFile'
  BY <1>2, NoFileAgain
<1> QED BY <1>6, <1>7, <1>8, <1>9, <1>10, <1>11, InvAgain

LEMMA EraseAllBlocksKeeps ==
    ASSUME FileInv, EraseAllBlocks
    PROVE  FileInv'
<1>1. TypeOK /\ CallOK /\ FormatsBlock /\ FreeIsUnbegun
  BY InvHasFile
<1>2. /\ ~Extent /\ Idle /\ Writing /\ start # NoBlock
      /\ formats < MaxFormats /\ formats' = formats + 1
      /\ start' = NoBlock
      /\ call' = [NoCall EXCEPT !.op = "erase", !.pc = "free", !.rest = Visited(start)]
      /\ UNCHANGED <<heads, sectors, free, file, whole, life, durable, crashes, faults>>
  BY DEF EraseAllBlocks, medium
<1>3. Visited(start) # {} /\ Visited(start) \subseteq Blocks
  <2>1. PICK k, path, base, m : IsFile(k, path, base, m)
    BY <1>2, InvHasFile DEF HasFile
  <2>2. Visited(start) = {path[i] : i \in 0 .. k}
    BY <1>1, <2>1, VisitedIs
  <2>3. k \in 0 .. k /\ path \in [0 .. k -> Blocks]
    BY <1>1, <2>1, FileOnMedium
  <2> QED BY <2>2, <2>3
<1> HIDE DEF Visited
<1>4. /\ call' \in Call /\ call'.op = "erase" /\ call'.pc = "free"
      /\ call'.rest = Visited(start) /\ call' # NoCall
  BY <1>2, <1>3, NoCallIs DEF Call, NoCall
<1>5. formats' \in 0 .. MaxFormats
  BY <1>1, <1>2, BoundsAssumption DEF TypeOK
<1>6. TypeOK'
  BY <1>1, <1>2, <1>4, <1>5 DEF TypeOK
<1>7. CallOK'
  <2>1. Writing' /\ file' = file
    BY <1>2 DEF Writing
  <2> QED BY <1>1, <1>2, <1>3, <1>4, <2>1 DEF CallOK, Idle, Writing
<1>8. Filled'
  BY <1>2 DEF Filled
<1>9. FormatsBlock'
  <2>1. ~Entering'
    BY <1>4 DEF Entering
  <2>2. crashes + faults = 0 => Blocks \ free = Visited(start)
    BY <1>2, InvNoLeaks DEF NoBlockLeaks
  <2> QED BY <1>2, <1>4, <2>1, <2>2 DEF FormatsBlock
<1>10. FreeIsUnbegun'
  BY <1>1, <1>2 DEF FreeIsUnbegun
<1>11. HasFile'
  BY <1>2, NoFileAgain
<1> QED BY <1>6, <1>7, <1>8, <1>9, <1>10, <1>11, InvAgain

(* What runs while there is no file. *)
LEMMA NoFileIs ==
    ASSUME FileInv, call.pc \in {"free", "mark", "allocate", "enter erase", "enter head"}
    PROVE  /\ Writing /\ ~Idle
           /\ Formatting <=> start = NoBlock
           /\ call.pc \in {"free", "mark"} =>
                  /\ start = NoBlock /\ call.op = "erase" /\ call.rest # {}
                  /\ Least(call.rest) \in Blocks /\ Least(call.rest) \in call.rest
           /\ call.pc \notin {"free", "mark"} => call.rest = {}
<1>1. TypeOK /\ CallOK
  BY InvHasFile
<1>2. Writing /\ ~Idle
  BY <1>1, NoCallIs DEF CallOK, Idle
<1>3. Formatting <=> start = NoBlock
  BY <1>1, <1>2 DEF CallOK, Formatting
<1>4. call.pc \in {"free", "mark"} =>
          start = NoBlock /\ call.op = "erase" /\ call.rest # {}
  BY <1>1, <1>2 DEF CallOK
<1>5. call.rest \subseteq Blocks
  BY <1>1 DEF TypeOK, Call
<1>6. call.rest # {} => Least(call.rest) \in call.rest
  BY <1>5, LeastIsIn
<1> QED BY <1>1, <1>2, <1>3, <1>4, <1>5, <1>6 DEF CallOK

LEMMA FreeErasesKeeps ==
    ASSUME FileInv, FreeErases
    PROVE  FileInv'
<1> DEFINE b == Least(call.rest)
<1>1. TypeOK /\ CallOK /\ FormatsBlock /\ FreeIsUnbegun
  BY InvHasFile
<1>2. /\ call.pc = "free"
      /\ heads' = [heads EXCEPT ![b] = "none"]
      /\ sectors' = [sectors EXCEPT ![b] = Blank]
      /\ call' = [call EXCEPT !.pc = "mark"]
      /\ UNCHANGED <<free, file, start, whole, life, durable, formats, crashes, faults>>
  BY DEF FreeErases, EraseBlock, Running, client, counters
<1>3. /\ Writing /\ start = NoBlock /\ call.op = "erase" /\ call.rest # {} /\ b \in Blocks
  BY <1>2, NoFileIs
<1> HIDE DEF b
<1>4. /\ call' \in Call /\ call'.op = "erase" /\ call'.pc = "mark"
      /\ call'.rest = call.rest /\ call' # NoCall
  BY <1>1, <1>2, <1>3, NoCallIs DEF TypeOK, Call, NoCall
<1>5. Blank \in [Sectors -> Sector]
  BY ClosedIs DEF Blank
<1>6. TypeOK'
  BY <1>1, <1>2, <1>3, <1>4, <1>5 DEF TypeOK
<1>7. CallOK'
  <2>1. Writing' /\ file' = file
    BY <1>2, <1>3 DEF Writing
  <2> QED BY <1>1, <1>2, <1>3, <1>4, <2>1 DEF CallOK, Idle, Writing
<1>8. Filled'
  BY <1>2, <1>3 DEF Filled
<1>9. FormatsBlock'
  <2>1. ~Entering' /\ ~Entering
    BY <1>2, <1>4 DEF Entering
  <2> QED BY <1>1, <1>2, <1>3, <1>4, <2>1 DEF FormatsBlock
<1>10. FreeIsUnbegun'
  <2>1. ASSUME NEW x \in free PROVE heads'[x] # "file"
    <3>1. heads[x] # "file" /\ x \in Blocks
      BY <1>1 DEF FreeIsUnbegun, TypeOK
    <3> QED BY <1>1, <1>2, <3>1 DEF TypeOK
  <2> QED BY <1>2, <2>1 DEF FreeIsUnbegun
<1>11. HasFile'
  BY <1>2, <1>3, NoFileAgain
<1> QED BY <1>6, <1>7, <1>8, <1>9, <1>10, <1>11, InvAgain

LEMMA FreeMarksKeeps ==
    ASSUME FileInv, FreeMarks
    PROVE  FileInv'
<1> DEFINE b == Least(call.rest)
<1>1. TypeOK /\ CallOK /\ FormatsBlock /\ FreeIsUnbegun
  BY InvHasFile
<1>2. /\ call.pc = "mark"
      /\ heads' = [heads EXCEPT ![b] = "free"]
      /\ free' = free \union {b}
      /\ call' = [call EXCEPT !.rest = @ \ {b},
                     !.pc = IF call.rest = {b} THEN "allocate" ELSE "free"]
      /\ file' = IF call.rest # {b} THEN file
                 ELSE [Closed EXCEPT !.mode = file.mode, !.pending = file.pending]
      /\ UNCHANGED <<sectors, start, whole, life, durable, formats, crashes, faults>>
  BY DEF FreeMarks, Running, client, counters
<1>3. /\ Writing /\ start = NoBlock /\ call.op = "erase" /\ call.rest # {} /\ b \in Blocks
      /\ b \in call.rest
  BY <1>2, NoFileIs
<1> HIDE DEF b
<1>4. /\ call' \in Call /\ call'.op = "erase"
      /\ call'.pc = IF call.rest = {b} THEN "allocate" ELSE "free"
      /\ call'.rest = call.rest \ {b} /\ call' # NoCall
  BY <1>1, <1>2, <1>3, NoCallIs DEF TypeOK, Call, NoCall
<1>5. call'.rest = {} <=> call.rest = {b}
  BY <1>3, <1>4
<1>6. /\ file' \in File /\ file'.mode = file.mode /\ file'.pending = file.pending
      /\ call.rest = {b} => file'.pos = 0 /\ file'.position = 0
  <2>1. CASE call.rest # {b}
    BY <1>1, <1>2, <2>1 DEF TypeOK
  <2>2. CASE call.rest = {b}
    <3>1. file.mode \in {"closed", "read", "write", "multiple"} /\ file.pending \in Given
      BY <1>1 DEF TypeOK, File
    <3> QED BY <1>2, <2>2, <3>1, ClosedIs DEF File
  <2> QED BY <2>1, <2>2
<1>7. TypeOK'
  BY <1>1, <1>2, <1>3, <1>4, <1>6 DEF TypeOK
<1>8. CallOK'
  <2>1. Writing'
    BY <1>3, <1>6 DEF Writing
  <2> QED BY <1>1, <1>2, <1>3, <1>4, <1>5, <1>6, <2>1 DEF CallOK, Idle, Writing
<1>9. Filled'
  BY <1>2, <1>3 DEF Filled
<1>10. FormatsBlock'
  <2>1. ~Entering' /\ ~Entering
    BY <1>2, <1>4 DEF Entering
  <2>2. call'.pc \notin {"free", "mark"} => file'.pos = 0 /\ file'.position = 0
    BY <1>4, <1>6
  <2>3. crashes + faults = 0 => \A x \in Blocks : x \notin free <=> x \in call.rest
    BY <1>1, <1>3, <2>1 DEF FormatsBlock
  <2>4. crashes + faults = 0 => \A x \in Blocks : x \notin free' <=> x \in call'.rest
    BY <1>2, <1>4, <2>3
  <2> QED BY <1>2, <2>1, <2>2, <2>4 DEF FormatsBlock
<1>11. FreeIsUnbegun'
  <2>1. ASSUME NEW x \in free' PROVE heads'[x] # "file"
    <3>1. x = b \/ (x \in free /\ heads[x] # "file" /\ x \in Blocks)
      BY <1>1, <1>2 DEF FreeIsUnbegun, TypeOK
    <3> QED BY <1>1, <1>2, <1>3, <3>1 DEF TypeOK
  <2> QED BY <2>1 DEF FreeIsUnbegun
<1>12. HasFile'
  BY <1>2, <1>3, NoFileAgain
<1> QED BY <1>7, <1>8, <1>9, <1>10, <1>11, <1>12, InvAgain

-----------------------------------------------------------------------------
(* Blocks are taken and begun. *)

LEMMA BeginsIs ==
    ASSUME NEW given
    PROVE  /\ Begins(given, TRUE) = IF given.erased THEN "enter head" ELSE "enter erase"
           /\ Begins(given, FALSE) = IF given.erased THEN "head" ELSE "erase"
BY DEF Begins

(* What allocate() returns is not in use, and erased if it says so. *)
LEMMA GivenIs ==
    ASSUME FileInv, InPool, NEW given, Allocate(given)
    PROVE  /\ given \in Given /\ given.block \in free /\ given.block \in Blocks
           /\ given.block # NoBlock /\ given # NoGiven
           /\ given.erased => sectors[given.block] = Blank
           /\ call.pc = "allocate" /\ free' = free \ {given.block}
           /\ file' = IF Formatting THEN file ELSE [file EXCEPT !.pending = given]
           /\ call' = [call EXCEPT !.block = given, !.pc = Begins(given, Formatting)]
           /\ UNCHANGED <<heads, sectors, start, whole, life, durable, formats,
                          crashes, faults>>
<1>1. /\ given \in Given /\ given.block \in free
      /\ given.erased => sectors[given.block] = Blank
  BY DEF Allocate, Offers, InPool
<1>2. given.block \in Blocks
  BY <1>1, InvHasFile DEF TypeOK
<1>3. given.block # NoBlock
  BY <1>2, Geometry
<1>4. given # NoGiven
  BY <1>3 DEF NoGiven
<1> QED BY <1>1, <1>2, <1>3, <1>4 DEF Allocate, Running, medium, client, counters

LEMMA AllocateFormats ==
    ASSUME FileInv, InPool, NEW given, Allocate(given), start = NoBlock
    PROVE  FileInv'
<1>1. TypeOK /\ CallOK /\ FormatsBlock /\ FreeIsUnbegun
  BY InvHasFile
<1>2. /\ given \in Given /\ given.block \in free /\ given.block \in Blocks
      /\ given.erased => sectors[given.block] = Blank
      /\ call.pc = "allocate" /\ free' = free \ {given.block}
      /\ file' = IF Formatting THEN file ELSE [file EXCEPT !.pending = given]
      /\ call' = [call EXCEPT !.block = given, !.pc = Begins(given, Formatting)]
      /\ UNCHANGED <<heads, sectors, start, whole, life, durable, formats,
                     crashes, faults>>
  BY GivenIs
<1>3. Writing /\ ~Idle /\ Formatting /\ call.rest = {}
  BY <1>2, NoFileIs
<1>4. file' = file
  BY <1>2, <1>3
<1>5. /\ call' \in Call /\ call'.op = call.op /\ call'.rest = {}
      /\ call'.block = given /\ call' # NoCall
      /\ call'.pc \in {"enter head", "enter erase"}
      /\ call'.pc = "enter head" => given.erased
  <2>1. call' = [call EXCEPT !.block = given,
                             !.pc = IF given.erased THEN "enter head" ELSE "enter erase"]
    BY <1>2, <1>3, BeginsIs
  <2>2. call \in Call
    BY <1>1 DEF TypeOK
  <2>3. call'.pc = IF given.erased THEN "enter head" ELSE "enter erase"
    BY <2>1, <2>2 DEF Call
  <2>4. call' # NoCall
    BY <2>3, NoCallIs
  <2>5. call'.pc \in {"enter head", "enter erase"}
    BY <2>3
  <2>6. call'.pc = "enter head" => given.erased
    BY <2>3
  <2> QED BY <1>2, <1>3, <2>1, <2>2, <2>4, <2>5, <2>6 DEF Call
<1>6. TypeOK'
  BY <1>1, <1>2, <1>4, <1>5 DEF TypeOK
<1>7. CallOK'
  <2>1. Writing'
    BY <1>3, <1>4 DEF Writing
  <2>2. call.op \in {"format", "erase"}
    BY <1>3 DEF Formatting
  <2>3. call'.pc \notin {"none", "free", "mark", "fill"} /\ call' # NoCall
    BY <1>5
  <2> QED BY <1>1, <1>2, <1>4, <1>5, <2>1, <2>2, <2>3 DEF CallOK, Idle, Writing
<1>8. Filled'
  BY <1>2 DEF Filled
<1>9. FormatsBlock'
  <2>1. ~Entering /\ Entering'
    BY <1>2, <1>5 DEF Entering
  <2>2. given.block \in Blocks \ free'
    BY <1>2
  <2>3. call'.pc = "enter head" => sectors'[given.block] = Blank
    BY <1>2, <1>5
  <2>4. crashes + faults = 0 => \A x \in Blocks : x \notin free' <=> x = given.block
    <3>1. crashes + faults = 0 => \A x \in Blocks : x \in free
      BY <1>1, <1>3, <2>1 DEF FormatsBlock
    <3> QED BY <1>2, <3>1
  <2>5. file.pos = 0 /\ file.position = 0
    BY <1>1, <1>2 DEF FormatsBlock
  <2> QED BY <1>2, <1>4, <1>5, <2>1, <2>2, <2>3, <2>4, <2>5 DEF FormatsBlock
<1>10. FreeIsUnbegun'
  BY <1>1, <1>2 DEF FreeIsUnbegun
<1>11. HasFile'
  BY <1>2, NoFileAgain
<1> QED BY <1>6, <1>7, <1>8, <1>9, <1>10, <1>11, InvAgain

(* Among the addresses of a file only those behind it are those of a tail   *)
(* that leads nowhere yet.                                                  *)
LEMMA TailIsOwn ==
    ASSUME FileInv, NEW k, NEW path, NEW base, NEW m, IsFile(k, path, base, m),
           Writing, ~Entering, AtTail
    PROVE  \/ Own(k, path, base, m) /\ m + 1 = TailSector
           \/ Linked(k, path, base, m) /\ file.pending # NoGiven
<1>1. Own(k, path, base, m) \/ Kept(k, path, base, m) \/ Linked(k, path, base, m)
  BY DEF IsFile, FileIs, Appending
<1>2. m < TailSector /\ m \in Nat /\ TailSector \in Nat /\ path \in [0 .. k -> Blocks]
      /\ k \in 0 .. k
  BY InvHasFile, FileOnMedium, Geometry
<1>3. Own(k, path, base, m) => m + 1 = TailSector
  BY DEF Own, AtTail, At
<1>4. ~Kept(k, path, base, m)
  <2>1. Kept(k, path, base, m) => m = TailSector
    BY DEF Kept, AtTail, At
  <2> QED BY <1>2, <2>1
<1>5. Linked(k, path, base, m) => file.pending # NoGiven
  <2>1. path[k] # NoBlock
    BY <1>2, Geometry
  <2> QED BY <2>1 DEF Linked, NoGiven
<1> QED BY <1>1, <1>3, <1>4, <1>5

LEMMA AllocateLinks ==
    ASSUME FileInv, InPool, NEW given, Allocate(given), start # NoBlock
    PROVE  FileInv'
<1>1. TypeOK /\ CallOK /\ Filled /\ FormatsBlock /\ FreeIsUnbegun
  BY InvHasFile
<1>2. /\ given \in Given /\ given.block \in free /\ given.block \in Blocks
      /\ given # NoGiven
      /\ given.erased => sectors[given.block] = Blank
      /\ call.pc = "allocate" /\ free' = free \ {given.block}
      /\ file' = IF Formatting THEN file ELSE [file EXCEPT !.pending = given]
      /\ call' = [call EXCEPT !.block = given, !.pc = Begins(given, Formatting)]
      /\ UNCHANGED <<heads, sectors, start, whole, life, durable, formats,
                     crashes, faults>>
  BY GivenIs
<1>3. Writing /\ ~Idle /\ ~Formatting /\ call.rest = {}
  BY <1>2, NoFileIs
<1>4. /\ file' \in File /\ file'.pending = given /\ file'.mode = file.mode
      /\ file'.head = file.head /\ file'.pos = file.pos /\ file'.position = file.position
      /\ file'.inBlock = file.inBlock
  <2>1. file \in File /\ file' = [file EXCEPT !.pending = given]
    BY <1>1, <1>2, <1>3 DEF TypeOK
  <2> QED BY <1>2, <2>1 DEF File
<1>5. /\ call' \in Call /\ call'.op = call.op /\ call'.rest = {} /\ call'.left = call.left
      /\ call'.after = call.after /\ call'.block = given /\ call' # NoCall
      /\ call'.pc \in {"head", "erase"}
      /\ call'.pc = "head" => given.erased
  <2>1. call' = [call EXCEPT !.block = given,
                             !.pc = IF given.erased THEN "head" ELSE "erase"]
    <3>1. Formatting = FALSE
      BY <1>3 DEF Formatting
    <3> QED BY <1>2, <3>1, BeginsIs
  <2>2. call \in Call
    BY <1>1 DEF TypeOK
  <2>3. call'.pc = IF given.erased THEN "head" ELSE "erase"
    BY <2>1, <2>2 DEF Call
  <2>4. call' # NoCall
    BY <2>3, NoCallIs
  <2>5. call'.pc \in {"head", "erase"}
    BY <2>3
  <2>6. call'.pc = "head" => given.erased
    BY <2>3
  <2> QED BY <1>2, <1>3, <2>1, <2>2, <2>4, <2>5, <2>6 DEF Call
<1>6. AtTail /\ file.pending = NoGiven /\ file.pos > 0
  BY <1>1, <1>2, <1>3 DEF Filled
<1>7. AtTail' /\ HasPending' /\ ~HasPending /\ Writing' /\ ~Entering' /\ ~Entering
  BY <1>2, <1>3, <1>4, <1>5, <1>6 DEF AtTail, HasPending, Writing, Entering
<1>8. TypeOK'
  BY <1>1, <1>2, <1>4, <1>5 DEF TypeOK
<1>9. CallOK'
  <2>1. call.op \in {"write", "flush", "close"}
    BY <1>1, <1>3 DEF CallOK
  <2>2. call'.pc \notin {"none", "free", "mark", "fill"} /\ call' # NoCall
    BY <1>5
  <2> QED BY <1>1, <1>2, <1>4, <1>5, <1>7, <2>1, <2>2 DEF CallOK, Idle, Writing
<1>10. Filled'
  <2>1. Room(file.head)' = Room(file.head)
    BY <1>4 DEF Room, IsTail
  <2>2. call'.pc \notin {"fill", "allocate", "sector"}
    BY <1>5
  <2> QED BY <1>1, <1>2, <1>3, <1>4, <1>5, <1>6, <1>7, <2>1, <2>2 DEF Filled
<1>11. FormatsBlock'
  BY <1>2 DEF FormatsBlock
<1>12. FreeIsUnbegun'
  BY <1>1, <1>2 DEF FreeIsUnbegun
<1>13. HasFile'
  <2>1. PICK k, path, base, m : IsFile(k, path, base, m)
    BY InvHasFile DEF HasFile
  <2>2. /\ k \in 0 .. NumberOfBlocks - 1 /\ m \in 0 .. TailSector - 1
        /\ path \in [0 .. k -> Blocks] /\ base \in [0 .. k -> 0 .. MaxPosition]
        /\ IsPath(path, k, start) /\ IsChain(sectors, life, k, path, base, m)
        /\ Size(sectors, k, path, base, m) <= MaxPosition
        /\ durable <= Size(sectors, k, path, base, m)
        /\ Claimed(k, path) /\ AllClaimed(k, path)
    BY <2>1 DEF IsFile, FileIs
  <2>3. Own(k, path, base, m)
    BY <1>3, <1>6, <1>7, <2>1, TailIsOwn
  <2>4. Own(k, path, base, m)'
    BY <1>2, <1>4, <2>3 DEF Own
  <2>5. \A i \in 0 .. k : path[i] \notin free /\ heads[path[i]] = "file"
    BY <1>3, <1>7, <2>2 DEF Claimed
  <2>6. Claimed(k, path)'
    BY <1>2, <2>5 DEF Claimed
  <2>7. AllClaimed(k, path)'
    <3> SUFFICES ASSUME crashes + faults = 0, NEW b \in Blocks
                 PROVE  b \notin free' <=> \/ \E i \in 0 .. k : b = path[i]
                                           \/ b = given.block
      BY <1>2, <1>4, <1>7 DEF AllClaimed
    <3>1. b \notin free <=> \E i \in 0 .. k : b = path[i]
      BY <1>7, <2>2 DEF AllClaimed
    <3> QED BY <1>2, <3>1
  <2>8. PendingIsBegun(k, path, base, m)'
    <3>1. \A i \in 0 .. k : path[i] # given.block
      BY <1>2, <2>5
    <3>2. given.block \in Blocks \ free'
      BY <1>2
    <3>3. call'.pc # "erase" => sectors'[given.block] = Blank
      BY <1>2, <1>5
    <3>4. call'.pc \in {"erase", "head"}
      BY <1>5
    <3> QED BY <1>4, <1>5, <2>4, <3>1, <3>2, <3>3, <3>4 DEF PendingIsBegun
  <2>9. Appending(k, path, base, m)'
    <3>1. call'.pc \notin {"none", "fill"}
      BY <1>5
    <3> HIDE DEF Own
    <3> QED BY <1>7, <2>4, <2>8, <3>1 DEF Appending
  <2>10. file'.mode # "read"
    BY <1>7 DEF Writing
  <2>11. IsFile(k, path, base, m)'
    BY <1>2, <2>2, <2>6, <2>7, <2>9, <2>10 DEF IsFile, FileIs
  <2> QED BY <2>11, FileAgain
<1> QED BY <1>8, <1>9, <1>10, <1>11, <1>12, <1>13, InvAgain

LEMMA AllocateKeeps ==
    ASSUME FileInv, InPool, NEW given, Allocate(given)
    PROVE  FileInv'
BY AllocateFormats, AllocateLinks

LEMMA EraseBegins ==
    ASSUME FileInv, BeginErases
    PROVE  /\ call.block.block \in Doomed /\ call.block.block \in Blocks
           /\ heads' = [heads EXCEPT ![call.block.block] = "none"]
           /\ sectors' = [sectors EXCEPT ![call.block.block] = Blank]
           /\ call' \in Call /\ call'.op = call.op /\ call'.rest = call.rest
           /\ call'.left = call.left /\ call'.after = call.after
           /\ call'.block = call.block
           /\ \/ call.pc = "erase" /\ call'.pc = "head"
              \/ call.pc = "enter erase" /\ call'.pc = "enter head"
           /\ UNCHANGED <<free, file, start, whole, life, durable, formats,
                          crashes, faults>>
           /\ Writing /\ Writing' /\ call.rest = {} /\ call' # NoCall
           /\ TypeOK' /\ CallOK' /\ Filled'
<1>1. TypeOK /\ CallOK /\ Filled
  BY InvHasFile
<1>2. /\ call.pc \in {"erase", "enter erase"}
      /\ heads' = [heads EXCEPT ![call.block.block] = "none"]
      /\ sectors' = [sectors EXCEPT ![call.block.block] = Blank]
      /\ call' = [call EXCEPT !.pc = IF @ = "erase" THEN "head" ELSE "enter head"]
      /\ UNCHANGED <<free, file, start, whole, life, durable, formats, crashes, faults>>
  BY DEF BeginErases, EraseBlock, client, counters
<1>3. call.block.block \in Doomed
  BY <1>2 DEF Doomed
<1>4. call.block.block \in Blocks
  BY <1>3, DoomedIs
<1>5. /\ call' \in Call /\ call'.op = call.op /\ call'.rest = call.rest
      /\ call'.left = call.left /\ call'.after = call.after
      /\ call'.block = call.block
      /\ \/ call.pc = "erase" /\ call'.pc = "head"
         \/ call.pc = "enter erase" /\ call'.pc = "enter head"
  <2>1. call \in Call
    BY <1>1 DEF TypeOK
  <2>2. CASE call.pc = "erase"
    <3>1. call' = [call EXCEPT !.pc = "head"]
      BY <1>2, <2>2
    <3> QED BY <2>1, <2>2, <3>1 DEF Call
  <2>3. CASE call.pc = "enter erase"
    <3>1. call' = [call EXCEPT !.pc = "enter head"]
      BY <1>2, <2>3
    <3> QED BY <2>1, <2>3, <3>1 DEF Call
  <2> QED BY <1>2, <2>2, <2>3
<1>6. call' # NoCall /\ call'.pc \in {"head", "enter head"}
  BY <1>5, NoCallIs
<1>7. Writing /\ Writing' /\ call.rest = {} /\ call.pc \notin {"free", "mark", "none"}
  <2>1. Writing /\ call.rest = {}
    BY <1>1, <1>2, NoCallIs DEF CallOK, Idle
  <2> QED BY <1>2, <2>1 DEF Writing
<1>8. TypeOK'
  <2>1. Blank \in [Sectors -> Sector]
    BY ClosedIs DEF Blank
  <2> QED BY <1>1, <1>2, <1>4, <1>5, <2>1 DEF TypeOK
<1>9. CallOK'
  <2>1. /\ file.pending = NoGiven \/ file.pending.block \in Blocks
        /\ start = NoBlock <=> call.op \in {"format", "erase"}
        /\ call.op \in {"format", "erase"} => call.pc = "enter erase"
        /\ start # NoBlock => call.op \in {"write", "flush", "close"}
        /\ file.mode = "closed" => file = Closed
    BY <1>1, <1>2, <1>7, NoCallIs DEF CallOK, Idle
  <2>2. call.op \in {"format", "erase"} => call'.pc = "enter head"
    BY <1>5, <2>1
  <2> QED BY <1>2, <1>5, <1>6, <1>7, <2>1, <2>2 DEF CallOK, Idle
<1>10. Filled'
  <2> SUFFICES ASSUME start # NoBlock PROVE Filled'
    BY <1>2 DEF Filled
  <2>1. Room(file.head)' = Room(file.head) /\ (HasPending' <=> HasPending)
    BY <1>2 DEF Room, IsTail, HasPending, AtTail
  <2>2. call'.pc \notin {"fill", "allocate", "sector", "erase"}
    BY <1>6
  <2>3. call'.pc = "head" => file.pos > 0 /\ HasPending
    BY <1>1, <1>5, <1>7 DEF Filled
  <2> QED BY <1>1, <1>2, <1>5, <1>7, <2>1, <2>2, <2>3 DEF Filled
<1> QED BY <1>2, <1>3, <1>4, <1>5, <1>6, <1>7, <1>8, <1>9, <1>10

LEMMA BeginErasesKeeps ==
    ASSUME FileInv, BeginErases
    PROVE  FileInv'
<1> DEFINE b == call.block.block
<1>1. TypeOK /\ CallOK /\ Filled /\ FormatsBlock /\ FreeIsUnbegun
  BY InvHasFile
<1>2. /\ b \in Doomed /\ b \in Blocks
      /\ heads' = [heads EXCEPT ![b] = "none"] /\ sectors' = [sectors EXCEPT ![b] = Blank]
      /\ call'.block = call.block /\ call'.rest = call.rest
      /\ \/ call.pc = "erase" /\ call'.pc = "head"
         \/ call.pc = "enter erase" /\ call'.pc = "enter head"
      /\ UNCHANGED <<free, file, start, whole, life, durable, formats, crashes, faults>>
      /\ Writing /\ Writing' /\ call.rest = {}
      /\ TypeOK' /\ CallOK' /\ Filled'
  BY EraseBegins
<1>3. (Entering <=> call.pc = "enter erase") /\ (Entering' <=> call.pc = "enter erase")
  BY <1>2 DEF Entering
<1>4. FormatsBlock'
  <2> SUFFICES ASSUME start = NoBlock PROVE FormatsBlock'
    BY <1>2 DEF FormatsBlock
  <2>1. call.pc = "enter erase" /\ call'.pc = "enter head"
    BY <1>1, <1>2 DEF CallOK
  <2>2. sectors'[b] = Blank
    BY <1>1, <1>2 DEF TypeOK
  <2> QED BY <1>1, <1>2, <1>3, <2>1, <2>2 DEF FormatsBlock
<1>5. FreeIsUnbegun'
  <2>1. ASSUME NEW x \in free PROVE heads'[x] # "file"
    <3>1. heads[x] # "file" /\ x \in Blocks
      BY <1>1 DEF FreeIsUnbegun, TypeOK
    <3> QED BY <1>1, <1>2, <3>1 DEF TypeOK
  <2> QED BY <1>2, <2>1 DEF FreeIsUnbegun
<1>6. HasFile'
  <2> SUFFICES ASSUME start # NoBlock PROVE HasFile'
    BY <1>2 DEF HasFile
  <2>1. PICK k, path, base, m : IsFile(k, path, base, m)
    BY InvHasFile DEF HasFile
  <2>2. /\ k \in 0 .. NumberOfBlocks - 1 /\ m \in 0 .. TailSector - 1
        /\ path \in [0 .. k -> Blocks] /\ base \in [0 .. k -> 0 .. MaxPosition]
        /\ IsPath(path, k, start) /\ IsChain(sectors, life, k, path, base, m)
        /\ Size(sectors, k, path, base, m) <= MaxPosition
        /\ durable <= Size(sectors, k, path, base, m)
        /\ Claimed(k, path) /\ AllClaimed(k, path) /\ Appending(k, path, base, m)
    BY <1>2, <2>1 DEF IsFile, FileIs
  <2>3. /\ k \in Nat /\ k \in 0 .. k
        /\ \A i, j \in 0 .. k : path[i] = path[j] => i = j
    BY <1>1, <2>1, FileOnMedium
  <2>4. \/ /\ call.pc = "erase" /\ \A i \in 0 .. k : path[i] # b
           /\ b = file.pending.block
        \/ /\ call.pc = "enter erase" /\ b = path[k] /\ durable > 0
           /\ sectors[b] = Blank
    BY <1>2, <2>1, DoomedIs
  <2> HIDE DEF b
  <2>5. SameBlocks(sectors, sectors', k, path)
    <3>1. ASSUME NEW i \in 0 .. k PROVE sectors'[path[i]] = sectors[path[i]]
      <4>1. path[i] \in Blocks /\ sectors \in [Blocks -> [Sectors -> Sector]]
        BY <1>1, <2>2 DEF TypeOK
      <4>2. path[i] # b \/ sectors[b] = Blank
        BY <2>4
      <4> QED BY <1>2, <4>1, <4>2
    <3> QED BY <3>1 DEF SameBlocks
  <2>6. /\ IsChain(sectors', life, k, path, base, m)
        /\ Size(sectors', k, path, base, m) = Size(sectors, k, path, base, m)
    <3>1. IsChain(sectors', life, k, path, base, m)
      BY <2>2, <2>3, <2>5, SameChain
    <3>2. sectors'[path[k]] = sectors[path[k]]
      BY <2>3, <2>5 DEF SameBlocks
    <3> QED BY <3>1, <3>2 DEF Size
  <2>7. \A i \in 0 .. k : path[i] # b \/ (i = k /\ call.pc = "enter erase")
    BY <2>3, <2>4
  <2>8. Claimed(k, path)'
    <3> SUFFICES ASSUME NEW i \in 0 .. k
                 PROVE  path[i] \notin free /\ (heads'[path[i]] = "file" \/ (Entering' /\ i = k))
      BY <1>2 DEF Claimed
    <3>1. path[i] \notin free /\ (heads[path[i]] = "file" \/ (Entering /\ i = k))
      BY <1>2, <2>2 DEF Claimed
    <3>2. path[i] \in Blocks /\ heads \in [Blocks -> {"none", "free", "file"}]
      BY <1>1, <2>2 DEF TypeOK
    <3> QED BY <1>2, <1>3, <2>7, <3>1, <3>2
  <2>9. AllClaimed(k, path)' /\ (HasPending' <=> HasPending)
    BY <1>2, <2>2 DEF AllClaimed, HasPending, AtTail
  <2>10. Appending(k, path, base, m)'
    <3>1. call'.pc \notin {"none", "fill"}
      BY <1>2
    <3>2. CASE call.pc = "erase"
      <4>1. HasPending
        BY <1>1, <1>2, <3>2 DEF Filled
      <4>2. PendingIsBegun(k, path, base, m)
        BY <2>2, <4>1 DEF Appending
      <4>3. /\ Own(k, path, base, m) /\ call.block = file.pending
            /\ file.pending.block \in Blocks \ free
            /\ \A i \in 0 .. k : path[i] # file.pending.block
        BY <3>2, <4>2 DEF PendingIsBegun
      <4>4. Own(k, path, base, m)'
        BY <1>2, <2>6, <4>3 DEF Own
      <4>5. call'.pc = "head"
        BY <1>2, <3>2
      <4>6. sectors'[file.pending.block] = Blank
        BY <1>1, <1>2, <4>3 DEF TypeOK, b
      <4>7. PendingIsBegun(k, path, base, m)'
        BY <1>2, <4>3, <4>4, <4>5, <4>6 DEF PendingIsBegun
      <4>8. ~Entering'
        BY <1>3, <3>2
      <4> HIDE DEF Own
      <4> QED BY <3>1, <4>4, <4>7, <4>8 DEF Appending
    <3>3. CASE call.pc = "enter erase"
      <4>1. Crossing(k, path, base, m)
        BY <1>3, <2>2, <3>3 DEF Appending
      <4>2. Crossing(k, path, base, m)'
        BY <1>2, <4>1 DEF Crossing
      <4>3. ~HasPending'
        BY <4>2 DEF Crossing, HasPending
      <4>4. Entering'
        BY <1>3, <3>3
      <4> HIDE DEF Crossing
      <4> QED BY <4>2, <4>3, <4>4 DEF Appending
    <3> QED BY <1>2, <3>2, <3>3
  <2>11. file'.mode # "read"
    BY <1>2 DEF Writing
  <2>12. IsFile(k, path, base, m)'
    BY <1>2, <2>2, <2>6, <2>8, <2>9, <2>10, <2>11 DEF IsFile, FileIs
  <2> QED BY <2>12, FileAgain
<1> QED BY <1>2, <1>4, <1>5, <1>6, InvAgain

LEMMA BeginBlockKeeps ==
    ASSUME FileInv, BeginBlock
    PROVE  FileInv'
<1> DEFINE b == call.block.block
<1>1. TypeOK /\ CallOK /\ Filled /\ FormatsBlock /\ FreeIsUnbegun
  BY InvHasFile
<1>2. /\ call.pc = "head" /\ heads' = [heads EXCEPT ![b] = "file"]
      /\ call' = [call EXCEPT !.pc = "sector"]
      /\ UNCHANGED <<sectors, free, file, start, whole, life, durable, formats,
                     crashes, faults>>
  BY DEF BeginBlock, Running, client, counters
<1>3. Writing /\ Writing' /\ start # NoBlock /\ call.rest = {}
      /\ call.op \in {"write", "flush", "close"}
  <2>1. Writing /\ call.rest = {} /\ start # NoBlock
    BY <1>1, <1>2, NoCallIs DEF CallOK, Idle
  <2>2. call.op \in {"write", "flush", "close"}
    BY <1>1, <1>2, <2>1, NoCallIs DEF CallOK, Idle
  <2> QED BY <1>2, <2>1, <2>2 DEF Writing
<1>4. /\ call' \in Call /\ call'.op = call.op /\ call'.rest = {} /\ call'.left = call.left
      /\ call'.after = call.after /\ call'.pc = "sector" /\ call' # NoCall
  <2>1. call \in Call
    BY <1>1 DEF TypeOK
  <2>2. call'.pc = "sector"
    BY <1>2, <2>1 DEF Call
  <2>3. call' # NoCall
    BY <2>2, NoCallIs
  <2> QED BY <1>2, <1>3, <2>1, <2>2, <2>3 DEF Call
<1>5. HasPending /\ HasPending' /\ ~Entering /\ ~Entering' /\ AtTail' /\ file.pos > 0
  <2>1. HasPending /\ file.pos > 0
    BY <1>1, <1>2, <1>3 DEF Filled
  <2> QED BY <1>2, <1>4, <2>1 DEF HasPending, AtTail, Entering
<1>6. PICK k, path, base, m : IsFile(k, path, base, m)
  BY <1>3, InvHasFile DEF HasFile
<1>7. /\ k \in 0 .. NumberOfBlocks - 1 /\ m \in 0 .. TailSector - 1
      /\ path \in [0 .. k -> Blocks] /\ base \in [0 .. k -> 0 .. MaxPosition]
      /\ IsPath(path, k, start) /\ IsChain(sectors, life, k, path, base, m)
      /\ Size(sectors, k, path, base, m) <= MaxPosition
      /\ durable <= Size(sectors, k, path, base, m)
      /\ Claimed(k, path) /\ AllClaimed(k, path) /\ Appending(k, path, base, m)
  BY <1>3, <1>6 DEF IsFile, FileIs
<1>8. PendingIsBegun(k, path, base, m)
  BY <1>5, <1>7 DEF Appending
<1>9. /\ Own(k, path, base, m) /\ b = file.pending.block
      /\ b \in Blocks /\ b \notin free /\ sectors[b] = Blank
      /\ \A i \in 0 .. k : path[i] # b
  BY <1>2, <1>8 DEF PendingIsBegun
<1> HIDE DEF b
<1>10. TypeOK'
  BY <1>1, <1>2, <1>4, <1>9 DEF TypeOK
<1>11. CallOK'
  BY <1>1, <1>2, <1>3, <1>4 DEF CallOK, Idle
<1>12. Filled'
  <2>1. Room(file.head)' = Room(file.head)
    BY <1>2 DEF Room, IsTail
  <2> QED BY <1>1, <1>2, <1>3, <1>4, <1>5, <2>1 DEF Filled
<1>13. FormatsBlock'
  BY <1>2, <1>3 DEF FormatsBlock
<1>14. FreeIsUnbegun'
  <2>1. ASSUME NEW x \in free PROVE heads'[x] # "file"
    <3>1. heads[x] # "file" /\ x \in Blocks /\ x # b
      BY <1>1, <1>9 DEF FreeIsUnbegun, TypeOK
    <3> QED BY <1>1, <1>2, <3>1 DEF TypeOK
  <2> QED BY <1>2, <2>1 DEF FreeIsUnbegun
<1>15. HasFile'
  <2>1. Own(k, path, base, m)'
    BY <1>2, <1>9 DEF Own
  <2>2. heads'[b] = "file"
    BY <1>1, <1>2, <1>9 DEF TypeOK
  <2>3. PendingIsBegun(k, path, base, m)'
    BY <1>2, <1>4, <1>9, <2>1, <2>2 DEF PendingIsBegun
  <2>4. Appending(k, path, base, m)'
    <3> HIDE DEF Own
    <3> QED BY <1>4, <1>5, <2>1, <2>3 DEF Appending
  <2>5. Claimed(k, path)'
    <3> SUFFICES ASSUME NEW i \in 0 .. k
                 PROVE  path[i] \notin free /\ heads'[path[i]] = "file"
      BY <1>2 DEF Claimed
    <3>1. path[i] \notin free /\ heads[path[i]] = "file"
      BY <1>3, <1>5, <1>7 DEF Claimed
    <3>2. path[i] \in Blocks
      BY <1>7
    <3> QED BY <1>1, <1>2, <1>9, <3>1, <3>2 DEF TypeOK
  <2>6. AllClaimed(k, path)'
    BY <1>2, <1>5, <1>7 DEF AllClaimed
  <2>7. file'.mode # "read"
    BY <1>3 DEF Writing
  <2>8. IsFile(k, path, base, m)'
    BY <1>2, <1>7, <2>4, <2>5, <2>6, <2>7 DEF IsFile, FileIs
  <2> QED BY <2>8, FileAgain
<1> QED BY <1>10, <1>11, <1>12, <1>13, <1>14, <1>15, InvAgain

-----------------------------------------------------------------------------
(* A sector is written, or written again with more in it. *)

LEMMA SaverIs ==
    ASSUME FileInv, Running("sector")
    PROVE  /\ Writing /\ start # NoBlock /\ ~Entering /\ call.pc = "sector" /\ ~Idle
           /\ call.op \in {"write", "flush", "close"} /\ call.rest = {}
           /\ file.pos \in Nat /\ file.pos > 0 /\ file.pos <= SectorRoom
           /\ file.position \in Nat /\ file.inBlock \in Nat /\ call.left \in Nat
           /\ file.position + call.left <= MaxPosition /\ file.position <= MaxPosition
           /\ AtTail => HasPending /\ file.pending.block \in Blocks
           /\ file.head \in Address /\ (IsTail(file.head) <=> AtTail)
<1>1. TypeOK /\ CallOK /\ Filled
  BY InvHasFile
<1>2. call.pc = "sector"
  BY DEF Running
<1>3. Writing /\ ~Idle /\ call.rest = {} /\ start # NoBlock
  BY <1>1, <1>2, NoCallIs DEF CallOK, Idle
<1>4. call.op \in {"write", "flush", "close"} /\ ~Entering
  BY <1>1, <1>2, <1>3 DEF CallOK, Entering
<1>5. /\ file.pos \in Nat /\ file.position \in Nat /\ file.inBlock \in Nat
      /\ call.left \in Nat
  BY <1>1, NumbersOfFile DEF TypeOK, Call
<1>6. /\ file.head \in Address /\ (IsTail(file.head) <=> AtTail)
      /\ Room(file.head) \in Nat /\ Room(file.head) <= SectorRoom
  BY <1>3, WriterIsPlaced
<1>7. file.pos > 0 /\ file.pos <= Room(file.head) /\ file.position + call.left <= MaxPosition
      /\ (AtTail => HasPending)
  BY <1>1, <1>2, <1>3 DEF Filled
<1>8. AtTail => file.pending.block \in Blocks
  BY <1>1, <1>3, <1>7 DEF CallOK, HasPending
<1>9. file.pos <= SectorRoom /\ file.position <= MaxPosition
  BY <1>5, <1>6, <1>7, Geometry
<1> QED BY <1>2, <1>3, <1>4, <1>5, <1>6, <1>7, <1>8, <1>9

LEMMA SavedIs ==
    ASSUME FileInv, Running("sector"), file.pos <= file.position
    PROVE  /\ Saved \in Sector /\ Saved.life = life
           /\ Saved.bytes = file.pos /\ Saved.bytes \in 1 .. SectorRoom
           /\ Saved.first = file.position - file.pos
           /\ Saved.first + Saved.bytes = file.position
           /\ AtTail => Saved.inBlock = file.inBlock /\ Saved.link = file.pending.block
<1>1. /\ file.pos \in Nat /\ file.pos > 0 /\ file.pos <= SectorRoom
      /\ file.position \in Nat /\ file.inBlock \in Nat
      /\ AtTail => file.pending.block \in Blocks
      /\ IsTail(file.head) <=> AtTail
  BY SaverIs
<1>2. /\ file.pos \in 1 .. SectorRoom /\ file.pos \in 0 .. SectorRoom
      /\ file.position - file.pos \in Nat
      /\ file.position - file.pos + file.pos = file.position
  BY <1>1, Geometry
<1>3. life \in 0 .. MaxFormats
  BY InvHasFile DEF TypeOK
<1> DEFINE first == file.position - file.pos
           inBlock == IF IsTail(file.head) THEN file.inBlock ELSE 0
           link == IF IsTail(file.head) THEN file.pending.block ELSE NoBlock
<1>4. inBlock \in Nat /\ link \in Blocks \union {NoBlock} /\ first \in Nat
  BY <1>1, <1>2
<1>5. Saved = [first |-> first, life |-> life, bytes |-> file.pos, inBlock |-> inBlock,
               link |-> link]
  BY DEF Saved
<1>6. AtTail => inBlock = file.inBlock /\ link = file.pending.block
  BY <1>1
<1>7. first + file.pos = file.position /\ first = file.position - file.pos
  BY <1>2
<1> HIDE DEF first, inBlock, link, Saved
<1> QED BY <1>2, <1>3, <1>4, <1>5, <1>6, <1>7 DEF Sector

(* A block in which one more sector is written, or the last one again. *)
Continues(blk, now, l, from, n, sector) ==
    /\ blk \in [Sectors -> Sector] /\ Written(blk, l, from, n)
    /\ n \in Nat /\ n + 1 <= TailSector
    /\ sector.life = l /\ sector.bytes \in 1 .. SectorRoom
    /\ sector.first = Ends(blk, from, n)
    /\ now = [blk EXCEPT ![n + 1] = sector]

Continued(blk, now, l, from, n, sector) ==
    /\ Written(now, l, from, n + 1) /\ now[n + 1] = sector
    /\ Ends(now, from, n + 1) = sector.first + sector.bytes
    /\ \A s \in Sectors : s # n + 1 => now[s] = blk[s]

LEMMA OneMoreWritten ==
    ASSUME NEW blk, NEW now, NEW l, NEW from, NEW n, NEW sector,
           Continues(blk, now, l, from, n, sector)
    PROVE  Continued(blk, now, l, from, n, sector)
<1> USE DEF Continues
<1>1. n + 1 \in Sectors /\ n + 1 # 0 /\ n + 1 - 1 = n
  BY Geometry
<1>2. now[n + 1] = sector /\ \A s \in Sectors : s # n + 1 => now[s] = blk[s]
  BY <1>1
<1>3. \A s \in 0 .. n : Ends(now, from, s) = Ends(blk, from, s)
  <2> SUFFICES ASSUME NEW s \in 0 .. n PROVE Ends(now, from, s) = Ends(blk, from, s)
    OBVIOUS
  <2>1. s = 0 \/ (s \in Sectors /\ s # n + 1)
    BY Geometry
  <2> QED BY <1>2, <2>1 DEF Ends
<1>4. ASSUME NEW s \in 1 .. n + 1
      PROVE  /\ now[s].life = l /\ now[s].bytes \in 1 .. SectorRoom
             /\ now[s].first = Ends(now, from, s - 1)
  <2>1. CASE s = n + 1
    <3>1. s - 1 = n /\ n \in 0 .. n /\ now[s] = sector
      BY <1>2, <2>1
    <3>2. Ends(now, from, n) = Ends(blk, from, n)
      BY <1>3, <3>1
    <3>3. now[s].first = Ends(now, from, s - 1)
      BY <3>1, <3>2
    <3> QED BY <3>1, <3>3
  <2>2. CASE s # n + 1
    <3>1. s \in 1 .. n /\ s - 1 \in 0 .. n /\ s \in Sectors
      BY <2>2, Geometry
    <3>2. /\ blk[s].life = l /\ blk[s].bytes \in 1 .. SectorRoom
          /\ blk[s].first = Ends(blk, from, s - 1)
      BY <3>1 DEF Written
    <3> QED BY <1>2, <1>3, <2>2, <3>1, <3>2
  <2> QED BY <2>1, <2>2
<1>5. Ends(now, from, n + 1) = sector.first + sector.bytes
  BY <1>1, <1>2 DEF Ends
<1> QED BY <1>2, <1>4, <1>5 DEF Written, Continued

(* The file with what was in the buffer. *)
SavedInside(k, path, base, m) ==
    /\ ~AtTail /\ m > 0 /\ file.head = At(path[k], m)
    /\ sectors'[path[k]][m] = Saved
    /\ file.inBlock = file.position - base[k]

SavedTail(k, path, base, m) ==
    /\ AtTail /\ k > 0 /\ m = 0 /\ file.head = At(path[k - 1], TailSector)
    /\ file.pending.block = path[k] /\ base[k] = file.position
    /\ sectors'[path[k - 1]][TailSector] = Saved /\ sectors'[path[k]] = Blank
    /\ file.inBlock = file.position - base[k - 1]

SavedIn(k, path, base, m) ==
    /\ k \in 0 .. NumberOfBlocks - 1 /\ m \in 0 .. TailSector - 1
    /\ path \in [0 .. k -> Blocks] /\ base \in [0 .. k -> 0 .. MaxPosition]
    /\ IsPath(path, k, start)
    /\ IsChain(sectors', life, k, path, base, m)
    /\ Size(sectors', k, path, base, m) = file.position
    /\ \A i \in 0 .. k : path[i] \notin free /\ heads[path[i]] = "file"
    /\ crashes + faults = 0 =>
           \A b \in Blocks : b \notin free <=> \E i \in 0 .. k : b = path[i]
    /\ SavedInside(k, path, base, m) \/ SavedTail(k, path, base, m)

LEMMA InsideIsSaved ==
    ASSUME FileInv, Running("sector"), SaveSector,
           NEW k, NEW path, NEW base, NEW m, IsFile(k, path, base, m),
           NEW n \in Nat, n + 1 < TailSector, n = m \/ n + 1 = m,
           file.head = At(path[k], n + 1),
           file.pos <= file.position,
           Ends(sectors[path[k]], base[k], n) = file.position - file.pos,
           file.inBlock = file.position - base[k]
    PROVE  SavedIn(k, path, base, n + 1)
<1> DEFINE blk == sectors[path[k]]
           now == sectors'[path[k]]
<1>1. /\ k \in Nat /\ k \in 0 .. k /\ k \in 0 .. NumberOfBlocks - 1 /\ m \in Nat
      /\ path \in [0 .. k -> Blocks] /\ base \in [0 .. k -> 0 .. MaxPosition]
      /\ sectors \in [Blocks -> [Sectors -> Sector]]
      /\ blk \in [Sectors -> Sector]
      /\ IsPath(path, k, start) /\ IsChain(sectors, life, k, path, base, m)
      /\ \A i, j \in 0 .. k : path[i] = path[j] => i = j
      /\ base[0] = 0
  BY InvHasFile, FileOnMedium DEF IsFile, FileIs
<1>2. Claimed(k, path) /\ AllClaimed(k, path)
  BY DEF IsFile, FileIs
<1>3. Writing /\ ~Entering
  BY SaverIs
<1>4. /\ Saved.life = life /\ Saved.bytes \in 1 .. SectorRoom
      /\ Saved.first = file.position - file.pos
      /\ Saved.first + Saved.bytes = file.position
  BY SavedIs
<1>5. file.head.block = path[k] /\ file.head.sector = n + 1 /\ ~AtTail
  <2>1. file.head.block = path[k] /\ file.head.sector = n + 1
    BY DEF At
  <2> QED BY <2>1, Geometry DEF AtTail
<1>6. /\ sectors' = [sectors EXCEPT ![path[k]] = [blk EXCEPT ![n + 1] = Saved]]
      /\ path[k] \in Blocks
  BY <1>1, <1>5 DEF SaveSector
<1>7. now = [blk EXCEPT ![n + 1] = Saved] /\ \A i \in 0 .. k - 1 : sectors'[path[i]] = sectors[path[i]]
  <2>1. \A i \in 0 .. k - 1 : path[i] # path[k] /\ path[i] \in Blocks
    BY <1>1
  <2> QED BY <1>1, <1>6, <2>1
<1>8. Written(blk, life, base[k], m) /\ \A s \in m + 1 .. TailSector : blk[s] = Unwritten
  <2>1. Part(blk, life, base[k], m)
    BY <1>1, ChainBlocks
  <2> QED BY <2>1 DEF Part
<1>9. Written(blk, life, base[k], n)
  BY <1>1, <1>8 DEF Written
<1>10. /\ Written(now, life, base[k], n + 1) /\ now[n + 1] = Saved
       /\ Ends(now, base[k], n + 1) = file.position
       /\ \A s \in Sectors : s # n + 1 => now[s] = blk[s]
  <2>1. n + 1 <= TailSector
    BY Geometry
  <2> HIDE DEF blk, now, Saved
  <2>2. Saved.first = Ends(blk, base[k], n)
    BY <1>4 DEF blk
  <2>3. Continues(blk, now, life, base[k], n, Saved)
    BY <1>1, <1>4, <1>7, <1>9, <2>1, <2>2 DEF Continues
  <2>4. Continued(blk, now, life, base[k], n, Saved)
    BY <2>3, OneMoreWritten
  <2> QED BY <1>4, <2>4 DEF Continued
<1>11. \A s \in n + 1 + 1 .. TailSector : now[s] = Unwritten
  <2> SUFFICES ASSUME NEW s \in n + 1 + 1 .. TailSector PROVE now[s] = Unwritten
    OBVIOUS
  <2>1. s \in m + 1 .. TailSector /\ s \in Sectors /\ s # n + 1
    BY <1>1, Geometry
  <2> QED BY <1>8, <1>10, <2>1
<1>12. IsChain(sectors', life, k, path, base, n + 1)
  <2>1. Part(now, life, base[k], n + 1)
    BY <1>10, <1>11 DEF Part
  <2>2. \A i \in 0 .. k - 1 : Full(sectors'[path[i]], life, base[i], base[i + 1], path[i + 1])
    BY <1>1, <1>7 DEF IsChain
  <2> QED BY <1>1, <2>1, <2>2 DEF IsChain
<1>13. Size(sectors', k, path, base, n + 1) = file.position
  BY <1>10 DEF Size
<1>14. \A i \in 0 .. k : path[i] \notin free /\ heads[path[i]] = "file"
  BY <1>2, <1>3 DEF Claimed
<1>15. crashes + faults = 0 =>
           \A b \in Blocks : b \notin free <=> \E i \in 0 .. k : b = path[i]
  BY <1>2, <1>5 DEF AllClaimed, HasPending
<1>16. SavedInside(k, path, base, n + 1)
  <2>1. n + 1 > 0
    OBVIOUS
  <2> QED BY <1>5, <1>10, <2>1 DEF SavedInside
<1>17. n + 1 \in 0 .. TailSector - 1
  BY Geometry
<1> QED BY <1>1, <1>12, <1>13, <1>14, <1>15, <1>16, <1>17 DEF SavedIn

(* The file in which a tail is about to lead to the pending block. *)
Leads(k, path, base) ==
    /\ k \in 1 .. NumberOfBlocks - 1
    /\ path \in [0 .. k -> Blocks] /\ base \in [0 .. k -> 0 .. MaxPosition]
    /\ IsPath(path, k, start) /\ base[0] = 0
    /\ \A i \in 0 .. k - 2 : Full(sectors[path[i]], life, base[i], base[i + 1], path[i + 1])
    /\ Written(sectors[path[k - 1]], life, base[k - 1], TailSector - 1)
    /\ Ends(sectors[path[k - 1]], base[k - 1], TailSector - 1) = file.position - file.pos
    /\ file.pos <= file.position
    /\ base[k] = file.position /\ path[k] = file.pending.block
    /\ sectors[path[k]] = Blank
    /\ file.inBlock = file.position - base[k - 1]
    /\ AtTail /\ file.head = At(path[k - 1], TailSector)
    /\ \A i \in 0 .. k : path[i] \notin free /\ heads[path[i]] = "file"
    /\ crashes + faults = 0 =>
           \A b \in Blocks : b \notin free <=> \E i \in 0 .. k : b = path[i]

LEMMA TailIsSaved ==
    ASSUME FileInv, Running("sector"), SaveSector,
           NEW k, NEW path, NEW base, Leads(k, path, base)
    PROVE  SavedIn(k, path, base, 0)
<1> DEFINE blk == sectors[path[k - 1]]
           now == sectors'[path[k - 1]]
           n == TailSector - 1
<1>1. /\ k \in Nat /\ k > 0 /\ k \in 0 .. k /\ k - 1 \in 0 .. k /\ k - 1 # k
      /\ k \in 0 .. NumberOfBlocks - 1 /\ k - 1 + 1 = k
      /\ path \in [0 .. k -> Blocks] /\ base \in [0 .. k -> 0 .. MaxPosition]
      /\ IsPath(path, k, start) /\ base[0] = 0
      /\ \A i \in 0 .. k - 2 : Full(sectors[path[i]], life, base[i], base[i + 1], path[i + 1])
      /\ Written(blk, life, base[k - 1], n)
      /\ Ends(blk, base[k - 1], n) = file.position - file.pos
      /\ file.pos <= file.position
      /\ base[k] = file.position /\ path[k] = file.pending.block
      /\ sectors[path[k]] = Blank
      /\ file.inBlock = file.position - base[k - 1]
      /\ AtTail /\ file.head = At(path[k - 1], TailSector)
      /\ \A i, j \in 0 .. k : path[i] = path[j] => i = j
  BY Geometry DEF Leads, IsPath
<1>2. /\ sectors \in [Blocks -> [Sectors -> Sector]] /\ blk \in [Sectors -> Sector]
      /\ path[k - 1] \in Blocks /\ path[k] \in Blocks /\ path[k - 1] # path[k]
      /\ \A i \in 0 .. k - 2 : path[i] # path[k - 1] /\ path[i] \in Blocks
      /\ n \in Nat /\ n + 1 = TailSector /\ n + 1 <= TailSector
  <2>1. sectors \in [Blocks -> [Sectors -> Sector]]
    BY InvHasFile DEF TypeOK
  <2>2. \A i \in 0 .. k - 2 : i \in 0 .. k /\ i # k - 1
    BY <1>1
  <2>3. path[k - 1] \in Blocks /\ path[k] \in Blocks /\ path[k - 1] # path[k]
    BY <1>1
  <2>4. \A i \in 0 .. k - 2 : path[i] # path[k - 1] /\ path[i] \in Blocks
    BY <1>1, <2>2
  <2>5. n \in Nat /\ n + 1 = TailSector /\ n + 1 <= TailSector
    BY Geometry
  <2> QED BY <2>1, <2>3, <2>4, <2>5
<1>3. /\ Saved.life = life /\ Saved.bytes \in 1 .. SectorRoom
      /\ Saved.first = file.position - file.pos
      /\ Saved.first + Saved.bytes = file.position
      /\ Saved.inBlock = file.inBlock /\ Saved.link = file.pending.block
  BY <1>1, SavedIs
<1> HIDE DEF Saved
<1>4. sectors' = [sectors EXCEPT ![path[k - 1]] = [blk EXCEPT ![TailSector] = Saved]]
  <2>1. file.head.block = path[k - 1] /\ file.head.sector = TailSector
    BY <1>1 DEF At
  <2> QED BY <1>2, <2>1 DEF SaveSector
<1>5. /\ now = [blk EXCEPT ![n + 1] = Saved]
      /\ \A i \in 0 .. k - 2 : sectors'[path[i]] = sectors[path[i]]
      /\ sectors'[path[k]] = Blank
  BY <1>1, <1>2, <1>4
<1>6. Continued(blk, now, life, base[k - 1], n, Saved)
  <2> HIDE DEF blk, now, n
  <2>1. Continues(blk, now, life, base[k - 1], n, Saved)
    BY <1>1, <1>2, <1>3, <1>5 DEF Continues
  <2> QED BY <2>1, OneMoreWritten
<1>7. /\ Written(now, life, base[k - 1], TailSector) /\ now[TailSector] = Saved
      /\ Ends(now, base[k - 1], TailSector) = file.position
  <2> HIDE DEF blk, now
  <2> QED BY <1>2, <1>3, <1>6 DEF Continued
<1>8. Full(now, life, base[k - 1], base[k], path[k])
  BY <1>1, <1>3, <1>7 DEF Full
<1>9. \A i \in 0 .. k - 1 : Full(sectors'[path[i]], life, base[i], base[i + 1], path[i + 1])
  <2> SUFFICES ASSUME NEW i \in 0 .. k - 1
               PROVE  Full(sectors'[path[i]], life, base[i], base[i + 1], path[i + 1])
    OBVIOUS
  <2>1. i = k - 1 \/ i \in 0 .. k - 2
    BY <1>1
  <2>2. CASE i = k - 1
    BY <1>1, <1>8, <2>2
  <2>3. CASE i \in 0 .. k - 2
    <3>1. Full(sectors[path[i]], life, base[i], base[i + 1], path[i + 1])
      BY <1>1, <2>3
    <3> QED BY <1>5, <2>3, <3>1
  <2> QED BY <2>1, <2>2, <2>3
<1>10. Part(sectors'[path[k]], life, base[k], 0)
  <2>1. \A s \in 0 + 1 .. TailSector : Blank[s] = Unwritten
    BY DEF Blank, Sectors
  <2>2. Written(Blank, life, base[k], 0)
    BY DEF Written
  <2> QED BY <1>5, <2>1, <2>2 DEF Part
<1>11. IsChain(sectors', life, k, path, base, 0)
  BY <1>1, <1>9, <1>10 DEF IsChain
<1>12. Size(sectors', k, path, base, 0) = file.position
  BY <1>1 DEF Size, Ends
<1>13. SavedTail(k, path, base, 0)
  BY <1>1, <1>5, <1>7 DEF SavedTail
<1>14. 0 \in 0 .. TailSector - 1
  BY Geometry
<1>15. /\ \A i \in 0 .. k : path[i] \notin free /\ heads[path[i]] = "file"
       /\ crashes + faults = 0 =>
              \A b \in Blocks : b \notin free <=> \E i \in 0 .. k : b = path[i]
  BY DEF Leads
<1> QED BY <1>1, <1>11, <1>12, <1>13, <1>14, <1>15 DEF SavedIn

(* There is a block for each block of a file. *)
LEMMA BlocksSuffice ==
    ASSUME NEW k \in Nat, NEW path \in [0 .. k -> Blocks],
           \A i, j \in 0 .. k : path[i] = path[j] => i = j
    PROVE  k <= NumberOfBlocks - 1
<1>1. IsFiniteSet(0 .. k) /\ Cardinality(0 .. k) = k + 1
  <2>1. 0 \in Int /\ k \in Int /\ ~(0 > k) /\ k - 0 + 1 = k + 1
    OBVIOUS
  <2> QED BY <2>1, FS_Interval
<1>2. IsFiniteSet(Blocks) /\ Cardinality(Blocks) = NumberOfBlocks
  <2> DEFINE last == FirstBlock + NumberOfBlocks - 1
  <2>1. /\ FirstBlock \in Int /\ last \in Int /\ ~(FirstBlock > last)
        /\ last - FirstBlock + 1 = NumberOfBlocks
    BY GeometryAssumption
  <2>2. Blocks = FirstBlock .. last
    BY DEF Blocks
  <2> HIDE DEF last
  <2> QED BY <2>1, <2>2, FS_Interval
<1>3. ~(Cardinality(Blocks) < Cardinality(0 .. k))
  BY <1>1, <1>2, FS_PigeonHole
<1> QED BY <1>1, <1>2, <1>3, Geometry

LEMMA PendingIs ==
    ASSUME FileInv, Running("sector"), AtTail,
           NEW k, NEW path, NEW base, NEW m, IsFile(k, path, base, m)
    PROVE  /\ file.pending.block \in Blocks /\ file.pending.block \notin free
           /\ sectors[file.pending.block] = Blank /\ heads[file.pending.block] = "file"
           /\ Own(k, path, base, m) => \A i \in 0 .. k : path[i] # file.pending.block
           /\ \A i \in 0 .. k : path[i] \notin free /\ heads[path[i]] = "file"
           /\ crashes + faults = 0 =>
                  \A b \in Blocks : b \notin free <=> \/ \E i \in 0 .. k : b = path[i]
                                                      \/ b = file.pending.block
<1>1. Writing /\ ~Entering /\ call.pc = "sector" /\ HasPending
  BY SaverIs
<1>2. Claimed(k, path) /\ AllClaimed(k, path) /\ PendingIsBegun(k, path, base, m)
  BY <1>1 DEF IsFile, FileIs, Appending
<1>3. /\ file.pending.block \in Blocks \ free
      /\ sectors[file.pending.block] = Blank /\ heads[file.pending.block] = "file"
      /\ Own(k, path, base, m) => \A i \in 0 .. k : path[i] # file.pending.block
  BY <1>1, <1>2 DEF PendingIsBegun
<1>4. \A i \in 0 .. k : path[i] \notin free /\ heads[path[i]] = "file"
  BY <1>1, <1>2 DEF Claimed
<1>5. crashes + faults = 0 =>
          \A b \in Blocks : b \notin free <=> \/ \E i \in 0 .. k : b = path[i]
                                              \/ b = file.pending.block
  BY <1>1, <1>2 DEF AllClaimed
<1> QED BY <1>3, <1>4, <1>5

(* A tail that was not on the medium yet adds a block to the file. *)
LEMMA OwnTailLeads ==
    ASSUME FileInv, Running("sector"), AtTail,
           NEW k, NEW path, NEW base, NEW m, IsFile(k, path, base, m),
           Own(k, path, base, m), m + 1 = TailSector
    PROVE  \E path2, base2 : Leads(k + 1, path2, base2)
<1> DEFINE b == file.pending.block
           K == k + 1
           P == [i \in 0 .. K |-> IF i <= k THEN path[i] ELSE b]
           B == [i \in 0 .. K |-> IF i <= k THEN base[i] ELSE file.position]
           z == Size(sectors, k, path, base, m)
<1>1. /\ k \in Nat /\ k \in 0 .. k /\ m \in Nat /\ k \in 0 .. NumberOfBlocks - 1
      /\ path \in [0 .. k -> Blocks] /\ base \in [0 .. k -> 0 .. MaxPosition]
      /\ path[0] = start /\ base[0] = 0
      /\ IsChain(sectors, life, k, path, base, m)
      /\ \A i, j \in 0 .. k : path[i] = path[j] => i = j
      /\ \A i \in 0 .. k : base[i] \in Nat
  BY InvHasFile, FileOnMedium DEF IsFile
<1>2. /\ b \in Blocks /\ b \notin free /\ sectors[b] = Blank /\ heads[b] = "file"
      /\ \A i \in 0 .. k : path[i] # b
      /\ \A i \in 0 .. k : path[i] \notin free /\ heads[path[i]] = "file"
      /\ crashes + faults = 0 =>
             \A x \in Blocks : x \notin free <=> \/ \E i \in 0 .. k : x = path[i]
                                                 \/ x = b
  BY PendingIs
<1>3. z \in Nat /\ file.position = z + file.pos /\ file.inBlock = file.position - base[k]
      /\ file.head = At(path[k], TailSector)
  BY InvHasFile, SizeIs DEF Own
<1>4. file.position \in 0 .. MaxPosition /\ file.pos \in Nat /\ file.pos <= file.position
      /\ z = file.position - file.pos
  <2>1. file.pos \in Nat /\ file.position \in Nat /\ file.position <= MaxPosition
    BY SaverIs
  <2> HIDE DEF z
  <2> QED BY <1>3, <2>1, Geometry, SMTT(30)
<1> HIDE DEF b
<1>5. /\ K \in Nat /\ k \in 0 .. K /\ K - 1 = k /\ ~(K <= k) /\ K \in 0 .. K
      /\ \A i \in 0 .. k : i \in 0 .. K /\ i <= k
      /\ \A i \in 0 .. K : i \in 0 .. k \/ i = K
  BY <1>1
<1>6. /\ P \in [0 .. K -> Blocks]
      /\ \A i \in 0 .. k : P[i] = path[i]
      /\ P[K] = b
  <2> HIDE DEF K
  <2> QED BY <1>1, <1>2, <1>5
<1>7. /\ B \in [0 .. K -> 0 .. MaxPosition]
      /\ \A i \in 0 .. k : B[i] = base[i]
      /\ B[K] = file.position
  <2> HIDE DEF K
  <2> QED BY <1>1, <1>4, <1>5
<1> HIDE DEF P, B
<1>8. \A i, j \in 0 .. K : P[i] = P[j] => i = j
  <2> HIDE DEF K
  <2> QED BY <1>1, <1>2, <1>5, <1>6
<1>9. K \in 1 .. NumberOfBlocks - 1
  <2>1. K <= NumberOfBlocks - 1
    <3> HIDE DEF K
    <3> QED BY <1>5, <1>6, <1>8, BlocksSuffice
  <2> QED BY <1>1, <2>1, Geometry
<1>10. IsPath(P, K, start) /\ B[0] = 0
  <2>1. 0 \in 0 .. k
    BY <1>1
  <2>2. P[0] = start /\ B[0] = 0
    BY <1>1, <1>6, <1>7, <2>1
  <2> QED BY <1>8, <2>2 DEF IsPath
<1>11. \A i \in 0 .. K - 2 : Full(sectors[P[i]], life, B[i], B[i + 1], P[i + 1])
  <2> SUFFICES ASSUME NEW i \in 0 .. K - 2
               PROVE  Full(sectors[P[i]], life, B[i], B[i + 1], P[i + 1])
    OBVIOUS
  <2>1. i \in 0 .. k /\ i + 1 \in 0 .. k /\ i < k
    BY <1>1
  <2>2. Full(sectors[path[i]], life, base[i], base[i + 1], path[i + 1])
    BY <1>1, <2>1, ChainBlocks
  <2>3. P[i] = path[i] /\ B[i] = base[i] /\ P[i + 1] = path[i + 1] /\ B[i + 1] = base[i + 1]
    BY <1>6, <1>7, <2>1
  <2> QED BY <2>2, <2>3
<1>12. /\ Written(sectors[path[k]], life, base[k], TailSector - 1)
       /\ Ends(sectors[path[k]], base[k], TailSector - 1) = z
  <2>1. m = TailSector - 1
    BY <1>1, Geometry
  <2>2. Part(sectors[path[k]], life, base[k], m)
    BY <1>1, ChainBlocks
  <2> QED BY <2>1, <2>2 DEF Part, Size
<1>13. P[K - 1] = path[k] /\ B[K - 1] = base[k]
  BY <1>1, <1>5, <1>6, <1>7
<1> HIDE DEF z
<1>14. /\ Written(sectors[P[K - 1]], life, B[K - 1], TailSector - 1)
       /\ Ends(sectors[P[K - 1]], B[K - 1], TailSector - 1) = file.position - file.pos
       /\ file.pos <= file.position
       /\ B[K] = file.position /\ P[K] = file.pending.block
       /\ sectors[P[K]] = Blank
       /\ file.inBlock = file.position - B[K - 1]
       /\ file.head = At(P[K - 1], TailSector)
  BY <1>2, <1>3, <1>4, <1>6, <1>7, <1>12, <1>13 DEF b
<1>15. \A i \in 0 .. K : P[i] \notin free /\ heads[P[i]] = "file"
  <2> HIDE DEF K
  <2> QED BY <1>2, <1>5, <1>6
<1>16. crashes + faults = 0 =>
           \A x \in Blocks : x \notin free <=> \E i \in 0 .. K : x = P[i]
  <2> SUFFICES ASSUME crashes + faults = 0, NEW x \in Blocks
               PROVE  x \notin free <=> \E i \in 0 .. K : x = P[i]
    OBVIOUS
  <2>1. x \notin free <=> \/ \E i \in 0 .. k : x = path[i]
                          \/ x = b
    BY <1>2
  <2> HIDE DEF K
  <2>2. (\E i \in 0 .. K : x = P[i]) <=> \/ \E i \in 0 .. k : x = path[i]
                                         \/ x = b
    BY <1>5, <1>6
  <2> QED BY <2>1, <2>2
<1>17. Leads(K, P, B)
  <2> HIDE DEF K
  <2> QED BY <1>6, <1>7, <1>9, <1>10, <1>11, <1>14, <1>15, <1>16 DEF Leads
<1> QED BY <1>17

(* A tail that is written again leads to the same block, further on. *)
LEMMA LinkedTailLeads ==
    ASSUME FileInv, Running("sector"), AtTail,
           NEW k, NEW path, NEW base, NEW m, IsFile(k, path, base, m),
           Linked(k, path, base, m)
    PROVE  /\ \E base2 : Leads(k, path, base2)
           /\ Size(sectors, k, path, base, m) <= file.position
<1> DEFINE j == k - 1
           tail == sectors[path[j]][TailSector]
           B == [base EXCEPT ![k] = file.position]
<1>1. /\ k \in Nat /\ k \in 0 .. k /\ m \in Nat /\ k \in 0 .. NumberOfBlocks - 1
      /\ path \in [0 .. k -> Blocks] /\ base \in [0 .. k -> 0 .. MaxPosition]
      /\ path[0] = start /\ base[0] = 0
      /\ IsChain(sectors, life, k, path, base, m)
      /\ \A i \in 0 .. k : base[i] \in Nat
      /\ sectors \in [Blocks -> [Sectors -> Sector]]
  BY InvHasFile, FileOnMedium DEF IsFile
<1>2. IsPath(path, k, start)
  BY DEF IsFile, FileIs
<1>3. /\ file.pending.block \in Blocks /\ file.pending.block \notin free
      /\ sectors[file.pending.block] = Blank
      /\ \A i \in 0 .. k : path[i] \notin free /\ heads[path[i]] = "file"
      /\ crashes + faults = 0 =>
             \A x \in Blocks : x \notin free <=> \/ \E i \in 0 .. k : x = path[i]
                                                 \/ x = file.pending.block
  BY PendingIs
<1>4. /\ k > 0 /\ m = 0 /\ file.head = At(path[j], TailSector)
      /\ file.pending.block = path[k]
      /\ file.position = tail.first + file.pos /\ tail.bytes <= file.pos
      /\ file.inBlock = file.position - base[j]
  BY DEF Linked
<1>5. k \in 1 .. NumberOfBlocks - 1 /\ j \in 0 .. k /\ j < k /\ j + 1 = k /\ k # 0 /\ j # k
  BY <1>1, <1>4
<1>6. /\ file.position \in 0 .. MaxPosition /\ file.pos \in Nat /\ file.position \in Nat
  BY SaverIs, Geometry
<1>7. tail.first \in Nat /\ tail.bytes \in Nat
  <2>1. path[j] \in Blocks /\ TailSector \in Sectors
    BY <1>1, <1>5, Geometry
  <2> QED BY <2>1, InvHasFile, SectorsAreNumbers
<1>8. Full(sectors[path[j]], life, base[j], base[k], path[k])
  BY <1>1, <1>5, ChainBlocks
<1>9. /\ Written(sectors[path[j]], life, base[j], TailSector)
      /\ Ends(sectors[path[j]], base[j], TailSector) = base[k]
      /\ tail.first = Ends(sectors[path[j]], base[j], TailSector - 1)
      /\ Ends(sectors[path[j]], base[j], TailSector) = tail.first + tail.bytes
  <2>1. /\ Written(sectors[path[j]], life, base[j], TailSector)
        /\ Ends(sectors[path[j]], base[j], TailSector) = base[k]
    BY <1>8 DEF Full
  <2>2. TailSector \in 1 .. TailSector /\ TailSector # 0
    BY Geometry
  <2> QED BY <2>1, <2>2 DEF Written, Ends
<1>10. Written(sectors[path[j]], life, base[j], TailSector - 1)
  <2>1. \A s \in 1 .. TailSector - 1 : s \in 1 .. TailSector
    BY Geometry
  <2> QED BY <1>9, <2>1 DEF Written
<1>11. /\ file.pos <= file.position /\ tail.first = file.position - file.pos
       /\ base[k] <= file.position
  <2>1. base[k] = tail.first + tail.bytes /\ base[k] \in Nat
    BY <1>1, <1>9
  <2> HIDE DEF tail
  <2> QED BY <1>4, <1>6, <1>7, <2>1
<1>12. /\ B \in [0 .. k -> 0 .. MaxPosition] /\ B[k] = file.position
       /\ \A i \in 0 .. k : i # k => B[i] = base[i]
  BY <1>1, <1>6
<1> HIDE DEF B
<1>13. \A i \in 0 .. k - 2 : Full(sectors[path[i]], life, B[i], B[i + 1], path[i + 1])
  <2> SUFFICES ASSUME NEW i \in 0 .. k - 2
               PROVE  Full(sectors[path[i]], life, B[i], B[i + 1], path[i + 1])
    OBVIOUS
  <2>1. i \in 0 .. k /\ i + 1 \in 0 .. k /\ i < k /\ i # k /\ i + 1 # k
    BY <1>1
  <2>2. Full(sectors[path[i]], life, base[i], base[i + 1], path[i + 1])
    BY <1>1, <2>1, ChainBlocks
  <2>3. B[i] = base[i] /\ B[i + 1] = base[i + 1]
    BY <1>12, <2>1
  <2> QED BY <2>2, <2>3
<1>14. B[0] = 0 /\ B[k - 1] = base[k - 1]
  <2>1. 0 \in 0 .. k /\ 0 # k /\ k - 1 \in 0 .. k /\ k - 1 # k
    BY <1>5
  <2> QED BY <1>1, <1>12, <2>1
<1>15. /\ Written(sectors[path[k - 1]], life, B[k - 1], TailSector - 1)
       /\ Ends(sectors[path[k - 1]], B[k - 1], TailSector - 1) = file.position - file.pos
       /\ file.inBlock = file.position - B[k - 1]
       /\ file.head = At(path[k - 1], TailSector)
       /\ path[k] = file.pending.block /\ sectors[path[k]] = Blank
  BY <1>3, <1>4, <1>9, <1>10, <1>11, <1>14
<1>16. crashes + faults = 0 =>
           \A x \in Blocks : x \notin free <=> \E i \in 0 .. k : x = path[i]
  BY <1>1, <1>3, <1>4
<1>17. Leads(k, path, B)
  BY <1>1, <1>2, <1>3, <1>5, <1>11, <1>12, <1>13, <1>14, <1>15, <1>16 DEF Leads
<1>18. Size(sectors, k, path, base, m) <= file.position
  BY <1>4, <1>11 DEF Size, Ends
<1> QED BY <1>17, <1>18

(* Whatever is saved goes on where the file ended, or writes the last sector *)
(* again with more in it.                                                   *)
LEMMA SectorSaved ==
    ASSUME FileInv, Running("sector"), SaveSector
    PROVE  /\ \E k, path, base, m : SavedIn(k, path, base, m)
           /\ durable <= file.position
           /\ file.pos <= file.position
<1>1. PICK k, path, base, m : IsFile(k, path, base, m)
  BY SaverIs, InvHasFile DEF HasFile
<1> DEFINE z == Size(sectors, k, path, base, m)
           blk == sectors[path[k]]
<1>2. /\ k \in Nat /\ k \in 0 .. k /\ m \in Nat /\ m < TailSector
      /\ path \in [0 .. k -> Blocks] /\ base \in [0 .. k -> 0 .. MaxPosition]
      /\ IsChain(sectors, life, k, path, base, m)
  BY <1>1, InvHasFile, FileOnMedium
<1>3. /\ Writing /\ ~Entering
      /\ file.pos \in Nat /\ file.pos > 0 /\ file.position \in Nat
  BY SaverIs
<1>4. z \in Nat /\ durable \in Nat /\ durable <= z
  <2>1. durable <= z
    BY <1>1 DEF IsFile, FileIs
  <2>2. z \in Nat /\ durable \in Nat
    BY <1>1, InvHasFile, SizeIs DEF TypeOK
  <2> QED BY <2>1, <2>2
<1>5. CASE AtTail
  <2>1. CASE Own(k, path, base, m) /\ m + 1 = TailSector
    <3>1. \E path2, base2 : Leads(k + 1, path2, base2)
      BY <1>1, <1>5, <2>1, OwnTailLeads
    <3>2. PICK path2, base2 : Leads(k + 1, path2, base2)
      BY <3>1
    <3>3. SavedIn(k + 1, path2, base2, 0)
      BY <3>2, TailIsSaved
    <3>4. file.position = z + file.pos
      BY <2>1 DEF Own
    <3> HIDE DEF z
    <3>5. durable <= file.position /\ file.pos <= file.position
      BY <1>3, <1>4, <3>4
    <3> QED BY <3>3, <3>5
  <2>2. CASE Linked(k, path, base, m)
    <3>1. (\E base2 : Leads(k, path, base2)) /\ z <= file.position
      BY <1>1, <1>5, <2>2, LinkedTailLeads
    <3>2. PICK base2 : Leads(k, path, base2)
      BY <3>1
    <3>3. SavedIn(k, path, base2, 0)
      BY <3>2, TailIsSaved
    <3>4. file.pos <= file.position
      BY <3>2 DEF Leads
    <3> HIDE DEF z
    <3>5. durable <= file.position
      BY <1>3, <1>4, <3>1
    <3> QED BY <3>3, <3>4, <3>5
  <2> QED BY <1>1, <1>3, <1>5, <2>1, <2>2, TailIsOwn
<1>6. CASE ~AtTail
  <2>1. Own(k, path, base, m) \/ Kept(k, path, base, m) \/ Linked(k, path, base, m)
    BY <1>1, <1>3 DEF IsFile, FileIs, Appending
  <2>2. ~Linked(k, path, base, m)
    BY <1>6 DEF Linked, AtTail, At
  <2>3. CASE Own(k, path, base, m)
    <3>1. /\ file.head = At(path[k], m + 1) /\ file.position = z + file.pos
          /\ file.inBlock = file.position - base[k]
      BY <2>3 DEF Own
    <3>2. Ends(blk, base[k], m) = z
      BY DEF Size
    <3>3. m + 1 < TailSector
      <4>1. m + 1 # TailSector
        BY <1>6, <3>1 DEF AtTail, At
      <4> QED BY <1>2, <4>1, Geometry
    <3>4. /\ z = file.position - file.pos /\ file.pos <= file.position
          /\ durable <= file.position
      <4> HIDE DEF z
      <4> QED BY <1>3, <1>4, <3>1
    <3>5. Ends(blk, base[k], m) = file.position - file.pos
      BY <3>2, <3>4
    <3>6. SavedIn(k, path, base, m + 1)
      BY <1>1, <1>2, <3>1, <3>3, <3>4, <3>5, InsideIsSaved
    <3> QED BY <3>4, <3>6
  <2>4. CASE Kept(k, path, base, m)
    <3> DEFINE n == m - 1
    <3>1. /\ m > 0 /\ file.head = At(path[k], m)
          /\ file.position = blk[m].first + file.pos
          /\ blk[m].bytes <= file.pos
          /\ file.inBlock = file.position - base[k]
      BY <2>4 DEF Kept
    <3>2. n \in Nat /\ n + 1 = m /\ m \in Sectors /\ m \in 1 .. m /\ m # 0
      BY <1>2, <3>1, Geometry
    <3>3. blk[m].first \in Nat /\ blk[m].bytes \in Nat
      BY <1>2, <3>2, InvHasFile, SectorsAreNumbers
    <3>4. Part(blk, life, base[k], m)
      BY <1>2, ChainBlocks
    <3>5. blk[m].first = Ends(blk, base[k], n) /\ z = blk[m].first + blk[m].bytes
      BY <3>2, <3>4 DEF Part, Written, Size, Ends
    <3>6. n + 1 < TailSector
      BY <1>2, <3>2
    <3>7. /\ blk[m].first = file.position - file.pos /\ file.pos <= file.position
          /\ durable <= file.position
      <4> HIDE DEF blk, z
      <4> QED BY <1>3, <1>4, <3>1, <3>3, <3>5
    <3>8. Ends(blk, base[k], n) = file.position - file.pos /\ file.head = At(path[k], n + 1)
      BY <3>1, <3>2, <3>5, <3>7
    <3> HIDE DEF n
    <3>9. SavedIn(k, path, base, n + 1)
      BY <1>1, <1>2, <3>1, <3>2, <3>6, <3>7, <3>8, InsideIsSaved
    <3> QED BY <3>7, <3>9
  <2> QED BY <2>1, <2>2, <2>3, <2>4
<1> QED BY <1>5, <1>6

(* What does not change while a sector is saved. *)
SavesOnly ==
    /\ SaveSector
    /\ UNCHANGED <<heads, free, start, whole, life, formats, crashes>>
    /\ durable' \in Nat /\ durable' <= file.position
    /\ faults' \in 0 .. MaxFaults /\ (faults' = 0 => faults = 0)

LEMMA SavedIsFile ==
    ASSUME FileInv, Running("sector"), SavesOnly,
           NEW k, NEW path, NEW base, NEW m, SavedIn(k, path, base, m),
           file'.mode # "read",
           HasPending' => \E i \in 0 .. k : path[i] = file'.pending.block,
           Writing' => Appending(k, path, base, m)'
    PROVE  HasFile'
<1>1. /\ k \in Nat /\ k \in 0 .. NumberOfBlocks - 1 /\ m \in 0 .. TailSector - 1
      /\ path \in [0 .. k -> Blocks] /\ base \in [0 .. k -> 0 .. MaxPosition]
      /\ IsPath(path, k, start)
      /\ IsChain(sectors', life, k, path, base, m)
      /\ Size(sectors', k, path, base, m) = file.position
      /\ \A i \in 0 .. k : path[i] \notin free /\ heads[path[i]] = "file"
  BY DEF SavedIn
<1>2. file.position <= MaxPosition /\ start # NoBlock
  BY SaverIs
<1>3. UNCHANGED <<heads, free, start, life, crashes>> /\ durable' <= file.position
  BY DEF SavesOnly
<1>4. crashes' + faults' = 0 => crashes + faults = 0
  <2>1. crashes \in Nat /\ faults \in Nat /\ faults' \in Nat /\ crashes' = crashes
    BY InvHasFile, BoundsAssumption DEF TypeOK, SavesOnly
  <2>2. faults' = 0 => faults = 0
    BY DEF SavesOnly
  <2>3. crashes + faults' = 0 => crashes = 0 /\ faults' = 0
    BY <2>1, NothingWrong
  <2>4. 0 + 0 = 0
    OBVIOUS
  <2> QED BY <2>1, <2>2, <2>3, <2>4
<1>5. Claimed(k, path)'
  BY <1>1, <1>3 DEF Claimed
<1>6. AllClaimed(k, path)'
  <2> SUFFICES ASSUME crashes' + faults' = 0, NEW b \in Blocks
               PROVE  b \notin free' <=> \/ \E i \in 0 .. k : b = path[i]
                                         \/ HasPending' /\ b = file'.pending.block
    BY DEF AllClaimed
  <2>1. b \notin free <=> \E i \in 0 .. k : b = path[i]
    BY <1>4 DEF SavedIn
  <2>2. HasPending' /\ b = file'.pending.block => \E i \in 0 .. k : b = path[i]
    OBVIOUS
  <2>3. free' = free
    BY <1>3
  <2> QED BY <2>1, <2>2, <2>3
<1>7. Size(sectors, k, path, base, m)' <= MaxPosition /\ durable' <= Size(sectors, k, path, base, m)'
  BY <1>1, <1>2, <1>3
<1>8. IsPath(path, k, start)' /\ IsChain(sectors, life, k, path, base, m)'
  BY <1>1, <1>3
<1>9. FileIs(k, path, base, m)'
  BY <1>5, <1>6, <1>7, <1>8 DEF FileIs
<1>10. IsFile(k, path, base, m)'
  BY <1>1, <1>9 DEF IsFile
<1> QED BY <1>10, FileAgain

(* The rest of the invariant, whichever way the call goes on. *)
LEMMA SavedAgain ==
    ASSUME FileInv, Running("sector"), SavesOnly, file.pos <= file.position,
           file' \in File, call' \in Call, CallOK', Filled', HasFile'
    PROVE  FileInv'
<1>1. TypeOK /\ FreeIsUnbegun /\ start # NoBlock
  BY InvHasFile, SaverIs
<1>2. sectors' \in [Blocks -> [Sectors -> Sector]]
  <2>1. Saved \in Sector
    BY SavedIs
  <2>2. sectors \in [Blocks -> [Sectors -> Sector]]
    BY <1>1 DEF TypeOK
  <2> HIDE DEF Saved
  <2> QED BY <2>1, <2>2 DEF SavesOnly, SaveSector
<1>3. TypeOK'
  BY <1>1, <1>2 DEF TypeOK, SavesOnly
<1>4. FormatsBlock'
  BY <1>1 DEF FormatsBlock, SavesOnly
<1>5. FreeIsUnbegun'
  BY <1>1 DEF FreeIsUnbegun, SavesOnly
<1> QED BY <1>3, <1>4, <1>5, InvAgain

LEMMA ReturnsAgain ==
    ASSUME FileInv, Running("sector"), UNCHANGED start, call' = NoCall,
           file' = file \/ file' = Closed
    PROVE  /\ file' \in File /\ call' \in Call /\ CallOK' /\ Filled' /\ file'.mode # "read"
           /\ HasPending' => HasPending /\ file' = file
           /\ Writing' => file' = file
<1>1. TypeOK /\ CallOK /\ Filled /\ Writing /\ start # NoBlock /\ ~Idle
  BY InvHasFile, SaverIs
<1>2. /\ NoCall \in Call /\ NoCall.op = "none" /\ NoCall.pc = "none" /\ NoCall.left = 0
      /\ NoCall.after = "return" /\ NoCall.rest = {}
  BY NoCallIs
<1>3. Closed \in File /\ Closed.mode = "closed" /\ Closed.pending = NoGiven
  BY ClosedIs
<1>4. file' \in File /\ call' \in Call
  BY <1>1, <1>2, <1>3 DEF TypeOK
<1>5. Writing' => file' = file
  BY <1>3 DEF Writing
<1>6. HasPending' => HasPending /\ file' = file
  BY <1>3 DEF HasPending, AtTail
<1>7. CallOK'
  <2>1. file.mode # "closed"
    BY <1>1 DEF Writing
  <2>2. Writing' => file'.pending = NoGiven \/ file'.pending.block \in Blocks
    BY <1>1, <1>5 DEF CallOK
  <2>3. ~Writing' => file'.pending = NoGiven
    BY <1>1, <1>3 DEF Writing
  <2>4. file'.mode = "closed" => file' = Closed
    BY <2>1
  <2>5. Idle' /\ call'.pc = "none" /\ call'.op = "none" /\ call'.rest = {} /\ start' # NoBlock
    BY <1>1, <1>2 DEF Idle
  <2> QED BY <2>2, <2>3, <2>4, <2>5 DEF CallOK
<1>8. Filled'
  <2> SUFFICES ASSUME Writing' PROVE Filled'
    BY DEF Filled
  <2>1. file' = file
    BY <1>5
  <2>2. file.pos <= Room(file.head)
    BY <1>1 DEF Filled
  <2>3. file.position + 0 <= MaxPosition
    <3>1. file.position \in Nat /\ file.position <= MaxPosition
      BY SaverIs
    <3> QED BY <3>1
  <2>4. Room(file.head)' = Room(file.head)
    BY <2>1 DEF Room, IsTail
  <2> QED BY <1>2, <2>1, <2>2, <2>3, <2>4 DEF Filled
<1>9. file'.mode # "read"
  BY <1>1, <1>3 DEF Writing
<1> QED BY <1>4, <1>5, <1>6, <1>7, <1>8, <1>9

(* The sector is left in the buffer, to be written again with more in it.   *)
LEMMA KeptIsFile ==
    ASSUME FileInv, Running("sector"), SavesOnly, call' = NoCall,
           file' = file \/ file' = Closed,
           Writing' /\ faults' = 0 => file.mode = "multiple"
    PROVE  FileInv'
<1>1. /\ file' \in File /\ call' \in Call /\ CallOK' /\ Filled' /\ file'.mode # "read"
      /\ HasPending' => HasPending /\ file' = file
      /\ Writing' => file' = file
  BY ReturnsAgain DEF SavesOnly
<1>2. (\E k, path, base, m : SavedIn(k, path, base, m)) /\ file.pos <= file.position
  BY SectorSaved DEF SavesOnly
<1>3. PICK k, path, base, m : SavedIn(k, path, base, m)
  BY <1>2
<1>4. /\ Saved.first + Saved.bytes = file.position /\ Saved.bytes = file.pos
      /\ file.pos \in Nat
  BY <1>2, SavedIs, SaverIs
<1> HIDE DEF Saved
<1>5. /\ ~Entering' /\ call'.pc = "none" /\ k \in Nat /\ k \in 0 .. k
      /\ path \in [0 .. k -> Blocks]
      /\ \A i \in 0 .. k : path[i] \notin free /\ heads[path[i]] = "file"
      /\ free' = free /\ heads' = heads
  BY <1>3, NoCallIs DEF Entering, SavedIn, SavesOnly
<1>6. CASE SavedInside(k, path, base, m)
  <2>1. /\ ~AtTail /\ m > 0 /\ file.head = At(path[k], m)
        /\ sectors'[path[k]][m] = Saved /\ file.inBlock = file.position - base[k]
    BY <1>6 DEF SavedInside
  <2>2. ~HasPending'
    BY <1>1, <2>1 DEF HasPending
  <2>3. ASSUME Writing' PROVE Appending(k, path, base, m)'
    <3>1. file' = file /\ (faults' = 0 => file.mode = "multiple")
      BY <1>1, <2>3
    <3>2. Kept(k, path, base, m)'
      <4>1. sectors'[path[k]][m].first + file.pos = file.position
            /\ sectors'[path[k]][m].bytes <= file.pos
        BY <1>4, <2>1
      <4> QED BY <2>1, <3>1, <4>1 DEF Kept
    <3> QED BY <1>5, <2>2, <3>1, <3>2 DEF Appending
  <2>4. HasFile'
    BY <1>1, <1>3, <2>2, <2>3, SavedIsFile
  <2> QED BY <1>1, <1>2, <2>4, SavedAgain
<1>7. CASE SavedTail(k, path, base, m)
  <2>1. /\ AtTail /\ k > 0 /\ m = 0 /\ file.head = At(path[k - 1], TailSector)
        /\ file.pending.block = path[k]
        /\ sectors'[path[k - 1]][TailSector] = Saved /\ sectors'[path[k]] = Blank
        /\ file.inBlock = file.position - base[k - 1]
    BY <1>7 DEF SavedTail
  <2>2. HasPending' => \E i \in 0 .. k : path[i] = file'.pending.block
    BY <1>1, <1>5, <2>1
  <2>3. ASSUME Writing' PROVE Appending(k, path, base, m)'
    <3>1. file' = file /\ (faults' = 0 => file.mode = "multiple")
      BY <1>1, <2>3
    <3>2. Linked(k, path, base, m)'
      <4>1. sectors'[path[k - 1]][TailSector].first + file.pos = file.position
            /\ sectors'[path[k - 1]][TailSector].bytes <= file.pos
        BY <1>4, <2>1
      <4> QED BY <2>1, <3>1, <4>1 DEF Linked
    <3>3. ~Own(k, path, base, m)'
      <4>1. file.head # At(path[k], m + 1)
        BY <2>1, Geometry DEF At
      <4> QED BY <3>1, <4>1 DEF Own
    <3>4. PendingIsBegun(k, path, base, m)'
      <4>1. /\ file'.pending.block \in Blocks \ free'
            /\ sectors'[file'.pending.block] = Blank
            /\ heads'[file'.pending.block] = "file"
        BY <1>5, <2>1, <3>1
      <4> QED BY <1>5, <3>3, <4>1 DEF PendingIsBegun
    <3> QED BY <1>5, <3>1, <3>2, <3>4 DEF Appending
  <2>4. HasFile'
    BY <1>1, <1>3, <2>2, <2>3, SavedIsFile
  <2> QED BY <1>1, <1>2, <2>4, SavedAgain
<1> QED BY <1>3, <1>6, <1>7 DEF SavedIn

(* What flush() leaves to the call that it was a part of. *)
LEMMA ContinueIs ==
    ASSUME FileInv, Writing, start # NoBlock, start' = start,
           call.op \in {"write", "flush", "close"},
           NEW f \in File, f.mode = file.mode, f.pos = 0, f.pending = NoGiven,
           f.position = file.position, Continue(f)
    PROVE  /\ file' \in File /\ call' \in Call /\ CallOK' /\ Filled'
           /\ file'.mode # "read" /\ ~HasPending' /\ call'.pc \in {"none", "fill"}
           /\ Writing' => file' = f
<1>1. /\ TypeOK /\ CallOK /\ Filled
      /\ file.position \in Nat /\ call.left \in Nat /\ call.size \in Nat
      /\ file.position + call.left <= MaxPosition /\ file.position + 0 <= MaxPosition
  <2>1. TypeOK /\ CallOK /\ Filled
    BY InvHasFile
  <2>2. file.position \in Nat /\ call.left \in Nat /\ call.size \in Nat
    BY <2>1, NumbersOfFile DEF TypeOK, Call
  <2>3. file.position + call.left <= MaxPosition
    BY <2>1 DEF Filled
  <2> QED BY <2>1, <2>2, <2>3, Geometry
<1>2. /\ file' = IF call.op = "close" THEN Closed ELSE f
      /\ \/ call' = NoCall
         \/ call' = Filling(call.left, call.size) /\ call.after \in {"fill", "fill unless full"}
  BY DEF Continue
<1>3. Closed \in File /\ Closed.mode = "closed" /\ Closed.pending = NoGiven
  BY ClosedIs
<1>4. \/ call' = NoCall
      \/ call' = Filling(call.left, call.size) /\ call.left > 0 /\ call.op = "write"
  BY <1>1, <1>2 DEF Filled
<1>5. /\ NoCall \in Call /\ NoCall.pc = "none" /\ NoCall.left = 0 /\ NoCall.op = "none"
      /\ NoCall.after = "return" /\ NoCall.rest = {}
  BY NoCallIs
<1>6. 0 <= Room(f.head)
  BY Geometry DEF Room
<1>7. /\ file' \in File /\ file'.mode # "read" /\ ~HasPending' /\ file'.pending = NoGiven
      /\ file'.mode = "closed" => file' = Closed
      /\ Writing' => file' = f
      /\ start' # NoBlock
  <2>1. file.mode # "read" /\ file.mode # "closed"
    BY DEF Writing
  <2>2. Closed.mode \notin {"write", "multiple"}
    BY <1>3
  <2> QED BY <1>2, <1>3, <2>1, <2>2 DEF HasPending, Writing
<1>8. CASE call' = NoCall
  <2>1. Idle' /\ call'.pc = "none" /\ call'.rest = {} /\ call'.op = "none" /\ call' \in Call
    BY <1>5, <1>8 DEF Idle
  <2>2. CallOK'
    BY <1>7, <2>1 DEF CallOK
  <2>3. Filled'
    <3> SUFFICES ASSUME Writing' PROVE Filled'
      BY DEF Filled
    <3>1. file' = f
      BY <1>7
    <3>2. file'.pos <= Room(file.head)'
      BY <1>6, <3>1 DEF Room, IsTail
    <3>3. file'.position + call'.left <= MaxPosition
      BY <1>1, <1>5, <1>8, <3>1
    <3> QED BY <1>5, <1>8, <3>2, <3>3 DEF Filled
  <2> QED BY <1>7, <2>1, <2>2, <2>3
<1>9. CASE call' = Filling(call.left, call.size) /\ call.left > 0 /\ call.op = "write"
  <2> DEFINE c == Filling(call.left, call.size)
  <2>1. /\ c \in Call /\ c.op = "write" /\ c.pc = "fill" /\ c.left = call.left
        /\ c.rest = {} /\ c.after = "return"
    <3>1. c \in Call
      BY <1>1, CallsAreTyped
    <3> QED BY <3>1, FillingIs
  <2>2. file' = f /\ call' = c
    BY <1>2, <1>9
  <2> HIDE DEF c
  <2>3. Writing' /\ file'.mode # "closed"
    BY <2>2 DEF Writing
  <2>4. CallOK'
    <3>1. ~Idle' /\ call'.pc = "fill" /\ call'.rest = {} /\ call'.op = "write"
      BY <1>5, <2>1, <2>2 DEF Idle
    <3> QED BY <1>7, <2>3, <3>1 DEF CallOK
  <2>5. Filled'
    <3>1. file'.pos <= Room(file.head)'
      BY <1>6, <2>2 DEF Room, IsTail
    <3>2. file'.position + call'.left <= MaxPosition /\ call'.left > 0
      BY <1>1, <1>9, <2>1, <2>2
    <3> QED BY <2>1, <2>2, <3>1, <3>2 DEF Filled
  <2> QED BY <1>7, <2>1, <2>2, <2>4, <2>5
<1> QED BY <1>4, <1>8, <1>9

(* flush() of a sector that is not a tail: the next one follows. *)
LEMMA NextIsFile ==
    ASSUME FileInv, Running("sector"), SavesOnly, ~AtTail,
           Continue([file EXCEPT !.pos = 0, !.pending = NoGiven, !.head.sector = @ + 1])
    PROVE  FileInv'
<1> DEFINE f == [file EXCEPT !.pos = 0, !.pending = NoGiven, !.head.sector = @ + 1]
<1>1. (\E k, path, base, m : SavedIn(k, path, base, m)) /\ file.pos <= file.position
  BY SectorSaved DEF SavesOnly
<1>2. PICK k, path, base, m : SavedIn(k, path, base, m)
  BY <1>1
<1>3. /\ SavedInside(k, path, base, m)
      /\ k \in Nat /\ k \in 0 .. k /\ m \in 0 .. TailSector - 1 /\ path \in [0 .. k -> Blocks]
      /\ path[k] \in Blocks
      /\ Size(sectors', k, path, base, m) = file.position
  BY <1>2 DEF SavedIn, SavedTail
<1>4. /\ m > 0 /\ file.head = At(path[k], m) /\ file.inBlock = file.position - base[k]
  BY <1>3 DEF SavedInside
<1>5. /\ Writing /\ start # NoBlock /\ start' = start
      /\ call.op \in {"write", "flush", "close"} /\ file.position \in Nat
  BY SaverIs DEF SavesOnly
<1>6. file \in File /\ NoGiven \in Given
  BY InvHasFile DEF TypeOK, Given, NoGiven
<1>7. At(path[k], m + 1) \in Address
  <2>1. m + 1 \in 0 .. TailSector
    BY <1>3, Geometry
  <2> QED BY <1>3, <2>1 DEF Address, At
<1>8. /\ f \in File /\ f.mode = file.mode /\ f.pos = 0 /\ f.pending = NoGiven
      /\ f.head = At(path[k], m + 1)
      /\ f.position = file.position /\ f.inBlock = file.inBlock
  <2> DEFINE g == [file EXCEPT !.pos = 0, !.pending = NoGiven, !.head = At(path[k], m + 1)]
  <2>1. [file.head EXCEPT !.sector = @ + 1] = At(path[k], m + 1)
    BY <1>4 DEF At
  <2>2. f = g
    BY <1>6, <2>1 DEF File
  <2>3. /\ g \in File /\ g.mode = file.mode /\ g.pos = 0 /\ g.pending = NoGiven
        /\ g.head = At(path[k], m + 1)
        /\ g.position = file.position /\ g.inBlock = file.inBlock
    BY <1>6, <1>7 DEF File
  <2> HIDE DEF f, g
  <2> QED BY <2>2, <2>3
<1> HIDE DEF f
<1>9. /\ file' \in File /\ call' \in Call /\ CallOK' /\ Filled'
      /\ file'.mode # "read" /\ ~HasPending' /\ call'.pc \in {"none", "fill"}
      /\ Writing' => file' = f
  <2>1. Continue(f)
    BY DEF f
  <2> QED BY <1>5, <1>8, <2>1, ContinueIs
<1>10. ASSUME Writing' PROVE Appending(k, path, base, m)'
  <2>1. file' = f
    BY <1>9, <1>10
  <2>2. Own(k, path, base, m)'
    <3>1. file.position = Size(sectors', k, path, base, m) + 0
      BY <1>3, <1>5
    <3> QED BY <1>4, <1>8, <2>1, <3>1 DEF Own
  <2> QED BY <1>9, <2>2 DEF Appending, Entering
<1>11. HasFile'
  BY <1>2, <1>9, <1>10, SavedIsFile
<1> QED BY <1>1, <1>9, <1>11, SavedAgain

(* flush() of a tail: the block it leads to is begun again. *)
LEMMA CrossingIsFile ==
    ASSUME FileInv, Running("sector"), SavesOnly, AtTail, durable' = file.position,
           file' = [file EXCEPT !.pos = 0, !.pending = NoGiven],
           call' = [call EXCEPT !.block = file.pending, !.pc = Begins(file.pending, TRUE)],
           call.after # "keep"
    PROVE  FileInv'
<1>1. (\E k, path, base, m : SavedIn(k, path, base, m)) /\ file.pos <= file.position
  BY SectorSaved DEF SavesOnly
<1>2. PICK k, path, base, m : SavedIn(k, path, base, m)
  BY <1>1
<1>3. /\ SavedTail(k, path, base, m) /\ k \in Nat /\ path \in [0 .. k -> Blocks]
      /\ k \in 0 .. k
  BY <1>2 DEF SavedIn, SavedInside
<1>4. /\ k > 0 /\ m = 0 /\ file.head = At(path[k - 1], TailSector)
      /\ file.pending.block = path[k] /\ base[k] = file.position
  BY <1>3 DEF SavedTail
<1>5. /\ TypeOK /\ CallOK /\ Filled /\ Writing /\ start # NoBlock
      /\ call.op \in {"write", "flush", "close"} /\ call.rest = {}
      /\ file.position \in Nat /\ call.left \in Nat
      /\ file.pos \in Nat /\ file.pos > 0
      /\ file.position + call.left <= MaxPosition
  BY InvHasFile, SaverIs
<1>6. file \in File /\ call \in Call /\ NoGiven \in Given /\ file.pending \in Given
  BY <1>5 DEF TypeOK, Given, NoGiven, File
<1>7. Begins(file.pending, TRUE) \in {"enter erase", "enter head"}
  BY BeginsIs
<1>8. /\ file' \in File /\ file'.mode = file.mode /\ file'.pos = 0
      /\ file'.pending = NoGiven /\ file'.head = file.head /\ file'.position = file.position
  BY <1>6 DEF File
<1>9. /\ call' \in Call /\ call'.pc \in {"enter erase", "enter head"}
      /\ call'.block = file.pending /\ call'.op = call.op /\ call'.left = call.left
      /\ call'.after = call.after /\ call'.rest = call.rest
  <2> DEFINE pc == Begins(file.pending, TRUE)
  <2>1. pc \in {"enter erase", "enter head"}
    BY <1>7
  <2>2. call' = [call EXCEPT !.block = file.pending, !.pc = pc]
    OBVIOUS
  <2> HIDE DEF pc
  <2> QED BY <1>6, <2>1, <2>2 DEF Call
<1>10. Writing' /\ Entering' /\ start' # NoBlock
  BY <1>5, <1>8, <1>9 DEF Writing, Entering, SavesOnly
<1>11. CallOK'
  <2>1. ~Idle'
    BY <1>9, NoCallIs DEF Idle
  <2>2. file'.mode # "closed"
    BY <1>10 DEF Writing
  <2> QED BY <1>5, <1>8, <1>9, <1>10, <2>1, <2>2 DEF CallOK
<1>12. Filled'
  <2>1. 0 <= Room(file.head)
    BY Geometry DEF Room
  <2>2. file'.pos <= Room(file.head)'
    BY <1>8, <2>1 DEF Room, IsTail
  <2>3. call.after \in {"fill", "fill unless full"} => call.left > 0 /\ call.op = "write"
    BY <1>5 DEF Filled
  <2>4. call'.pc \notin {"fill", "allocate", "erase", "head", "sector"}
    BY <1>9
  <2> QED BY <1>5, <1>8, <1>9, <2>2, <2>3, <2>4 DEF Filled
<1>13. Appending(k, path, base, m)'
  <2>1. Crossing(k, path, base, m)'
    <3>1. durable' > 0
      BY <1>1, <1>5
    <3> QED BY <1>4, <1>8, <1>9, <3>1 DEF Crossing
  <2>2. ~HasPending'
    BY <1>8 DEF HasPending
  <2> QED BY <1>10, <2>1, <2>2 DEF Appending
<1>14. file'.mode # "read" /\ ~HasPending'
  BY <1>8, <1>10 DEF HasPending, Writing
<1>15. HasFile'
  BY <1>2, <1>13, <1>14, SavedIsFile
<1> QED BY <1>1, <1>8, <1>9, <1>11, <1>12, <1>15, SavedAgain

LEMMA WriteSectorKeeps ==
    ASSUME FileInv, WriteSector
    PROVE  FileInv'
<1> DEFINE flushed == [file EXCEPT !.pos = 0, !.pending = NoGiven]
<1>1. /\ Running("sector") /\ SaveSector
      /\ durable' = IF file.position > durable THEN file.position ELSE durable
      /\ UNCHANGED <<heads, free, start, whole, life, counters>>
  BY DEF WriteSector
<1>2. /\ IsTail(file.head) <=> AtTail
      /\ AtTail => HasPending
      /\ file.position \in Nat
  BY <1>1, SaverIs
<1>3. durable <= file.position /\ durable \in Nat
  BY <1>1, SectorSaved, InvHasFile DEF TypeOK
<1>4. durable' = file.position
  BY <1>1, <1>2, <1>3
<1>5. SavesOnly
  <2>1. faults \in 0 .. MaxFaults /\ UNCHANGED <<formats, crashes, faults>>
    BY <1>1, InvHasFile DEF TypeOK, counters
  <2> QED BY <1>1, <1>2, <1>4, <2>1 DEF SavesOnly
<1>6. CASE call.after = "keep"
  <2>1. call' = NoCall /\ file' = file
    BY <1>6 DEF WriteSector
  <2>2. file.mode = "multiple"
    <3>1. Filled /\ Writing /\ start # NoBlock
      BY <1>1, InvHasFile, SaverIs
    <3> QED BY <1>6, <3>1 DEF Filled
  <2> QED BY <1>1, <1>5, <2>1, <2>2, KeptIsFile
<1>7. CASE call.after # "keep" /\ ~AtTail
  <2>1. Continue([flushed EXCEPT !.head.sector = @ + 1])
    BY <1>2, <1>7 DEF WriteSector
  <2>2. [flushed EXCEPT !.head.sector = @ + 1]
            = [file EXCEPT !.pos = 0, !.pending = NoGiven, !.head.sector = @ + 1]
    OBVIOUS
  <2>3. Continue([file EXCEPT !.pos = 0, !.pending = NoGiven, !.head.sector = @ + 1])
    BY <2>1, <2>2
  <2> QED BY <1>1, <1>5, <1>7, <2>3, NextIsFile
<1>8. CASE call.after # "keep" /\ AtTail
  <2>1. file.pending # NoGiven
    BY <1>2, <1>8 DEF HasPending
  <2>2. /\ file' = flushed
        /\ call' = [call EXCEPT !.block = file.pending, !.pc = Begins(file.pending, TRUE)]
    BY <1>2, <1>8, <2>1 DEF WriteSector
  <2> QED BY <1>1, <1>4, <1>5, <1>8, <2>2, CrossingIsFile
<1> QED BY <1>6, <1>7, <1>8

(* A write that fails, whether the sector was written or not. *)
LEMMA SectorFailsKeeps ==
    ASSUME FileInv, NEW done \in BOOLEAN, SectorFails(done)
    PROVE  FileInv'
<1>1. /\ Running("sector") /\ faults < MaxFaults /\ faults' = faults + 1
      /\ file' = file \/ file' = Closed
      /\ call' = NoCall
      /\ UNCHANGED <<heads, free, start, whole, life, durable, formats, crashes>>
  BY DEF SectorFails, client
<1>2. TypeOK /\ FormatsBlock /\ FreeIsUnbegun /\ HasFile /\ start # NoBlock
  BY <1>1, InvHasFile, SaverIs
<1>3. faults' \in 0 .. MaxFaults /\ faults' # 0 /\ faults' \in Nat
  BY <1>1, <1>2, BoundsAssumption DEF TypeOK
<1>4. CASE done
  <2>1. SaveSector
    BY <1>4 DEF SectorFails
  <2>2. durable \in Nat /\ durable <= file.position
    BY <1>1, <1>2, <2>1, SectorSaved DEF TypeOK
  <2>3. SavesOnly
    BY <1>1, <1>3, <2>1, <2>2 DEF SavesOnly
  <2> QED BY <1>1, <1>3, <2>3, KeptIsFile
<1>5. CASE ~done
  <2>1. sectors' = sectors
    BY <1>5 DEF SectorFails
  <2>2. /\ file' \in File /\ call' \in Call /\ CallOK' /\ Filled' /\ file'.mode # "read"
        /\ HasPending' => HasPending /\ file' = file
        /\ Writing' => file' = file
    BY <1>1, ReturnsAgain
  <2>3. TypeOK'
    BY <1>1, <1>2, <1>3, <2>1, <2>2 DEF TypeOK
  <2>4. FormatsBlock' /\ FreeIsUnbegun'
    BY <1>1, <1>2 DEF FormatsBlock, FreeIsUnbegun
  <2>5. PICK k, path, base, m : IsFile(k, path, base, m)
    BY <1>2 DEF HasFile
  <2>6. /\ Writing /\ ~Entering /\ call.pc = "sector" /\ ~Entering' /\ call'.pc = "none"
    BY <1>1, SaverIs, NoCallIs DEF Entering
  <2>7. Claimed(k, path) /\ Appending(k, path, base, m)
    BY <2>5, <2>6 DEF IsFile, FileIs
  <2>8. Claimed(k, path)'
    BY <1>1, <2>6, <2>7 DEF Claimed
  <2>9. AllClaimed(k, path)'
    <3>1. crashes' \in Nat
      BY <2>3, BoundsAssumption DEF TypeOK
    <3>2. ~(crashes' + faults' = 0)
      BY <1>3, <3>1, NothingWrong
    <3> QED BY <3>2 DEF AllClaimed
  <2>10. ASSUME Writing' PROVE Appending(k, path, base, m)'
    <3>1. file' = file
      BY <2>2, <2>10
    <3>2. Own(k, path, base, m) \/ Kept(k, path, base, m) \/ Linked(k, path, base, m)
      BY <2>6, <2>7 DEF Appending
    <3>3. Own(k, path, base, m)' \/ Kept(k, path, base, m)' \/ Linked(k, path, base, m)'
      BY <2>1, <3>1, <3>2 DEF Own, Kept, Linked
    <3>4. HasPending' => PendingIsBegun(k, path, base, m)'
      <4> SUFFICES ASSUME HasPending' PROVE PendingIsBegun(k, path, base, m)'
        OBVIOUS
      <4>1. PendingIsBegun(k, path, base, m)
        BY <2>2, <2>7 DEF Appending
      <4>2. /\ file.pending.block \in Blocks \ free
            /\ sectors[file.pending.block] = Blank
            /\ heads[file.pending.block] = "file"
        BY <2>6, <4>1 DEF PendingIsBegun
      <4>3. Own(k, path, base, m)' => \A i \in 0 .. k : path[i] # file'.pending.block
        BY <2>1, <3>1, <4>1 DEF PendingIsBegun, Own
      <4> QED BY <1>1, <2>1, <2>6, <3>1, <4>2, <4>3 DEF PendingIsBegun
    <3> QED BY <1>3, <2>6, <3>3, <3>4 DEF Appending
  <2>11. FileIs(k, path, base, m)'
    <3>1. /\ IsPath(path, k, start)' /\ IsChain(sectors, life, k, path, base, m)'
          /\ Size(sectors, k, path, base, m)' <= MaxPosition
          /\ durable' <= Size(sectors, k, path, base, m)'
      BY <1>1, <2>1, <2>5 DEF IsFile, FileIs
    <3> QED BY <2>2, <2>8, <2>9, <2>10, <3>1 DEF FileIs
  <2>12. IsFile(k, path, base, m)'
    BY <2>5, <2>11 DEF IsFile
  <2> QED BY <2>2, <2>3, <2>4, <2>12, FileAgain, InvAgain
<1> QED BY <1>4, <1>5

-----------------------------------------------------------------------------
(* The block that was begun is entered. *)

LEMMA EntererIs ==
    ASSUME FileInv, EnterBlock
    PROVE  /\ call.pc = "enter head" /\ Entering /\ Writing /\ ~Idle /\ call.rest = {}
           /\ call.block.block \in Blocks /\ call.block.block \notin free
           /\ sectors[call.block.block] = Blank
           /\ heads' = [heads EXCEPT ![call.block.block] = "file"]
           /\ UNCHANGED <<sectors, free, formats, crashes, faults, whole>>
           /\ Formatting <=> start = NoBlock
           /\ start # NoBlock => call.op \in {"write", "flush", "close"}
           /\ At(call.block.block, 1) \in Address /\ file \in File
<1>1. /\ call.pc = "enter head" /\ Entering
      /\ heads' = [heads EXCEPT ![call.block.block] = "file"]
      /\ UNCHANGED <<sectors, free, formats, crashes, faults, whole>>
  BY DEF EnterBlock, Running, Entering, client, counters
<1>2. TypeOK /\ CallOK /\ FormatsBlock /\ HasFile
  BY InvHasFile
<1>3. /\ Writing /\ ~Idle /\ call.rest = {} /\ (Formatting <=> start = NoBlock)
  BY <1>1, NoFileIs
<1>4. start # NoBlock => call.op \in {"write", "flush", "close"}
  BY <1>2, <1>3 DEF CallOK
<1>5. /\ call.block.block \in Blocks /\ call.block.block \notin free
      /\ sectors[call.block.block] = Blank
  <2>1. CASE start = NoBlock
    BY <1>1, <1>2, <2>1 DEF FormatsBlock
  <2>2. CASE start # NoBlock
    <3>1. PICK k, path, base, m : IsFile(k, path, base, m)
      BY <1>2, <2>2 DEF HasFile
    <3>2. /\ Crossing(k, path, base, m) /\ Claimed(k, path)
      BY <1>1, <1>3, <3>1 DEF IsFile, FileIs, Appending
    <3>3. /\ k \in Nat /\ k \in 0 .. k /\ path \in [0 .. k -> Blocks]
          /\ IsChain(sectors, life, k, path, base, m)
          /\ sectors \in [Blocks -> [Sectors -> Sector]]
      BY <1>2, <3>1, FileOnMedium
    <3>4. call.block.block = path[k] /\ m = 0 /\ path[k] \notin free /\ path[k] \in Blocks
      BY <1>3, <3>2, <3>3 DEF Crossing, Claimed
    <3>5. Part(sectors[path[k]], life, base[k], m)
      BY <3>3, ChainBlocks
    <3>6. \A s \in Sectors : sectors[path[k]][s] = Unwritten
      BY <3>4, <3>5, Geometry DEF Part
    <3>7. sectors[path[k]] = Blank
      <4>1. sectors[path[k]] \in [Sectors -> Sector]
        BY <3>3, <3>4
      <4> QED BY <3>6, <4>1 DEF Blank
    <3> QED BY <3>4, <3>7
  <2> QED BY <2>1, <2>2
<1>6. At(call.block.block, 1) \in Address
  BY <1>5, Geometry DEF At, Address
<1>7. file \in File
  BY <1>2 DEF TypeOK
<1> QED BY <1>1, <1>3, <1>4, <1>5, <1>6, <1>7

LEMMA EnterFormats ==
    ASSUME FileInv, InPool, EnterBlock, start = NoBlock
    PROVE  FileInv'
<1>0. PICK b \in Blocks : b = call.block.block
  BY EntererIs
<1>1. /\ call.pc = "enter head" /\ Entering /\ Writing /\ ~Idle /\ call.rest = {}
      /\ b \in Blocks /\ b \notin free /\ sectors[b] = Blank
      /\ heads' = [heads EXCEPT ![b] = "file"]
      /\ UNCHANGED <<sectors, free, formats, crashes, faults, whole>>
      /\ Formatting /\ At(b, 1) \in Address /\ file \in File
  BY <1>0, EntererIs
<1>2. TypeOK /\ CallOK /\ FormatsBlock /\ FreeIsUnbegun
  BY InvHasFile
<1>3. /\ start' = b /\ life' = formats /\ durable' = 0 /\ call' = NoCall
      /\ file' = [file EXCEPT !.head = At(b, 1), !.inBlock = 0]
  BY <1>0, <1>1 DEF EnterBlock, InPool
<1>4. b # NoBlock
  BY <1>0, Geometry
<1>5. /\ file.pos = 0 /\ file.position = 0
      /\ crashes + faults = 0 => \A x \in Blocks : x \notin free <=> x = b
  BY <1>0, <1>1, <1>2 DEF FormatsBlock
<1>6. /\ file' \in File /\ file'.head = At(b, 1) /\ file'.inBlock = 0 /\ file'.pos = 0
      /\ file'.position = 0 /\ file'.mode = file.mode /\ file'.pending = file.pending
  BY <1>1, <1>3, <1>5 DEF File
<1>7. /\ Writing' /\ file'.mode # "read" /\ file'.mode # "closed"
  BY <1>1, <1>6 DEF Writing
<1>8. /\ NoCall \in Call /\ NoCall.pc = "none" /\ NoCall.left = 0 /\ NoCall.op = "none"
      /\ NoCall.after = "return" /\ NoCall.rest = {}
  BY NoCallIs
<1>9. TypeOK'
  <2>1. 0 \in Nat
    OBVIOUS
  <2> QED BY <1>1, <1>2, <1>3, <1>6, <1>8, <2>1 DEF TypeOK
<1>10. CallOK'
  <2>1. file.pending = NoGiven \/ file.pending.block \in Blocks
    BY <1>1, <1>2 DEF CallOK
  <2>2. Idle' /\ call'.pc = "none" /\ call'.op = "none" /\ call'.rest = {}
    BY <1>3, <1>8 DEF Idle
  <2> QED BY <1>3, <1>4, <1>6, <1>7, <2>1, <2>2 DEF CallOK
<1>11. Filled'
  <2>1. 0 <= Room(At(b, 1)) /\ 0 + 0 <= MaxPosition
    BY Geometry DEF Room
  <2>2. file'.pos <= Room(file.head)'
    BY <1>6, <2>1 DEF Room, IsTail
  <2>3. file'.position + call'.left <= MaxPosition
    BY <1>3, <1>6, <1>8, <2>1
  <2> QED BY <1>3, <1>8, <2>2, <2>3 DEF Filled
<1>12. FormatsBlock'
  BY <1>3, <1>4 DEF FormatsBlock
<1>13. FreeIsUnbegun' /\ heads'[b] = "file"
  <2>1. heads \in [Blocks -> {"none", "free", "file"}] /\ free \in SUBSET Blocks
    BY <1>2 DEF TypeOK
  <2>2. heads'[b] = "file" /\ \A x \in Blocks : x # b => heads'[x] = heads[x]
    BY <1>1, <2>1
  <2> QED BY <1>1, <1>2, <2>1, <2>2 DEF FreeIsUnbegun
<1> DEFINE path == [i \in 0 .. 0 |-> b]
           base == [i \in 0 .. 0 |-> 0]
<1>14. /\ 0 \in 0 .. NumberOfBlocks - 1 /\ 0 \in 0 .. TailSector - 1
       /\ path \in [0 .. 0 -> Blocks] /\ base \in [0 .. 0 -> 0 .. MaxPosition]
       /\ path[0] = b /\ base[0] = 0 /\ \A i \in 0 .. 0 : i = 0
  <2>1. 0 \in 0 .. NumberOfBlocks - 1 /\ 0 \in 0 .. TailSector - 1 /\ 0 \in 0 .. MaxPosition
    BY Geometry
  <2>2. \A i \in 0 .. 0 : i = 0
    OBVIOUS
  <2>3. 0 \in 0 .. 0
    OBVIOUS
  <2> QED BY <1>1, <2>1, <2>2, <2>3
<1> HIDE DEF path, base
<1>15. IsPath(path, 0, start)'
  BY <1>3, <1>14 DEF IsPath
<1>16. IsChain(sectors, life, 0, path, base, 0)' /\ Size(sectors, 0, path, base, 0)' = 0
  <2>1. Part(Blank, life', 0, 0)
    BY DEF Part, Written, Blank, Sectors
  <2>2. Part(sectors'[path[0]], life', base[0], 0)
    BY <1>1, <1>14, <2>1
  <2>3. \A i \in 0 .. 0 - 1 : FALSE
    OBVIOUS
  <2> QED BY <1>14, <2>2, <2>3 DEF IsChain, Size, Ends
<1>17. ~HasPending' /\ ~Entering'
  <2>1. ~AtTail'
    BY <1>6, Geometry DEF AtTail, At
  <2>2. ~Entering'
    BY <1>3, <1>8 DEF Entering
  <2> QED BY <2>1, <2>2 DEF HasPending
<1>18. Claimed(0, path)'
  BY <1>1, <1>13, <1>14 DEF Claimed
<1>19. AllClaimed(0, path)'
  <2> SUFFICES ASSUME crashes' + faults' = 0, NEW x \in Blocks
               PROVE  x \notin free' <=> \E i \in 0 .. 0 : x = path[i]
    BY <1>17 DEF AllClaimed
  <2>1. x \notin free <=> x = b
    BY <1>1, <1>5
  <2>2. (\E i \in 0 .. 0 : x = path[i]) <=> x = b
    BY <1>14
  <2> QED BY <1>1, <2>1, <2>2
<1>20. Appending(0, path, base, 0)'
  <2>1. Own(0, path, base, 0)'
    <3>1. 0 + 1 = 1 /\ 0 + 0 = 0 /\ 0 - 0 = 0
      OBVIOUS
    <3> QED BY <1>6, <1>14, <1>16, <3>1 DEF Own
  <2> QED BY <1>17, <2>1 DEF Appending
<1>21. FileIs(0, path, base, 0)'
  <2>1. 0 <= MaxPosition /\ durable' <= 0
    BY <1>3, Geometry
  <2> QED BY <1>7, <1>15, <1>16, <1>18, <1>19, <1>20, <2>1 DEF FileIs
<1>22. IsFile(0, path, base, 0)'
  BY <1>14, <1>21 DEF IsFile
<1> QED BY <1>9, <1>10, <1>11, <1>12, <1>13, <1>22, FileAgain, InvAgain

LEMMA EnterCrosses ==
    ASSUME FileInv, EnterBlock, start # NoBlock
    PROVE  FileInv'
<1> DEFINE b == call.block.block
           f == [file EXCEPT !.head = At(b, 1), !.inBlock = 0]
<1>1. /\ call.pc = "enter head" /\ Entering /\ Writing
      /\ b \in Blocks /\ b \notin free
      /\ heads' = [heads EXCEPT ![b] = "file"]
      /\ UNCHANGED <<sectors, free, formats, crashes, faults, whole>>
      /\ ~Formatting /\ call.op \in {"write", "flush", "close"}
      /\ At(b, 1) \in Address /\ file \in File
  BY EntererIs
<1>2. UNCHANGED <<start, life, durable>> /\ Continue(f)
  BY <1>1 DEF EnterBlock, client
<1>3. TypeOK /\ CallOK /\ FormatsBlock /\ FreeIsUnbegun /\ HasFile
  BY InvHasFile
<1>4. PICK k, path, base, m : IsFile(k, path, base, m)
  BY <1>3 DEF HasFile
<1>5. /\ Crossing(k, path, base, m) /\ Claimed(k, path) /\ AllClaimed(k, path)
      /\ IsPath(path, k, start) /\ IsChain(sectors, life, k, path, base, m)
      /\ Size(sectors, k, path, base, m) <= MaxPosition
      /\ durable <= Size(sectors, k, path, base, m)
  BY <1>1, <1>4 DEF IsFile, FileIs, Appending
<1>6. /\ k \in Nat /\ k \in 0 .. k /\ path \in [0 .. k -> Blocks] /\ base[k] \in Nat
      /\ \A i, j \in 0 .. k : path[i] = path[j] => i = j
  BY <1>3, <1>4, FileOnMedium
<1>7. /\ m = 0 /\ file.pending = NoGiven /\ b = path[k] /\ file.pos = 0
      /\ file.position = base[k]
  BY <1>5 DEF Crossing
<1> HIDE DEF b
<1>8. /\ f \in File /\ f.mode = file.mode /\ f.pos = 0 /\ f.pending = NoGiven
      /\ f.position = file.position /\ f.head = At(b, 1) /\ f.inBlock = 0
  BY <1>1, <1>7 DEF File
<1> HIDE DEF f
<1>9. /\ file' \in File /\ call' \in Call /\ CallOK' /\ Filled'
      /\ file'.mode # "read" /\ ~HasPending' /\ call'.pc \in {"none", "fill"}
      /\ Writing' => file' = f
  BY <1>1, <1>2, <1>8, ContinueIs
<1>10. /\ heads \in [Blocks -> {"none", "free", "file"}] /\ free \in SUBSET Blocks
       /\ heads' \in [Blocks -> {"none", "free", "file"}]
       /\ heads'[b] = "file" /\ \A x \in Blocks : x # b => heads'[x] = heads[x]
  <2>1. heads \in [Blocks -> {"none", "free", "file"}] /\ free \in SUBSET Blocks
    BY <1>3 DEF TypeOK
  <2> QED BY <1>1, <2>1
<1>11. TypeOK'
  BY <1>1, <1>2, <1>3, <1>9, <1>10 DEF TypeOK
<1>12. FormatsBlock' /\ FreeIsUnbegun'
  <2>1. FormatsBlock'
    BY <1>2 DEF FormatsBlock
  <2>2. FreeIsUnbegun'
    BY <1>1, <1>3, <1>10 DEF FreeIsUnbegun
  <2> QED BY <2>1, <2>2
<1>13. Claimed(k, path)'
  <2> SUFFICES ASSUME NEW i \in 0 .. k
               PROVE  path[i] \notin free' /\ heads'[path[i]] = "file"
    BY DEF Claimed
  <2>1. path[i] \notin free /\ (heads[path[i]] = "file" \/ i = k)
    BY <1>1, <1>5 DEF Claimed
  <2>2. path[i] \in Blocks
    BY <1>6
  <2> QED BY <1>1, <1>7, <1>10, <2>1, <2>2
<1>14. AllClaimed(k, path)'
  <2> SUFFICES ASSUME crashes' + faults' = 0, NEW x \in Blocks
               PROVE  x \notin free' <=> \E i \in 0 .. k : x = path[i]
    BY <1>9 DEF AllClaimed
  <2>1. ~HasPending
    BY <1>7 DEF HasPending
  <2>2. x \notin free <=> \E i \in 0 .. k : x = path[i]
    BY <1>1, <1>5, <2>1 DEF AllClaimed
  <2> QED BY <1>1, <2>2
<1>15. ASSUME Writing' PROVE Appending(k, path, base, m)'
  <2>1. file' = f
    BY <1>9, <1>15
  <2>2. Own(k, path, base, m)'
    <3>1. 0 + 1 = 1 /\ base[k] + 0 = base[k] /\ base[k] - base[k] = 0
      BY <1>6
    <3>2. Size(sectors', k, path, base, m) = base[k]
      BY <1>7 DEF Size, Ends
    <3> QED BY <1>7, <1>8, <2>1, <3>1, <3>2 DEF Own
  <2>3. ~Entering'
    BY <1>9 DEF Entering
  <2> QED BY <1>9, <2>2, <2>3 DEF Appending
<1>16. FileIs(k, path, base, m)'
  BY <1>1, <1>2, <1>5, <1>9, <1>13, <1>14, <1>15 DEF FileIs
<1>17. IsFile(k, path, base, m)'
  BY <1>4, <1>16 DEF IsFile
<1> QED BY <1>9, <1>11, <1>12, <1>17, FileAgain, InvAgain

LEMMA EnterBlockKeeps ==
    ASSUME FileInv, InPool, EnterBlock
    PROVE  FileInv'
BY EnterFormats, EnterCrosses

-----------------------------------------------------------------------------
(* The invariant, and what it implies. *)

LEMMA InitHolds == Init => FileInv
<1> SUFFICES ASSUME Init PROVE FileInv
  OBVIOUS
<1>1. /\ heads = [b \in Blocks |-> "none"]
      /\ sectors \in {[b \in Blocks |-> [s \in Sectors |-> was]] : was \in {Unwritten, Stale}}
      /\ free = Blocks /\ file = Closed /\ call = NoCall /\ whole \in Whole
      /\ start = NoBlock /\ life = 0 /\ durable = 0
      /\ formats = 0 /\ crashes = 0 /\ faults = 0
  BY DEF Init
<1>2. Closed \in File /\ Closed.mode = "closed" /\ Closed.pending = NoGiven
      /\ Closed.pos = 0 /\ Closed.position = 0 /\ Unwritten \in Sector
  BY ClosedIs
<1>3. /\ NoCall \in Call /\ NoCall.pc = "none" /\ NoCall.op = "none" /\ NoCall.rest = {}
  BY NoCallIs
<1>4. TypeOK
  <2>1. Stale \in Sector
    <3>1. SectorRoom \in 0 .. SectorRoom \union {Unused}
      BY Geometry
    <3> QED BY <1>2, <3>1 DEF Stale, Sector
  <2>2. sectors \in [Blocks -> [Sectors -> Sector]]
    BY <1>1, <1>2, <2>1
  <2>3. whole \in BOOLEAN
    BY <1>1, WritesAssumption
  <2>4. 0 \in 0 .. MaxFormats /\ 0 \in 0 .. MaxCrashes /\ 0 \in 0 .. MaxFaults /\ 0 \in Nat
    BY BoundsAssumption
  <2>5. heads \in [Blocks -> {"none", "free", "file"}]
    BY <1>1
  <2> QED BY <1>1, <1>2, <1>3, <2>2, <2>3, <2>4, <2>5 DEF TypeOK
<1>5. ~Writing
  BY <1>1, <1>2 DEF Writing
<1>6. CallOK
  BY <1>1, <1>2, <1>3, <1>5 DEF CallOK, Idle
<1>7. Filled
  BY <1>5 DEF Filled
<1>8. FormatsBlock
  BY <1>1, <1>2, <1>3 DEF FormatsBlock, Entering
<1>9. FreeIsUnbegun
  BY <1>1 DEF FreeIsUnbegun
<1> QED BY <1>1, <1>4, <1>6, <1>7, <1>8, <1>9 DEF FileInv

LEMMA StutterKeeps ==
    ASSUME FileInv, UNCHANGED vars
    PROVE  FileInv'
<1>1. UNCHANGED <<heads, sectors, free, file, call, start, whole, life, durable,
                  formats, crashes, faults>>
  BY DEF vars, medium, client, counters
<1>2. TypeOK' /\ CallOK' /\ Filled' /\ FormatsBlock' /\ FreeIsUnbegun'
  <2>1. TypeOK /\ CallOK /\ Filled /\ FormatsBlock /\ FreeIsUnbegun
    BY InvHasFile
  <2>2. TypeOK'
    BY <1>1, <2>1 DEF TypeOK
  <2>3. CallOK'
    BY <1>1, <2>1 DEF CallOK, Idle, Writing
  <2>4. Filled'
    BY <1>1, <2>1 DEF Filled, Writing, Room, IsTail, HasPending, AtTail
  <2>5. FormatsBlock'
    BY <1>1, <2>1 DEF FormatsBlock, Entering
  <2>6. FreeIsUnbegun'
    BY <1>1, <2>1 DEF FreeIsUnbegun
  <2> QED BY <2>2, <2>3, <2>4, <2>5, <2>6
<1>3. HasFile'
  <2>1. CASE start = NoBlock
    BY <1>1, <2>1, NoFileAgain
  <2>2. CASE start # NoBlock
    <3>1. PICK k, path, base, m : IsFile(k, path, base, m)
      BY <2>2, InvHasFile DEF HasFile
    <3>2. IsPath(path, k, start)' /\ IsChain(sectors, life, k, path, base, m)'
          /\ Size(sectors, k, path, base, m)' <= MaxPosition
          /\ durable' <= Size(sectors, k, path, base, m)'
      BY <1>1, <3>1 DEF IsFile, FileIs
    <3>3. Claimed(k, path)' /\ AllClaimed(k, path)'
      BY <1>1, <3>1 DEF IsFile, FileIs, Claimed, AllClaimed, Writing, Entering,
                        HasPending, AtTail
    <3>4. ASSUME Writing' PROVE Appending(k, path, base, m)'
      <4>1. Appending(k, path, base, m)
        BY <1>1, <3>1, <3>4 DEF IsFile, FileIs, Writing
      <4>2. /\ Own(k, path, base, m)' <=> Own(k, path, base, m)
            /\ Kept(k, path, base, m)' <=> Kept(k, path, base, m)
            /\ Linked(k, path, base, m)' <=> Linked(k, path, base, m)
            /\ Crossing(k, path, base, m)' <=> Crossing(k, path, base, m)
        BY <1>1 DEF Own, Kept, Linked, Crossing
      <4>3. /\ Entering' <=> Entering
            /\ HasPending' <=> HasPending
        BY <1>1 DEF Entering, HasPending, AtTail
      <4>4. PendingIsBegun(k, path, base, m)' <=> PendingIsBegun(k, path, base, m)
        BY <1>1, <4>2 DEF PendingIsBegun
      <4> QED BY <1>1, <4>1, <4>2, <4>3, <4>4 DEF Appending
    <3>5. ASSUME file'.mode = "read" PROVE Reading(file, k, path, base, m)'
      <4>1. Reading(file, k, path, base, m)
        BY <1>1, <3>1, <3>5 DEF IsFile, FileIs
      <4> QED BY <1>1, <4>1 DEF Reading, StartOf
    <3>6. FileIs(k, path, base, m)'
      BY <3>2, <3>3, <3>4, <3>5 DEF FileIs
    <3>7. IsFile(k, path, base, m)'
      BY <3>1, <3>6 DEF IsFile
    <3> QED BY <3>7, FileAgain
  <2> QED BY <2>1, <2>2
<1> QED BY <1>2, <1>3, InvAgain

LEMMA StepKeeps ==
    ASSUME FileInv, InPool, Step
    PROVE  FileInv'
<1>1. CASE FillFlushes
  BY <1>1, FillFlushesKeeps
<1>2. CASE FillBuffer
  BY <1>2, FillBufferKeeps
<1>3. CASE \E given \in Given : Allocate(given)
  BY <1>3, AllocateKeeps
<1>4. CASE OutOfBlocks
  BY <1>4, OutOfBlocksKeeps
<1>5. CASE BeginErases
  BY <1>5, BeginErasesKeeps
<1>6. CASE BeginBlock
  BY <1>6, BeginBlockKeeps
<1>7. CASE WriteSector
  BY <1>7, WriteSectorKeeps
<1>8. CASE WriteNowhere
  BY <1>8, WriteNowhereKeeps
<1>9. CASE EnterBlock
  BY <1>9, EnterBlockKeeps
<1>10. CASE FreeErases
  BY <1>10, FreeErasesKeeps
<1>11. CASE FreeMarks
  BY <1>11, FreeMarksKeeps
<1> QED BY <1>1, <1>2, <1>3, <1>4, <1>5, <1>6, <1>7, <1>8, <1>9, <1>10, <1>11 DEF Step

LEMMA NextKeeps ==
    ASSUME FileInv, InPool, [Next]_vars
    PROVE  FileInv'
<1>1. CASE \E mode \in Modes : OpenToWrite(mode)
  BY <1>1, OpenToWriteKeeps
<1>2. CASE OpenToRead
  BY <1>2, OpenToReadKeeps
<1>3. CASE \E n \in Sizes : Write(n)
  BY <1>3, WriteKeeps
<1>4. CASE Flush
  BY <1>4, FlushKeeps
<1>5. CASE Close
  BY <1>5, CloseKeeps
<1>6. CASE \E mode \in Modes : Format(mode)
  BY <1>6, FormatKeeps
<1>7. CASE EraseAllBlocks
  BY <1>7, EraseAllBlocksKeeps
<1>8. CASE EraseExtent
  BY <1>8 DEF EraseExtent, InPool
<1>9. CASE \E desired \in 0 .. MaxPosition : Seek(desired)
  BY <1>9, SeekKeeps
<1>10. CASE \E n \in Sizes : Read(n)
  BY <1>10, ReadKeeps
<1>11. CASE Step
  BY <1>11, StepKeeps
<1>12. CASE Crash
  BY <1>12, CrashKeeps
<1>13. CASE \E b \in Blocks, headKept \in BOOLEAN, kept \in SUBSET Sectors :
                CrashInErase(b, headKept, kept)
  BY <1>13, CrashInEraseKeeps
<1>14. CASE \E done \in BOOLEAN : SectorFails(done)
  BY <1>14, SectorFailsKeeps
<1>15. CASE UNCHANGED vars
  BY <1>15, StutterKeeps
<1> QED BY <1>1, <1>2, <1>3, <1>4, <1>5, <1>6, <1>7, <1>8, <1>9, <1>10, <1>11, <1>12,
           <1>13, <1>14, <1>15 DEF Next

(* On the medium a file is always a chain of blocks: all but the last are   *)
(* full and link to the next, no byte is missing between two sectors, and   *)
(* each of its blocks is taken; what the writer holds goes on where the     *)
(* chain ends, whatever was written, opened, formatted, erased, lost or     *)
(* failed before.                                                           *)
THEOREM FileIsChain == InPool /\ Spec => []FileInv
<1>1. CASE InPool
  <2>1. Init => FileInv
    BY InitHolds
  <2>2. FileInv /\ [Next]_vars => FileInv'
    BY <1>1, NextKeeps
  <2> QED BY <2>1, <2>2, PTL DEF Spec
<1>2. CASE ~InPool
  BY <1>2
<1> QED BY <1>1, <1>2

(* The storage is never asked for an invalid address, where it would assert:*)
(* head_ is a place in the file whenever a sector is saved.                 *)
THEOREM SavesSomewhere == InPool /\ Spec => [](Running("sector") => file.head # NoAddress)
<1>1. FileInv => (Running("sector") => file.head # NoAddress)
  <2> SUFFICES ASSUME FileInv, Running("sector") PROVE file.head # NoAddress
    OBVIOUS
  <2>1. Writing /\ start # NoBlock
    BY SaverIs
  <2> QED BY <2>1, WriterIsPlaced
<1> QED BY <1>1, FileIsChain, PTL

(* What flush(), close() or a write that fills a sector has reported as     *)
(* written is found by a seek to the end, at any moment power is lost.      *)
THEOREM FlushedIsKept == InPool /\ Spec => []NothingFlushedIsLost
BY FileIsChain, InvNothingLost, PTL

(* Each byte of the file is found by seek() where it was written.           *)
THEOREM BytesAreFound == InPool /\ Spec => []EveryByteIsFound
BY FileIsChain, InvBytesFound, PTL

(* A reader is given the bytes at its position, and all that was flushed,   *)
(* however it reads in pieces and seeks.                                    *)
THEOREM ReaderReadsWhatWasWritten == InPool /\ Spec => []ReadsWhatWasWritten
BY FileIsChain, InvReads, PTL

(* As long as no write failed, a sector is written once after an erase.     *)
THEOREM SectorsAreErased == InPool /\ Spec => []WritesErasedSectors
BY FileIsChain, InvWritesErased, PTL

(* As long as nothing goes wrong, the blocks that are not free are those    *)
(* that walk() visits.                                                      *)
THEOREM NoBlockEverLeaks == InPool /\ Spec => []NoBlockLeaks
BY FileIsChain, InvNoLeaks, PTL
=============================================================================
