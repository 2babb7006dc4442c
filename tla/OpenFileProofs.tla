---------------------------- MODULE OpenFileProofs ----------------------------
(***************************************************************************)
(* The files of the tree file system: ends and positions are found, reads  *)
(* return what was written, files keep apart and only grow, for every      *)
(* geometry, any number of files and objects, and any number of calls.     *)
(***************************************************************************)
EXTENDS OpenFileChain, Inductions, SequenceTheorems

LEMMA Geometry ==
    /\ TailSector \in Nat /\ TailSector >= 2
    /\ Sectors = 1..TailSector /\ Sectors \subseteq Nat
    /\ NumBlocks \in Nat /\ Blocks = 0..NumBlocks - 1 /\ Blocks \subseteq Nat
    /\ NoBlock \in Int /\ NoBlock \notin Blocks /\ NoBlock \notin Nat
    /\ MaxPosition \in Nat /\ MaxBytes \in Nat /\ MaxBytes < MaxPosition
    /\ SectorData \in Nat /\ TailData \in Nat /\ PositionSaveFrequency \in Nat
    /\ Files \subseteq Nat
BY FileAssumption DEF TailSector, Sectors, Blocks, NoBlock

Block == [Sectors -> [data : Seq(Int), link : Int, inBlock : Int]]

-----------------------------------------------------------------------------
(* Where sectors end. *)

LEMMA RunIsNotEmpty ==
    ASSUME NEW data \in Seq(Int), NEW first \in Int, IsRun(data, first)
    PROVE  /\ Len(data) \in Nat /\ Len(data) > 0
           /\ data[1] = first
<1>1. Len(data) \in Nat /\ Len(data) # 0
  BY DEF IsRun
<1>2. 1 \in 1..Len(data)
  BY <1>1
<1> QED BY <1>1, <1>2 DEF IsRun

LEMMA EndsAreNumbers ==
    ASSUME NEW blk \in Block, NEW from \in Nat,
           NEW n \in 0..TailSector, WrittenTo(blk, from, n)
    PROVE  /\ Ends(blk, from, 0) = from
           /\ \A s \in 0..n : Ends(blk, from, s) \in Nat
           /\ \A s \in 1..n : /\ Len(blk[s].data) \in Nat /\ Len(blk[s].data) > 0
                              /\ blk[s].data \in Seq(Int) /\ blk[s].data # <<>>
                              /\ blk[s].data[1] = Ends(blk, from, s - 1)
                              /\ Ends(blk, from, s) = Ends(blk, from, s - 1) + Len(blk[s].data)
<1> DEFINE E(x) == Ends(blk, from, x)
           Good == {s \in 0..n : E(s) \in Nat}
<1>1. E(0) = from
  BY DEF Ends
<1>2. ASSUME NEW s \in 1..n, E(s - 1) \in Nat
      PROVE  /\ Len(blk[s].data) \in Nat /\ Len(blk[s].data) > 0
             /\ blk[s].data \in Seq(Int) /\ blk[s].data # <<>>
             /\ blk[s].data[1] = E(s - 1)
             /\ E(s) = E(s - 1) + Len(blk[s].data)
  <2>1. s \in Sectors
    BY Geometry
  <2>2. blk[s].data \in Seq(Int)
    BY <2>1 DEF Block
  <2>3. IsRun(blk[s].data, E(s - 1))
    BY DEF WrittenTo
  <2>4. Len(blk[s].data) \in Nat /\ Len(blk[s].data) > 0 /\ blk[s].data[1] = E(s - 1)
    BY <1>2, <2>2, <2>3, RunIsNotEmpty
  <2>5. E(s) = blk[s].data[1] + Len(blk[s].data)
    BY DEF Ends
  <2>6. blk[s].data # <<>>
    BY <2>3 DEF IsRun
  <2> HIDE DEF E
  <2> QED BY <2>2, <2>4, <2>5, <2>6
<1> HIDE DEF E
<1>3. 0..n \subseteq Good
  <2>1. 0 \in Good
    BY <1>1
  <2>2. \A i \in 0 + 1..n : i - 1 \in Good => i \in Good
    BY <1>2
  <2>3. 0 \in Int /\ n \in Int
    OBVIOUS
  <2> HIDE DEF Good
  <2> QED BY <2>1, <2>2, <2>3, IntervalInduction
<1>4. \A s \in 0..n : E(s) \in Nat
  BY <1>3
<1>5. \A s \in 1..n : s - 1 \in 0..n
  OBVIOUS
<1> QED BY <1>1, <1>2, <1>4, <1>5 DEF E

LEMMA EndsGrow ==
    ASSUME NEW blk \in Block, NEW from \in Nat,
           NEW n \in 0..TailSector, WrittenTo(blk, from, n),
           NEW s \in 0..n, NEW t \in 0..n
    PROVE  /\ s <= t => Ends(blk, from, s) <= Ends(blk, from, t)
           /\ s < t => Ends(blk, from, s) < Ends(blk, from, t)
<1> DEFINE E(x) == Ends(blk, from, x)
           Good == {x \in s..n : E(s) <= E(x) /\ (s < x => E(s) < E(x))}
<1>1. \A x \in 0..n : E(x) \in Nat
  BY EndsAreNumbers
<1>2. \A x \in 1..n : E(x - 1) < E(x)
  <2> SUFFICES ASSUME NEW x \in 1..n PROVE E(x - 1) < E(x)
    OBVIOUS
  <2>1. E(x) = E(x - 1) + Len(blk[x].data) /\ Len(blk[x].data) \in Nat /\ Len(blk[x].data) > 0
    BY EndsAreNumbers
  <2>2. E(x - 1) \in Nat
    BY <1>1
  <2> HIDE DEF E
  <2> QED BY <2>1, <2>2
<1> HIDE DEF E
<1>3. s \in Good
  BY <1>1
<1>4. ASSUME NEW i \in s + 1..n, i - 1 \in Good PROVE i \in Good
  <2>1. i \in 1..n /\ i - 1 \in 0..n /\ i \in 0..n
    OBVIOUS
  <2>2. E(i - 1) < E(i) /\ E(i - 1) \in Nat /\ E(i) \in Nat /\ E(s) \in Nat
    BY <1>1, <1>2, <2>1
  <2> QED BY <1>4, <2>2
<1>5. s..n \subseteq Good
  <2> HIDE DEF Good
  <2>1. s \in Int /\ n \in Int
    OBVIOUS
  <2> QED BY <1>3, <1>4, <2>1, IntervalInduction
<1>6. s <= t => t \in Good
  BY <1>5
<1> QED BY <1>6 DEF E

(* The sum that BytesIn computes. *)
SumsUp(g, b, n) ==
    /\ g \in [0..n -> Int] /\ g[0] = 0
    /\ \A s \in 1..n : g[s] = g[s - 1] + Len(disk[b][s].data)

LEMMA SumIs ==
    ASSUME NEW b, NEW n \in Nat, NEW g, SumsUp(g, b, n)
    PROVE  BytesIn(b, n) = g[n]
<1> USE DEF SumsUp
<1> DEFINE IsSum(f) == f = [s \in 0..n |-> IF s = 0 THEN 0
                                           ELSE f[s - 1] + Len(disk[b][s].data)]
           sum == CHOOSE f : IsSum(f)
           Good == {s \in 0..n : sum[s] = g[s]}
<1>1. IsSum(g)
  BY SMTT(30)
<1>2. IsSum(sum)
  BY <1>1
<1>4. BytesIn(b, n) = sum[n]
  BY DEF BytesIn
<1> HIDE DEF sum
<1>3. /\ sum[0] = 0
      /\ \A s \in 1..n : sum[s] = sum[s - 1] + Len(disk[b][s].data)
  <2>1. \A s \in 0..n : sum[s] = IF s = 0 THEN 0 ELSE sum[s - 1] + Len(disk[b][s].data)
    BY <1>2
  <2>2. 0 \in 0..n /\ \A s \in 1..n : s \in 0..n /\ s # 0
    OBVIOUS
  <2> QED BY <2>1, <2>2
<1>5. 0 \in Good
  BY <1>3
<1>6. \A i \in 0 + 1..n : i - 1 \in Good => i \in Good
  BY <1>3
<1>7. 0..n \subseteq Good
  <2>1. 0 \in Int /\ n \in Int
    OBVIOUS
  <2> HIDE DEF Good
  <2> QED BY <2>1, <1>5, <1>6, IntervalInduction
<1> QED BY <1>4, <1>7

LEMMA BytesInWritten ==
    ASSUME NEW b, disk[b] \in Block, NEW from \in Nat,
           NEW m \in 0..TailSector, WrittenTo(disk[b], from, m),
           NEW n \in 0..m
    PROVE  BytesIn(b, n) = Ends(disk[b], from, n) - from
<1> DEFINE E(s) == Ends(disk[b], from, s)
           g == [s \in 0..n |-> E(s) - from]
<1>1. \A s \in 0..m : E(s) \in Nat
  BY EndsAreNumbers
<1>2. \A s \in 1..m : E(s) = E(s - 1) + Len(disk[b][s].data) /\ Len(disk[b][s].data) \in Nat
  BY EndsAreNumbers
<1>3. E(0) = from
  BY DEF Ends
<1> HIDE DEF E
<1>4. g \in [0..n -> Int] /\ g[0] = 0 /\ n \in Nat /\ n \in 0..n
  BY <1>1, <1>3, Geometry
<1>5. ASSUME NEW s \in 1..n PROVE g[s] = g[s - 1] + Len(disk[b][s].data)
  <2>1. s \in 1..m /\ s \in 0..n /\ s - 1 \in 0..n /\ s \in 0..m /\ s - 1 \in 0..m
    BY Geometry
  <2>2. g[s] = E(s) - from /\ g[s - 1] = E(s - 1) - from
    BY <2>1
  <2>3. /\ E(s) = E(s - 1) + Len(disk[b][s].data) /\ Len(disk[b][s].data) \in Nat
        /\ E(s) \in Nat /\ E(s - 1) \in Nat
    BY <1>1, <1>2, <2>1
  <2> HIDE DEF g
  <2> QED BY <2>2, <2>3
<1>6. g[n] = E(n) - from
  BY <1>4
<1> HIDE DEF g
<1>7. BytesIn(b, n) = g[n]
  <2>1. SumsUp(g, b, n)
    BY <1>4, <1>5 DEF SumsUp
  <2> QED BY <1>4, <2>1, SumIs
<1> QED BY <1>6, <1>7 DEF E

-----------------------------------------------------------------------------
(* Where a file's blocks begin. *)

IsFileOn(d, k, path, base, m) ==
    /\ d \in Device
    /\ k \in Nat /\ k < NumBlocks /\ m \in 0..TailSector - 1
    /\ path \in [0..k -> Blocks] /\ base \in [0..k -> Nat]
    /\ IsChain(d, k, path, base, m)

LEMMA BlocksOfChain ==
    ASSUME NEW d, NEW k, NEW path, NEW base, NEW m, IsFileOn(d, k, path, base, m)
    PROVE  /\ k \in Nat /\ k < NumBlocks /\ base[0] = 0
           /\ 0 \in 0..k /\ k \in 0..k /\ 0 - 1 < k
           /\ \A i \in 0..k : /\ path[i] \in Blocks /\ base[i] \in Nat
                              /\ d[path[i]] \in Block
                              /\ i < k => /\ Full(d[path[i]], base[i], base[i + 1], path[i + 1])
                                          /\ WrittenTo(d[path[i]], base[i], TailSector)
                                          /\ i + 1 \in 0..k /\ path[i + 1] # NoBlock
           /\ Part(d[path[k]], base[k], m)
           /\ WrittenTo(d[path[k]], base[k], m)
           /\ m \in 0..TailSector /\ TailSector \in 0..TailSector
           /\ TailSector \in m + 1..TailSector
<1>1. /\ k \in Nat /\ k < NumBlocks /\ base[0] = 0
      /\ path \in [0..k -> Blocks] /\ base \in [0..k -> Nat] /\ d \in [Blocks -> Block]
  BY DEF IsFileOn, IsChain, Device, Block
<1>2. m \in 0..TailSector /\ TailSector \in 0..TailSector /\ TailSector \in m + 1..TailSector
  BY Geometry DEF IsFileOn
<1>3. Part(d[path[k]], base[k], m) /\ WrittenTo(d[path[k]], base[k], m)
  BY DEF IsFileOn, IsChain, Part
<1>4. ASSUME NEW i \in 0..k, i < k
      PROVE  /\ Full(d[path[i]], base[i], base[i + 1], path[i + 1])
             /\ WrittenTo(d[path[i]], base[i], TailSector)
             /\ i + 1 \in 0..k /\ path[i + 1] # NoBlock
  <2>1. i \in 0..k - 1 /\ i + 1 \in 0..k
    BY <1>1, <1>4
  <2>2. Full(d[path[i]], base[i], base[i + 1], path[i + 1])
    BY <2>1 DEF IsFileOn, IsChain
  <2>3. path[i + 1] # NoBlock
    BY <1>1, <2>1, Geometry
  <2> QED BY <2>1, <2>2, <2>3 DEF Full
<1>5. \A i \in 0..k : path[i] \in Blocks /\ base[i] \in Nat /\ d[path[i]] \in Block
  BY <1>1
<1>6. 0 \in 0..k /\ k \in 0..k /\ 0 - 1 < k
  BY <1>1
<1> QED BY <1>1, <1>2, <1>3, <1>4, <1>5, <1>6, Zenon

LEMMA BasesGrow ==
    ASSUME NEW d, NEW k, NEW path, NEW base, NEW m, IsFileOn(d, k, path, base, m),
           NEW i \in 0..k, NEW j \in 0..k
    PROVE  /\ i <= j => base[i] <= base[j]
           /\ i < j => base[i] < base[j]
<1> DEFINE Good == {x \in i..k : base[i] <= base[x] /\ (i < x => base[i] < base[x])}
<1>0. k \in Nat
  BY DEF IsFileOn
<1>1. \A x \in 0..k : base[x] \in Nat
  BY BlocksOfChain
<1>2. ASSUME NEW x \in 0..k, x < k PROVE base[x] < base[x + 1]
  <2> DEFINE blk == d[path[x]]
  <2>1. /\ Full(blk, base[x], base[x + 1], path[x + 1])
        /\ blk \in Block /\ base[x] \in Nat
    BY <1>2, BlocksOfChain
  <2>2. TailSector \in 0..TailSector /\ 0 \in 0..TailSector /\ 0 < TailSector
    BY Geometry
  <2>3. WrittenTo(blk, base[x], TailSector) /\ Ends(blk, base[x], TailSector) = base[x + 1]
    BY <2>1 DEF Full
  <2> HIDE DEF blk
  <2>4. Ends(blk, base[x], 0) < Ends(blk, base[x], TailSector)
    BY <2>1, <2>2, <2>3, EndsGrow
  <2> QED BY <2>3, <2>4 DEF Ends
<1>3. i \in Good
  BY <1>1
<1>4. ASSUME NEW x \in i + 1..k, x - 1 \in Good PROVE x \in Good
  <2>1. x - 1 \in 0..k /\ x - 1 < k /\ x \in 0..k /\ x - 1 + 1 = x
    BY <1>0
  <2>2. base[x - 1] < base[x]
    BY <1>2, <2>1
  <2>3. base[x - 1] \in Nat /\ base[x] \in Nat /\ base[i] \in Nat
    BY <1>1, <2>1
  <2> QED BY <1>4, <2>2, <2>3
<1>5. i..k \subseteq Good
  <2>1. i \in Int /\ k \in Int
    BY <1>0
  <2> HIDE DEF Good
  <2> QED BY <1>3, <1>4, <2>1, IntervalInduction
<1> QED BY <1>0, <1>5

(* The block in which the byte in front of position p is, or would be. *)
LEMMA BlockBefore ==
    ASSUME NEW k \in Nat, NEW base \in [0..k -> Nat],
           NEW p \in Nat, NEW j \in 0..k, base[j] < p
    PROVE  \E i \in 0..k : j <= i /\ base[i] < p /\ (i < k => p <= base[i + 1])
<1> DEFINE S == {i \in j..k : base[i] < p}
<1>1. S \in SUBSET Int /\ S # {} /\ k \in Int /\ \A n \in S : n <= k
  <2>1. j \in S
    OBVIOUS
  <2> QED BY <2>1
<1>2. PICK i \in S : \A x \in S : x <= i
  <2> HIDE DEF S
  <2> QED BY <1>1, GreatestInteger
<1>3. ASSUME i < k PROVE p <= base[i + 1]
  <2>1. i + 1 \in 0..k /\ i + 1 \in j..k /\ ~(i + 1 <= i)
    BY <1>3
  <2>2. base[i + 1] \in Nat
    BY <2>1
  <2> QED BY <1>2, <2>1, <2>2
<1> QED BY <1>2, <1>3

-----------------------------------------------------------------------------
(* From block to block. *)

LEMMA LinksAre ==
    ASSUME NEW b, NEW g,
           g = [n \in 0..NumBlocks |-> g[n]], g[0] = b,
           \A n \in 1..NumBlocks : g[n] = Linked(g[n - 1])
    PROVE  Links(b) = g
<1> DEFINE N == NumBlocks
           IsLinks(f) == f = [n \in 0..N |-> IF n = 0 THEN b ELSE Linked(f[n - 1])]
           links == CHOOSE f : IsLinks(f)
           Good == {n \in 0..N : links[n] = g[n]}
<1>1. N \in Nat
  BY Geometry
<1>2. IsLinks(g)
  <2> HIDE DEF N
  <2>1. \A n \in 0..N : n = 0 \/ n \in 1..N
    BY <1>1
  <2>2. \A n \in 0..N : g[n] = IF n = 0 THEN b ELSE Linked(g[n - 1])
    BY <2>1 DEF N
  <2>3. g = [n \in 0..N |-> g[n]]
    BY DEF N
  <2> QED BY <2>2, <2>3
<1>3. IsLinks(links)
  BY <1>2
<1>4. Links(b) = links
  BY DEF Links
<1> HIDE DEF links, N
<1>5. links[0] = b /\ \A n \in 1..N : links[n] = Linked(links[n - 1])
  BY <1>1, <1>3
<1>6. 0 \in Good
  BY <1>1, <1>5
<1>7. ASSUME NEW i \in 0 + 1..N, i - 1 \in Good PROVE i \in Good
  <2>1. i \in 1..N /\ i \in 0..N
    BY <1>1
  <2>2. g[i] = Linked(g[i - 1])
    BY <2>1 DEF N
  <2> QED BY <1>5, <1>7, <2>1, <2>2
<1>8. 0..N \subseteq Good
  <2>1. 0 \in Int /\ N \in Int
    BY <1>1
  <2> HIDE DEF Good
  <2> QED BY <2>1, <1>6, <1>7, IntervalInduction
<1>9. \A n \in 0..N : links[n] = g[n]
  BY <1>8
<1>10. links = [n \in 0..N |-> links[n]]
  BY <1>3
<1>11. g = [n \in 0..N |-> g[n]]
  BY DEF N
<1> QED BY <1>4, <1>9, <1>10, <1>11

(* The tails of a chain. *)
LEMMA TailsOfChain ==
    ASSUME NEW d, NEW k, NEW path, NEW base, NEW m, IsFileOn(d, k, path, base, m),
           NEW i \in 0..k
    PROVE  LET tail == d[path[i]][TailSector]
           IN  /\ i < k => tail.link = path[i + 1] /\ tail.inBlock = base[i + 1] - base[i]
               /\ i = k => tail = Unwritten /\ tail.link = NoBlock
<1>1. i < k => Full(d[path[i]], base[i], base[i + 1], path[i + 1])
  BY BlocksOfChain
<1>2. i = k => Part(d[path[i]], base[k], m) /\ TailSector \in m + 1..TailSector
  BY BlocksOfChain
<1> QED BY <1>1, <1>2 DEF Full, Part, Unwritten

LEMMA LinksOfChain ==
    ASSUME NEW k, NEW path, NEW base, NEW m, IsFileOn(disk, k, path, base, m)
    PROVE  /\ Links(path[0])[NumBlocks] = path[k]
           /\ {Links(path[0])[n] : n \in 0..NumBlocks} = {path[i] : i \in 0..k}
<1> DEFINE g == [n \in 0..NumBlocks |-> IF n <= k THEN path[n] ELSE path[k]]
<1>1. k \in Nat /\ NumBlocks \in Nat /\ k < NumBlocks
  BY Geometry DEF IsFileOn
<1>2. ASSUME NEW i \in 0..k, i < k PROVE Linked(path[i]) = path[i + 1]
  <2>1. disk[path[i]][TailSector].link = path[i + 1]
    BY <1>2, TailsOfChain
  <2>2. path[i + 1] # NoBlock
    BY <1>2, BlocksOfChain
  <2> QED BY <2>1, <2>2 DEF Linked
<1>3. Linked(path[k]) = path[k]
  <2>1. disk[path[k]][TailSector].link = NoBlock
    BY <1>1, TailsOfChain
  <2> QED BY <2>1 DEF Linked
<1>4. g[0] = path[0]
  BY <1>1
<1>5. ASSUME NEW n \in 1..NumBlocks PROVE g[n] = Linked(g[n - 1])
  <2>1. n \in 0..NumBlocks /\ n - 1 \in 0..NumBlocks
    BY <1>1
  <2>2. CASE n <= k
    <3>1. n - 1 \in 0..k /\ n - 1 < k /\ n - 1 + 1 = n /\ n - 1 <= k
      BY <1>1, <2>2
    <3> QED BY <1>2, <2>1, <2>2, <3>1
  <2>3. CASE ~(n <= k)
    <3>1. g[n] = path[k]
      BY <1>1, <2>1, <2>3
    <3>2. g[n - 1] = path[k]
      <4>1. n - 1 <= k => n - 1 = k
        BY <1>1, <2>3
      <4> QED BY <2>1, <4>1
    <3> QED BY <1>3, <3>1, <3>2
  <2> QED BY <2>2, <2>3
<1>6. g = [n \in 0..NumBlocks |-> g[n]]
  OBVIOUS
<1>7. Links(path[0]) = g
  <2> HIDE DEF g
  <2> QED BY <1>4, <1>5, <1>6, LinksAre
<1>8. g[NumBlocks] = path[k]
  BY <1>1
<1>9. {g[n] : n \in 0..NumBlocks} = {path[i] : i \in 0..k}
  <2>1. ASSUME NEW n \in 0..NumBlocks PROVE g[n] \in {path[i] : i \in 0..k}
    BY <1>1
  <2>2. ASSUME NEW i \in 0..k PROVE path[i] \in {g[n] : n \in 0..NumBlocks}
    <3>1. i \in 0..NumBlocks /\ g[i] = path[i]
      BY <1>1
    <3> QED BY <3>1
  <2> HIDE DEF g
  <2> QED BY <2>1, <2>2
<1> HIDE DEF g
<1> QED BY <1>7, <1>8, <1>9

(* The turns that SkipBlocks takes. *)
Skipping(g, block, max) ==
    /\ g = [n \in 0..NumBlocks |-> g[n]]
    /\ g[0] = [block |-> block, max |-> max, bytes |-> 0, blocks |-> 0]
    /\ \A n \in 1..NumBlocks : g[n] = SkipBlock(g[n - 1])

LEMMA SkipsAre ==
    ASSUME NEW block, NEW max, NEW g, Skipping(g, block, max)
    PROVE  SkipBlocks(block, max) = g[NumBlocks]
<1> USE DEF Skipping
<1> DEFINE N == NumBlocks
           begin == [block |-> block, max |-> max, bytes |-> 0, blocks |-> 0]
           IsSkips(f) == f = [n \in 0..N |-> IF n = 0 THEN begin ELSE SkipBlock(f[n - 1])]
           skips == CHOOSE f : IsSkips(f)
           Good == {n \in 0..N : skips[n] = g[n]}
<1>1. N \in Nat
  BY Geometry
<1>2. IsSkips(g)
  <2> HIDE DEF N, begin
  <2>1. \A n \in 0..N : n = 0 \/ n \in 1..N
    BY <1>1
  <2>2. \A n \in 0..N : g[n] = IF n = 0 THEN begin ELSE SkipBlock(g[n - 1])
    BY <2>1 DEF N, begin
  <2>3. g = [n \in 0..N |-> g[n]]
    BY DEF N
  <2> QED BY <2>2, <2>3
<1>3. IsSkips(skips)
  BY <1>2
<1>4. SkipBlocks(block, max) = skips[N]
  BY DEF SkipBlocks
<1> HIDE DEF skips, N, begin
<1>5. skips[0] = begin /\ \A n \in 1..N : skips[n] = SkipBlock(skips[n - 1])
  BY <1>1, <1>3
<1>6. 0 \in Good
  BY <1>1, <1>5 DEF begin
<1>7. ASSUME NEW i \in 0 + 1..N, i - 1 \in Good PROVE i \in Good
  <2>1. i \in 1..N /\ i \in 0..N
    BY <1>1
  <2>2. g[i] = SkipBlock(g[i - 1])
    BY <2>1 DEF N
  <2> QED BY <1>5, <1>7, <2>1, <2>2
<1>8. 0..N \subseteq Good
  <2>1. 0 \in Int /\ N \in Int
    BY <1>1
  <2> HIDE DEF Good
  <2> QED BY <2>1, <1>6, <1>7, IntervalInduction
<1>9. skips[N] = g[N]
  <2>1. N \in 0..N
    BY <1>1
  <2> QED BY <1>8, <2>1
<1> QED BY <1>4, <1>9 DEF N

(* What is left to do in block i by a walk from block j to position p. *)
Skipped(path, base, j, i, p) ==
    [block |-> path[i], max |-> p - base[i], bytes |-> base[i] - base[j], blocks |-> i - j]

LEMMA SkipsTo ==
    ASSUME NEW k, NEW path, NEW base, NEW m, IsFileOn(disk, k, path, base, m),
           NEW p \in Nat, NEW j \in 0..k, NEW i \in 0..k, j <= i,
           base[i] < p, i < k => p <= base[i + 1]
    PROVE  SkipBlocks(path[j], p - base[j]) = Skipped(path, base, j, i, p)
<1> DEFINE g == [n \in 0..NumBlocks |->
                   IF j + n <= i THEN Skipped(path, base, j, j + n, p)
                                 ELSE Skipped(path, base, j, i, p)]
<1>1. k \in Nat /\ i \in Nat /\ j \in Nat /\ i <= k /\ NumBlocks \in Nat /\ k < NumBlocks
  BY Geometry DEF IsFileOn
<1>2. \A x \in 0..k : base[x] \in Nat /\ path[x] \in Blocks
  BY BlocksOfChain
<1>4. ASSUME NEW x \in j..k, x < i
      PROVE  SkipBlock(Skipped(path, base, j, x, p)) = Skipped(path, base, j, x + 1, p)
  <2>1. x + 1 \in 0..k /\ x < k /\ x + 1 <= i /\ x \in 0..k
    BY <1>1, <1>4
  <2>2. base[x + 1] <= base[i]
    BY <2>1, BasesGrow
  <2>3. /\ disk[path[x]][TailSector].link = path[x + 1]
        /\ disk[path[x]][TailSector].inBlock = base[x + 1] - base[x]
    BY <2>1, TailsOfChain
  <2>4. path[x + 1] # NoBlock
    BY <2>1, BlocksOfChain
  <2>5. /\ p - base[x] > base[x + 1] - base[x]
        /\ (p - base[x]) - (base[x + 1] - base[x]) = p - base[x + 1]
        /\ (base[x] - base[j]) + (base[x + 1] - base[x]) = base[x + 1] - base[j]
        /\ (x - j) + 1 = x + 1 - j
    BY <1>1, <1>2, <2>1, <2>2
  <2> QED BY <2>3, <2>4, <2>5 DEF SkipBlock, Past, Skipped
<1>5. SkipBlock(Skipped(path, base, j, i, p)) = Skipped(path, base, j, i, p)
  <2>1. CASE i < k
    <3>1. i + 1 \in 0..k
      BY <1>1, <2>1
    <3>2. disk[path[i]][TailSector].inBlock = base[i + 1] - base[i]
      BY <2>1, TailsOfChain
    <3>3. ~(p - base[i] > base[i + 1] - base[i])
      BY <1>2, <2>1, <3>1
    <3> QED BY <3>2, <3>3 DEF SkipBlock, Skipped
  <2>2. CASE ~(i < k)
    <3>1. i = k
      BY <1>1, <2>2
    <3>2. disk[path[i]][TailSector].link = NoBlock
      BY <3>1, TailsOfChain
    <3> QED BY <3>2 DEF SkipBlock, Skipped
  <2> QED BY <2>1, <2>2
<1>6. g[0] = [block |-> path[j], max |-> p - base[j], bytes |-> 0, blocks |-> 0]
  <2>1. j + 0 = j /\ base[j] - base[j] = 0 /\ j - j = 0
    BY <1>1, <1>2
  <2> QED BY <1>1, <2>1 DEF Skipped
<1>7. ASSUME NEW n \in 1..NumBlocks PROVE g[n] = SkipBlock(g[n - 1])
  <2>1. n \in 0..NumBlocks /\ n - 1 \in 0..NumBlocks
    BY <1>1
  <2>2. CASE j + n <= i
    <3>1. /\ j + (n - 1) \in j..k /\ j + (n - 1) < i /\ j + (n - 1) + 1 = j + n
          /\ j + (n - 1) <= i
      BY <1>1, <2>2
    <3> QED BY <1>4, <2>1, <2>2, <3>1
  <2>3. CASE ~(j + n <= i)
    <3>1. g[n] = Skipped(path, base, j, i, p)
      BY <1>1, <2>1, <2>3
    <3>2. g[n - 1] = Skipped(path, base, j, i, p)
      <4>1. j + (n - 1) <= i => j + (n - 1) = i
        BY <1>1, <2>3
      <4> QED BY <2>1, <4>1
    <3> QED BY <1>5, <3>1, <3>2
  <2> QED BY <2>2, <2>3
<1>8. g = [n \in 0..NumBlocks |-> g[n]]
  OBVIOUS
<1>9. g[NumBlocks] = Skipped(path, base, j, i, p)
  <2>1. j + NumBlocks <= i => j + NumBlocks = i
    BY <1>1
  <2> QED BY <1>1, <2>1
<1>10. SkipBlocks(path[j], p - base[j]) = g[NumBlocks]
  <2> HIDE DEF g
  <2>1. Skipping(g, path[j], p - base[j])
    BY <1>6, <1>7, <1>8 DEF Skipping
  <2> QED BY <2>1, SkipsAre
<1> HIDE DEF g
<1> QED BY <1>9, <1>10

-----------------------------------------------------------------------------
(* From sector to sector. *)

LEMMA Remainder ==
    ASSUME NEW a \in Nat, NEW b \in Nat, b > 0
    PROVE  a % b \in 0..b - 1 /\ (a < b => a % b = a)
OBVIOUS

LEMMA LeastIs ==
    ASSUME NEW S \in SUBSET Int, NEW n \in S, \A x \in S : n <= x
    PROVE  Least(S) = n
<1>1. \E x \in S : \A y \in S : x <= y
  OBVIOUS
<1>2. Least(S) \in S /\ \A y \in S : Least(S) <= y
  BY <1>1 DEF Least
<1>3. Least(S) <= n /\ n <= Least(S) /\ n \in Int /\ Least(S) \in Int
  BY <1>2
<1> HIDE DEF Least
<1> QED BY <1>3

StopOf(b, rest) == Least({s \in 1..TailSector - 1 : Stops(b, s, rest)})

(* The sector in front of which there are fewer bytes than `rest'.          *)
LEMMA StopsAt ==
    ASSUME NEW b, disk[b] \in Block, NEW from \in Nat,
           NEW n \in 0..TailSector, WrittenTo(disk[b], from, n),
           NEW rest \in Nat,
           NEW t \in 1..TailSector - 1, t - 1 <= n,
           Stops(b, t, rest), Ends(disk[b], from, t - 1) < from + rest
    PROVE  StopOf(b, rest) = t
<1> DEFINE S == {s \in 1..TailSector - 1 : Stops(b, s, rest)}
           E(s) == Ends(disk[b], from, s)
<1>1. t \in S /\ TailSector \in Nat
  BY Geometry
<1>2. ASSUME NEW s \in 1..TailSector - 1, s < t PROVE ~Stops(b, s, rest)
  <2>1. s \in 1..n /\ s \in 0..n /\ s <= t - 1 /\ t - 1 \in 0..n
    BY <1>1, <1>2
  <2>2. disk[b][s].data # <<>>
    BY <2>1, EndsAreNumbers
  <2>3. E(s) <= E(t - 1)
    BY <2>1, EndsGrow
  <2>4. BytesIn(b, s) = E(s) - from
    BY <2>1, BytesInWritten
  <2>5. E(s) \in Nat /\ E(t - 1) \in Nat
    BY <2>1, EndsAreNumbers
  <2> HIDE DEF E
  <2>6. E(t - 1) < from + rest
    BY DEF E
  <2>7. ~(rest <= E(s) - from)
    BY <2>3, <2>5, <2>6
  <2> QED BY <2>2, <2>4, <2>7 DEF Stops
<1>3. S \in SUBSET Int /\ \A s \in S : t <= s
  <2> SUFFICES ASSUME NEW s \in S PROVE t <= s
    BY <1>1
  <2>1. s \in 1..TailSector - 1 /\ Stops(b, s, rest) /\ s \in Nat /\ t \in Nat
    BY <1>1
  <2>2. ~(s < t)
    BY <1>2, <2>1
  <2> QED BY <2>1, <2>2
<1> HIDE DEF S
<1>4. Least(S) = t
  BY <1>1, <1>3, LeastIs
<1> QED BY <1>4 DEF S, StopOf

(* The sector that the byte in front of position z is in.                   *)
LEMMA SectorBefore ==
    ASSUME NEW blk \in Block, NEW from \in Nat,
           NEW n \in 0..TailSector, WrittenTo(blk, from, n),
           NEW z \in Nat, from < z, z <= Ends(blk, from, n)
    PROVE  \E t \in 1..n : Ends(blk, from, t - 1) < z /\ z <= Ends(blk, from, t)
<1> DEFINE E(x) == Ends(blk, from, x)
           S == {s \in 0..n : z <= E(s)}
<1>1. \A x \in 0..n : E(x) \in Nat
  BY EndsAreNumbers
<1>2. E(0) = from /\ z <= E(n)
  BY EndsAreNumbers
<1> HIDE DEF E
<1>3. PICK t \in S : \A x \in S : t <= x
  <2>1. n \in S /\ S \in SUBSET Nat /\ S # {}
    BY <1>2
  <2> HIDE DEF S
  <2> QED BY <2>1, LeastNatural
<1>4. t # 0
  BY <1>2, <1>3
<1>5. t \in 1..n /\ t - 1 \in 0..n /\ ~(t <= t - 1)
  BY <1>3, <1>4
<1>6. ~(z <= E(t - 1))
  BY <1>3, <1>5
<1>7. E(t - 1) < z
  BY <1>1, <1>5, <1>6
<1> QED BY <1>3, <1>5, <1>7 DEF E

(* What a walk returns that stops in sector t of block i.                   *)
WalkStop(b, at, rest, t) ==
    IF disk[b][t].data = <<>>
    THEN [at |-> At(b, t), blocks |-> at.blocks, bytes |-> at.bytes + BytesIn(b, t - 1)]
    ELSE [at |-> [At(b, t) EXCEPT !.into = rest - BytesIn(b, t - 1)],
          blocks |-> at.blocks, bytes |-> at.bytes + at.max]

LEMMA WalkStopsAt ==
    ASSUME NEW block, NEW max, NEW at, NEW t,
           SkipBlocks(block, max) = at,
           StopOf(at.block, Rest(at.block, at.max)) = t
    PROVE  Walk(block, max) = WalkStop(at.block, at, Rest(at.block, at.max), t)
BY DEF Walk, WalkStop, StopOf

(* The length of a file, seen from its last block. *)
LEMMA LengthIsNumber ==
    ASSUME NEW d, NEW k, NEW path, NEW base, NEW m, IsFileOn(d, k, path, base, m)
    PROVE  /\ Length(d, k, path, base, m) \in Nat
           /\ base[k] <= Length(d, k, path, base, m)
           /\ m = 0 => Length(d, k, path, base, m) = base[k]
<1>1. /\ d[path[k]] \in Block /\ base[k] \in Nat /\ k \in 0..k
      /\ WrittenTo(d[path[k]], base[k], m) /\ m \in 0..TailSector
  BY BlocksOfChain
<1>2. 0 \in 0..m /\ m \in 0..m /\ 0 <= m
  BY <1>1, Geometry
<1>3. Ends(d[path[k]], base[k], m) \in Nat
  BY <1>1, <1>2, EndsAreNumbers
<1>4. Ends(d[path[k]], base[k], 0) <= Ends(d[path[k]], base[k], m)
  BY <1>1, <1>2, EndsGrow
<1> QED BY <1>3, <1>4 DEF Length, Ends

(* A walk past the end stops there. *)
LEMMA WalkToEnd ==
    ASSUME NEW k, NEW path, NEW base, NEW m, IsFileOn(disk, k, path, base, m),
           m < TailSector - 1, NEW j \in 0..k,
           NEW p \in Nat, Length(disk, k, path, base, m) < p
    PROVE  Walk(path[j], p - base[j])
               = [at |-> At(path[k], m + 1), blocks |-> k - j,
                  bytes |-> Length(disk, k, path, base, m) - base[j]]
<1> DEFINE b == path[k]
           from == base[k]
           E(x) == Ends(disk[b], from, x)
           at == Skipped(path, base, j, k, p)
           max == p - from
<1>1. /\ disk[b] \in Block /\ from \in Nat /\ k \in 0..k /\ base[j] \in Nat
      /\ Part(disk[b], from, m) /\ WrittenTo(disk[b], from, m) /\ m \in 0..TailSector
      /\ k \in Nat /\ j <= k
  BY BlocksOfChain
<1>2. E(m) \in Nat /\ from <= E(m) /\ E(m) < p /\ E(m) = Length(disk, k, path, base, m)
  BY LengthIsNumber DEF Length
<1>3. from < p /\ max \in Nat /\ max > E(m) - from
  BY <1>1, <1>2
<1>4. SkipBlocks(path[j], p - base[j]) = at
  BY <1>1, <1>3, SkipsTo
<1>5. m + 1 \in 1..TailSector - 1 /\ m + 1 \in m + 1..TailSector /\ m + 1 - 1 = m /\ m \in 0..m
  BY <1>1, Geometry
<1>6. disk[b][m + 1].data = <<>>
  BY <1>1, <1>5 DEF Part, Unwritten
<1>7. Rest(b, max) = max
  BY <1>5, <1>6 DEF Rest
<1>8. BytesIn(b, m) = E(m) - from
  BY <1>1, <1>5, BytesInWritten
<1>9. StopOf(b, max) = m + 1
  <2>1. Stops(b, m + 1, max)
    BY <1>6 DEF Stops
  <2>2. E(m + 1 - 1) < from + max
    <3>1. from + max = p
      BY <1>1
    <3> HIDE DEF E, from, max
    <3> QED BY <1>2, <1>5, <3>1
  <2>3. m + 1 - 1 <= m
    BY <1>1
  <2> HIDE DEF b, from, max
  <2> QED BY <1>1, <1>3, <1>5, <2>1, <2>2, <2>3, StopsAt DEF E
<1>10. at.block = b /\ at.max = max /\ at.blocks = k - j /\ at.bytes = from - base[j]
  BY DEF Skipped
<1>11. Walk(path[j], p - base[j]) = WalkStop(b, at, max, m + 1)
  <2> HIDE DEF at, b, max
  <2>1. StopOf(at.block, Rest(at.block, at.max)) = m + 1
    BY <1>7, <1>9, <1>10
  <2>2. Walk(path[j], p - base[j]) = WalkStop(at.block, at, Rest(at.block, at.max), m + 1)
    BY <1>4, <2>1, WalkStopsAt
  <2> QED BY <1>7, <1>10, <2>2
<1>12. (from - base[j]) + (E(m) - from) = E(m) - base[j]
  BY <1>1, <1>2
<1> HIDE DEF at, E, from, max
<1> QED BY <1>2, <1>5, <1>6, <1>8, <1>10, <1>11, <1>12 DEF WalkStop

(* A walk to a position inside of the file stops behind a byte, the one in  *)
(* front of the position unless that is in a tail sector.                   *)
IsInside(r, b, p, start) ==
    /\ r.bytes = p - start
    /\ r.at \in Address
    /\ r.at.block = b /\ r.at.sector \in 1..TailSector - 1
    /\ r.at.into \in Nat /\ r.at.into > 0
    /\ disk[b][r.at.sector].data # <<>>

LEMMA WalkInside ==
    ASSUME NEW k, NEW path, NEW base, NEW m, IsFileOn(disk, k, path, base, m),
           NEW i \in 0..k, NEW j \in 0..k, j <= i,
           NEW p \in Nat, base[i] < p,
           IF i < k THEN p <= base[i + 1] ELSE p <= Length(disk, k, path, base, m)
    PROVE  LET r == Walk(path[j], p - base[j])
           IN  /\ IsInside(r, path[i], p, base[j])
               /\ i = k \/ p <= Ends(disk[path[i]], base[i], TailSector - 1)
                      => disk[path[i]][r.at.sector].data[1] + r.at.into = p
<1> DEFINE b == path[i]
           from == base[i]
           E(x) == Ends(disk[b], from, x)
           at == Skipped(path, base, j, i, p)
           max == p - from
           n == IF i < k THEN TailSector - 1 ELSE m
           rest == Rest(b, max)
<1>1. /\ disk[b] \in Block /\ from \in Nat /\ base[j] \in Nat /\ k \in Nat
      /\ TailSector \in Nat /\ TailSector >= 2 /\ m \in 0..TailSector
      /\ n \in 0..TailSector - 1 /\ n \in 0..TailSector
  <2>1. disk[b] \in Block /\ from \in Nat /\ base[j] \in Nat /\ k \in Nat
    BY BlocksOfChain
  <2>2. TailSector \in Nat /\ TailSector >= 2 /\ m \in 0..TailSector - 1
    BY Geometry DEF IsFileOn
  <2>3. n \in 0..TailSector - 1
    BY <2>2
  <2> HIDE DEF n
  <2> QED BY <2>1, <2>2, <2>3
<1>2. WrittenTo(disk[b], from, n)
  <2>1. CASE i < k
    <3>1. WrittenTo(disk[b], from, TailSector)
      BY <2>1, BlocksOfChain
    <3>2. \A s \in 1..n : s \in 1..TailSector
      BY <1>1, <2>1
    <3> HIDE DEF n
    <3> QED BY <3>1, <3>2 DEF WrittenTo
  <2>2. CASE ~(i < k)
    <3>1. i = k /\ n = m
      BY <1>1, <2>2
    <3> QED BY <3>1, BlocksOfChain
  <2> QED BY <2>1, <2>2
<1>3. \A x \in 0..n : E(x) \in Nat
  BY <1>1, <1>2, EndsAreNumbers
<1>4. n \in 0..n /\ E(n) \in Nat
  <2>1. n \in 0..n
    BY <1>1
  <2> QED BY <1>3, <2>1
<1>5. max \in Nat /\ max > 0 /\ p = from + max
  BY <1>1
<1>6. SkipBlocks(path[j], p - base[j]) = at
  BY <1>1, SkipsTo
<1>7. i = k => p <= E(n) /\ n = m
  BY DEF Length
<1>8. ASSUME \A s \in 1..TailSector - 1 : disk[b][s].data # <<>>
      PROVE  n = TailSector - 1
  <2>1. SUFFICES ASSUME ~(i < k) PROVE m = TailSector - 1
    OBVIOUS
  <2>2. i = k
    BY <1>1, <2>1
  <2>3. SUFFICES ASSUME m # TailSector - 1 PROVE FALSE
    OBVIOUS
  <2>4. m + 1 \in 1..TailSector - 1 /\ m + 1 \in m + 1..TailSector
    BY <1>1, <2>2, <2>3, <2>1
  <2>5. disk[b][m + 1] = Unwritten
    BY <2>2, <2>4, BlocksOfChain DEF Part
  <2> QED BY <1>8, <2>4, <2>5 DEF Unwritten
<1>9. BytesIn(b, n) = E(n) - from
  BY <1>1, <1>2, <1>4, BytesInWritten
<1>10. i < k => \A s \in 1..TailSector - 1 : disk[b][s].data # <<>>
  <2>1. \A s \in 1..n : disk[b][s].data # <<>>
    BY <1>2 DEF WrittenTo, IsRun
  <2>2. i < k => n = TailSector - 1
    OBVIOUS
  <2> HIDE DEF n, b
  <2> QED BY <2>1, <2>2
<1>11. p <= E(n) => rest = max
  <2>1. CASE \A s \in 1..TailSector - 1 : disk[b][s].data # <<>>
    <3> DEFINE total == BytesIn(b, TailSector - 1)
    <3>1. total = E(n) - from
      BY <1>8, <1>9, <2>1
    <3>2. rest = ((max - 1) % total) + 1
      BY <2>1 DEF Rest
    <3> HIDE DEF E, n, max, total, rest, from
    <3>3. SUFFICES ASSUME p <= E(n) PROVE rest = max
      OBVIOUS
    <3>4. max - 1 \in Nat /\ total \in Nat /\ total > 0 /\ max - 1 < total
      BY <1>1, <1>4, <1>5, <3>1, <3>3
    <3>5. (max - 1) % total = max - 1
      BY <3>4, Remainder
    <3> QED BY <1>5, <3>2, <3>5
  <2>2. CASE ~(\A s \in 1..TailSector - 1 : disk[b][s].data # <<>>)
    BY <2>2 DEF Rest
  <2> QED BY <2>1, <2>2
<1>12. rest \in Nat /\ rest > 0 /\ from + rest <= E(n)
  <2>1. CASE p <= E(n)
    <3> HIDE DEF rest, max, E, n
    <3> QED BY <1>5, <1>11, <2>1
  <2>2. CASE ~(p <= E(n))
    <3> DEFINE total == BytesIn(b, TailSector - 1)
    <3>1. i < k
      BY <1>1, <1>7, <2>2
    <3>2. rest = ((max - 1) % total) + 1
      BY <1>10, <3>1 DEF Rest
    <3>3. n = TailSector - 1 /\ total = E(n) - from
      BY <1>9, <3>1
    <3>4. 0 < n /\ 0 \in 0..n /\ E(0) = from
      BY <1>1, <3>3 DEF Ends
    <3>5. E(0) < E(n)
      BY <1>1, <1>2, <1>4, <3>4, EndsGrow
    <3> HIDE DEF E, n, max, total, rest, from
    <3>6. max - 1 \in Nat /\ total \in Nat /\ total > 0
      BY <1>1, <1>4, <1>5, <3>3, <3>4, <3>5
    <3>7. (max - 1) % total \in 0..total - 1
      BY <3>6, Remainder
    <3> QED BY <1>1, <1>4, <3>2, <3>3, <3>6, <3>7
  <2> QED BY <2>1, <2>2
<1>13. PICK t \in 1..n : E(t - 1) < from + rest /\ from + rest <= E(t)
  <2>1. from + rest \in Nat /\ from < from + rest
    BY <1>1, <1>12
  <2> HIDE DEF n, rest
  <2> QED BY <1>1, <1>2, <1>12, <2>1, SectorBefore
<1>14. t \in 1..TailSector - 1 /\ t - 1 <= n /\ t \in 0..n /\ t - 1 \in 0..n
  <2> HIDE DEF n
  <2> QED BY <1>1
<1>15. disk[b][t].data # <<>> /\ disk[b][t].data[1] = E(t - 1)
  <2> HIDE DEF n, b, from
  <2>1. \A s \in 1..n : disk[b][s].data # <<>> /\ disk[b][s].data[1] = Ends(disk[b], from, s - 1)
    BY <1>1, <1>2, EndsAreNumbers
  <2> QED BY <2>1
<1>16. BytesIn(b, t) = E(t) - from /\ BytesIn(b, t - 1) = E(t - 1) - from
  BY <1>1, <1>2, <1>14, BytesInWritten
<1>17. E(t) \in Nat /\ E(t - 1) \in Nat
  BY <1>3, <1>14
<1>18. StopOf(b, rest) = t
  <2>1. rest <= BytesIn(b, t)
    <3> HIDE DEF E, rest
    <3> QED BY <1>1, <1>12, <1>13, <1>16, <1>17
  <2>2. Stops(b, t, rest)
    BY <2>1 DEF Stops
  <2> HIDE DEF b, from, rest, n
  <2> QED BY <1>1, <1>2, <1>12, <1>13, <1>14, <2>2, StopsAt
<1>19. at.block = b /\ at.max = max /\ at.blocks = i - j /\ at.bytes = from - base[j]
  BY DEF Skipped
<1>20. Walk(path[j], p - base[j]) = WalkStop(b, at, rest, t)
  <2>1. Rest(at.block, at.max) = rest
    BY <1>19
  <2> HIDE DEF at, b, rest
  <2>2. StopOf(at.block, Rest(at.block, at.max)) = t
    BY <1>18, <1>19, <2>1
  <2>3. Walk(path[j], p - base[j]) = WalkStop(at.block, at, Rest(at.block, at.max), t)
    BY <1>6, <2>2, WalkStopsAt
  <2> QED BY <1>19, <2>1, <2>3
<1> DEFINE r == WalkStop(b, at, rest, t)
<1>21. /\ r.at = [block |-> b, sector |-> t, into |-> rest - BytesIn(b, t - 1)]
       /\ r.bytes = at.bytes + at.max
  <2> HIDE DEF at, b, rest
  <2> QED BY <1>15 DEF WalkStop, At
<1>22. /\ r.at.block = b /\ r.at.sector = t
       /\ r.at.into = rest - (E(t - 1) - from)
       /\ r.bytes = (from - base[j]) + max
  <2> HIDE DEF r, at, b, rest, max, E, from
  <2> QED BY <1>16, <1>19, <1>21
<1>23. r.at.into \in Nat /\ r.at.into > 0 /\ r.bytes = p - base[j]
  <2> HIDE DEF r, at, b, rest, max, E, from
  <2> QED BY <1>1, <1>5, <1>12, <1>13, <1>17, <1>22
<1>24. i = k \/ p <= E(TailSector - 1) => disk[b][t].data[1] + r.at.into = p
  <2>1. SUFFICES ASSUME i = k \/ p <= E(TailSector - 1) PROVE p <= E(n)
    <3>1. ASSUME p <= E(n) PROVE disk[b][t].data[1] + r.at.into = p
      <4>1. rest = max
        BY <1>11, <3>1
      <4> HIDE DEF r, rest, max, E, from
      <4> QED BY <1>1, <1>5, <1>15, <1>17, <1>22, <4>1
    <3> QED BY <3>1, <2>1
  <2>2. i < k => n = TailSector - 1
    OBVIOUS
  <2> HIDE DEF n
  <2> QED BY <1>1, <1>7, <2>1, <2>2
<1>25. IsInside(r, b, p, base[j])
  <2>1. b \in Blocks /\ t \in Sectors
    BY <1>14, BlocksOfChain, Geometry
  <2>2. r.at = [block |-> b, sector |-> t, into |-> r.at.into]
    <3> HIDE DEF r
    <3> QED BY <1>21
  <2>3. r.at \in Address
    <3> HIDE DEF r, b
    <3> QED BY <1>23, <2>1, <2>2 DEF Address
  <2> HIDE DEF r, b
  <2> QED BY <1>14, <1>15, <1>22, <1>23, <2>3 DEF IsInside
<1> HIDE DEF r
<1>26. Walk(path[j], p - base[j]) = r
  BY <1>20 DEF r
<1>27. r.at.sector = t
  BY <1>22
<1> QED BY <1>24, <1>25, <1>26, <1>27

-----------------------------------------------------------------------------
(* seek(). *)

TreeOK == DOMAIN tree \subseteq Files \X Nat

LEMMA KeysAre ==
    ASSUME TreeOK, NEW key \in DOMAIN tree
    PROVE  /\ key = <<key[1], key[2]>> /\ key[1] \in Nat /\ key[2] \in Nat
           /\ key[1] \in Files
<1>1. key \in Files \X Nat
  BY DEF TreeOK
<1>2. PICK a \in Files, b \in Nat : key = <<a, b>>
  BY <1>1
<1>3. key[1] = a /\ key[2] = b
  BY <1>2
<1>4. a \in Nat
  BY Geometry
<1> QED BY <1>2, <1>3, <1>4

(* A seek starts at the greatest saved position in front of where it goes. *)
LEMMA LessThenIs ==
    ASSUME TreeOK, NEW f \in Files, Exists(f), NEW p \in Nat, p > 0
    PROVE  \E q \in Nat : /\ <<f, q>> \in DOMAIN tree /\ q < p
                          /\ {key \in LessThen(f, p) : key[1] = f} = {<<f, q>>}
<1> DEFINE S == {q \in Nat : <<f, q>> \in DOMAIN tree /\ q < p}
<1>1. PICK q \in S : \A x \in S : x <= q
  <2>1. 0 \in S
    BY DEF Exists, Beginning
  <2>2. S \in SUBSET Int /\ \A n \in S : n <= p
    OBVIOUS
  <2>3. S # {} /\ p \in Int
    BY <2>1
  <2> HIDE DEF S
  <2> QED BY <2>2, <2>3, GreatestInteger
<1>2. f \in Nat /\ q \in Nat /\ <<f, q>> \in DOMAIN tree /\ q < p
  BY <1>1, Geometry
<1>3. <<f, q>> \in LessThen(f, p)
  <2> DEFINE k == <<f, q>>
  <2>0. k[1] = f /\ k[2] = q /\ k \in DOMAIN tree
    BY <1>2
  <2>1. Below(k, f, p)
    BY <1>2 DEF Below
  <2>2. ASSUME NEW o \in DOMAIN tree, Below(o, f, p)
        PROVE  o = k \/ Below(o, k[1], k[2])
    <3>1. o = <<o[1], o[2]>> /\ o[1] \in Nat /\ o[2] \in Nat
      BY KeysAre
    <3>2. CASE o[1] < f
      BY <2>0, <3>2 DEF Below
    <3>3. CASE o[1] = f /\ o[2] < p
      <4>1. o[2] \in S
        BY <3>1, <3>3
      <4>2. o[2] <= q
        BY <1>1, <4>1
      <4>3. o[2] = q \/ o[2] < q
        BY <1>2, <3>1, <4>2
      <4> QED BY <2>0, <3>1, <3>3, <4>3 DEF Below
    <3> QED BY <2>2, <3>2, <3>3 DEF Below
  <2> HIDE DEF k
  <2>3. k \in LessThen(f, p)
    BY <2>0, <2>1, <2>2 DEF LessThen
  <2> QED BY <2>3 DEF k
<1>4. ASSUME NEW key \in LessThen(f, p), key[1] = f PROVE key = <<f, q>>
  <2>1. /\ key \in DOMAIN tree /\ Below(key, f, p)
        /\ Below(<<f, q>>, f, p) => <<f, q>> = key \/ Below(<<f, q>>, key[1], key[2])
    BY <1>2 DEF LessThen
  <2>2. key = <<key[1], key[2]>> /\ key[2] \in Nat
    BY <2>1, KeysAre
  <2>3. key[2] < p
    BY <1>2, <1>4, <2>1 DEF Below
  <2>4. key[2] \in S
    BY <1>4, <2>1, <2>2, <2>3
  <2>5. key[2] <= q
    BY <1>1, <2>4
  <2>6. Below(<<f, q>>, f, p)
    BY <1>2 DEF Below
  <2>7. CASE <<f, q>> = key
    BY <2>7
  <2>8. CASE Below(<<f, q>>, f, key[2])
    <3>1. q < key[2]
      BY <1>2, <2>8 DEF Below
    <3> QED BY <1>2, <2>2, <2>5, <3>1
  <2> QED BY <1>4, <2>1, <2>6, <2>7, <2>8
<1>5. {key \in LessThen(f, p) : key[1] = f} = {<<f, q>>}
  BY <1>2, <1>3, <1>4
<1> QED BY <1>2, <1>5

LEMMA SoughtIs ==
    ASSUME TreeOK, NEW f \in Files, Exists(f), NEW p \in Nat, p > 0
    PROVE  \E q \in Nat : /\ <<f, q>> \in DOMAIN tree /\ q < p
                          /\ Sought(f, p) = {Reached(<<f, q>>, Walk(tree[<<f, q>>].block, p - q))}
<1>1. PICK q \in Nat : /\ <<f, q>> \in DOMAIN tree /\ q < p
                       /\ {key \in LessThen(f, p) : key[1] = f} = {<<f, q>>}
  BY LessThenIs
<1> DEFINE key == <<f, q>>
<1>2. Sought(f, p) = {Reached(key, Walk(tree[key].block, p - key[2]))}
  <2> HIDE DEF key
  <2>1. {x \in LessThen(f, p) : x[1] = f} = {key}
    BY <1>1 DEF key
  <2> QED BY <2>1 DEF Sought
<1>3. key[2] = q
  OBVIOUS
<1> QED BY <1>1, <1>2, <1>3

(* Nothing is found of a file that does not exist. *)
LEMMA NothingIsSought ==
    ASSUME TreeOK, NEW f \in Files, NEW p, \A q \in Nat : <<f, q>> \notin DOMAIN tree
    PROVE  Sought(f, p) = {}
<1>1. ASSUME NEW key \in LessThen(f, p) PROVE key[1] # f
  <2>1. key \in DOMAIN tree
    BY DEF LessThen
  <2>2. key = <<key[1], key[2]>> /\ key[2] \in Nat
    BY <2>1, KeysAre
  <2> QED BY <2>1, <2>2
<1> QED BY <1>1 DEF Sought

IsSavedFile(f, k, path, base, m) ==
    /\ TreeOK /\ f \in Files /\ Exists(f)
    /\ IsFileOn(disk, k, path, base, m)
    /\ IsSaved(tree, f, k, path, base)

LEMMA SavedIs ==
    ASSUME NEW f, NEW k, NEW path, NEW base, NEW m, IsSavedFile(f, k, path, base, m),
           NEW q \in Nat, <<f, q>> \in DOMAIN tree
    PROVE  \E i \in 0..k : q = base[i] /\ tree[<<f, q>>].block = path[i]
<1>1. PICK i \in 0..k : q = base[i] /\ tree[<<f, q>>] = At(path[i], 1)
  BY DEF IsSavedFile, IsSaved
<1> QED BY <1>1 DEF At

LEMMA EndIsSought ==
    ASSUME NEW f, NEW k, NEW path, NEW base, NEW m, IsSavedFile(f, k, path, base, m),
           m < TailSector - 1, Length(disk, k, path, base, m) < MaxPosition
    PROVE  \E s : /\ Sought(f, MaxPosition) = {s}
                  /\ s.at = At(path[k], m + 1) /\ s.blocks \in Nat
                  /\ s.position = Length(disk, k, path, base, m)
<1> DEFINE length == Length(disk, k, path, base, m)
<1>1. /\ IsFileOn(disk, k, path, base, m) /\ f \in Files /\ TreeOK /\ Exists(f)
      /\ MaxPosition \in Nat /\ length \in Nat /\ MaxPosition > 0
  BY Geometry, LengthIsNumber DEF IsSavedFile
<1>2. PICK q \in Nat :
          /\ <<f, q>> \in DOMAIN tree /\ q < MaxPosition
          /\ Sought(f, MaxPosition)
                 = {Reached(<<f, q>>, Walk(tree[<<f, q>>].block, MaxPosition - q))}
  BY <1>1, SoughtIs
<1>3. PICK j \in 0..k : q = base[j] /\ tree[<<f, q>>].block = path[j]
  BY <1>2, SavedIs
<1> DEFINE w == Walk(path[j], MaxPosition - base[j])
<1>4. w = [at |-> At(path[k], m + 1), blocks |-> k - j, bytes |-> length - base[j]]
  BY <1>1, WalkToEnd
<1>5. k \in Nat /\ k - j \in Nat /\ q + (length - base[j]) = length
  BY <1>1, <1>3, BlocksOfChain
<1>6. Reached(<<f, q>>, w) = [at |-> At(path[k], m + 1), blocks |-> k - j, position |-> length]
  <2> HIDE DEF w, length
  <2> QED BY <1>4, <1>5 DEF Reached
<1> QED BY <1>2, <1>3, <1>5, <1>6

IsFound(s, i, p, k, path, base) ==
    /\ s.position = p
    /\ s.at \in Address
    /\ s.at.block = path[i] /\ s.at.sector \in 1..TailSector - 1
    /\ s.at.into \in Nat /\ s.at.into > 0
    /\ disk[path[i]][s.at.sector].data # <<>>
    /\ i < k => p <= base[i + 1]
    /\ i = k \/ p <= Ends(disk[path[i]], base[i], TailSector - 1)
           => disk[path[i]][s.at.sector].data[1] + s.at.into = p

LEMMA InsideIsSought ==
    ASSUME NEW f, NEW k, NEW path, NEW base, NEW m, IsSavedFile(f, k, path, base, m),
           NEW p \in Nat, p > 0, p <= Length(disk, k, path, base, m)
    PROVE  \E s : Sought(f, p) = {s} /\ \E i \in 0..k : IsFound(s, i, p, k, path, base)
<1> DEFINE length == Length(disk, k, path, base, m)
<1>1. IsFileOn(disk, k, path, base, m) /\ f \in Files /\ TreeOK /\ Exists(f)
  BY DEF IsSavedFile
<1>2. PICK q \in Nat :
          /\ <<f, q>> \in DOMAIN tree /\ q < p
          /\ Sought(f, p) = {Reached(<<f, q>>, Walk(tree[<<f, q>>].block, p - q))}
  BY <1>1, SoughtIs
<1>3. PICK j \in 0..k : q = base[j] /\ tree[<<f, q>>].block = path[j]
  BY <1>2, SavedIs
<1>4. k \in Nat /\ base \in [0..k -> Nat] /\ base[j] < p
  BY <1>1, <1>2, <1>3 DEF IsFileOn
<1>5. PICK i \in 0..k : j <= i /\ base[i] < p /\ (i < k => p <= base[i + 1])
  BY <1>4, BlockBefore
<1> DEFINE w == Walk(path[j], p - base[j])
           s == Reached(<<f, q>>, w)
<1>6. IF i < k THEN p <= base[i + 1] ELSE p <= length
  BY <1>5
<1>7. /\ IsInside(w, path[i], p, base[j])
      /\ i = k \/ p <= Ends(disk[path[i]], base[i], TailSector - 1)
             => disk[path[i]][w.at.sector].data[1] + w.at.into = p
  BY <1>1, <1>5, <1>6, WalkInside
<1> HIDE DEF w
<1>8. s.at = w.at /\ s.position = q + w.bytes
  BY DEF Reached
<1>9. s.position = p
  <2>1. base[j] \in Nat /\ w.bytes = p - base[j]
    BY <1>4, <1>7 DEF IsInside
  <2> HIDE DEF s
  <2> QED BY <1>3, <1>8, <2>1
<1>10. Sought(f, p) = {s}
  BY <1>2, <1>3 DEF w
<1> HIDE DEF s
<1>11. /\ s.at \in Address /\ s.at.block = path[i] /\ s.at.sector \in 1..TailSector - 1
       /\ s.at.into \in Nat /\ s.at.into > 0
       /\ disk[path[i]][s.at.sector].data # <<>>
  BY <1>7, <1>8 DEF IsInside
<1>12. IsFound(s, i, p, k, path, base)
  BY <1>5, <1>7, <1>8, <1>9, <1>11 DEF IsFound
<1> QED BY <1>10, <1>12

-----------------------------------------------------------------------------
(* What the invariant says of a file, and the properties that follow. *)

IsFile(f, owner, k, path, base, m) ==
    /\ IsSavedFile(f, k, path, base, m)
    /\ FileIs(f, owner, k, path, base, m)

LEMMA FileIsThere ==
    ASSUME TypeOK, NEW owner, FilesAre(owner), NEW f \in Files, Exists(f)
    PROVE  \E k \in Nat, m \in 0..TailSector - 1 :
           \E path \in [0..k -> Blocks], base \in [0..k -> Nat] :
               IsFile(f, owner, k, path, base, m)
<1>1. PICK k \in Nat, m \in 0..TailSector - 1 :
           \E path \in [0..k -> Blocks], base \in [0..k -> Nat] :
               FileIs(f, owner, k, path, base, m)
  BY DEF FilesAre, FileOK
<1>2. PICK path \in [0..k -> Blocks], base \in [0..k -> Nat] : FileIs(f, owner, k, path, base, m)
  BY <1>1
<1>3. k < NumBlocks
  <2>1. k < next /\ next \in Nat /\ next <= NumBlocks
    BY <1>2 DEF FileIs, IsStored, InOrder, TypeOK
  <2> QED BY <2>1, Geometry
<1>4. IsFileOn(disk, k, path, base, m)
  BY <1>2, <1>3 DEF IsFileOn, FileIs, IsStored, TypeOK
<1>5. TreeOK /\ IsSaved(tree, f, k, path, base)
  BY <1>2 DEF TreeOK, TypeOK, FileIs, IsStored
<1>6. IsFile(f, owner, k, path, base, m)
  BY <1>2, <1>4, <1>5 DEF IsFile, IsSavedFile
<1> QED BY <1>6

LEMMA BlocksOfFile ==
    ASSUME NEW f, NEW owner, NEW k, NEW path, NEW base, NEW m,
           IsFile(f, owner, k, path, base, m)
    PROVE  /\ \A b : b \in BlocksOf(f) <=> \E i \in 0..k : b = path[i]
           /\ LastBlock(tree[Beginning(f)].block) = path[k]
<1>1. tree[Beginning(f)].block = path[0]
  BY DEF IsFile, IsSavedFile, IsSaved, At
<1>2. IsFileOn(disk, k, path, base, m) /\ Exists(f)
  BY DEF IsFile, IsSavedFile
<1> QED BY <1>1, <1>2, LinksOfChain DEF BlocksOf, LastBlock

LEMMA EndIsInFront ==
    ASSUME NEW f, NEW owner, NEW k, NEW path, NEW base, NEW m,
           IsFile(f, owner, k, path, base, m), ~EndsAtTail(f)
    PROVE  m < TailSector - 1
<1>1. m \in 0..TailSector - 1 /\ IsFileOn(disk, k, path, base, m)
  BY DEF IsFile, IsSavedFile, IsFileOn
<1>2. disk[path[k]][TailSector - 1] = Unwritten
  BY BlocksOfFile DEF EndsAtTail
<1>3. ASSUME m = TailSector - 1 PROVE FALSE
  <2>1. TailSector - 1 \in 1..m
    BY <1>3, Geometry
  <2>2. IsRun(disk[path[k]][TailSector - 1].data, Ends(disk[path[k]], base[k], TailSector - 1 - 1))
    BY <1>1, <2>1, BlocksOfChain DEF WrittenTo
  <2> QED BY <1>2, <2>2 DEF IsRun, Unwritten
<1> QED BY <1>1, <1>3, Geometry

LEMMA LengthIsSmall ==
    ASSUME TypeOK, AllFlushed, NEW f \in Files
    PROVE  /\ flushed[f] \in Nat /\ written[f] \in Nat /\ flushed[f] <= written[f]
           /\ flushed[f] < MaxPosition /\ written[f] < MaxPosition
<1>1. written[f] \in 0..MaxBytes /\ flushed[f] \in Nat
  BY DEF TypeOK
<1>2. flushed[f] <= written[f]
  BY DEF AllFlushed
<1> QED BY <1>1, <1>2, Geometry

LEMMA InvFindsEnd == KeepsTo /\ FilesInv => SeekFindsEnd
<1> SUFFICES ASSUME KeepsTo, FilesInv, NEW f \in Files, Exists(f), ~EndsAtTail(f)
             PROVE  \E s \in Sought(f, MaxPosition) :
                        /\ s.position = flushed[f]
                        /\ s.at.into = 0 /\ Sector(s.at) = Unwritten
                        /\ s.at.block = LastBlock(tree[Beginning(f)].block)
  BY DEF SeekFindsEnd, Allowed, KeepsTo
<1>1. PICK owner \in [Blocks -> Nat] : FilesAre(owner)
  BY DEF FilesInv
<1>2. PICK k \in Nat, m \in 0..TailSector - 1 :
           \E path \in [0..k -> Blocks], base \in [0..k -> Nat] :
               IsFile(f, owner, k, path, base, m)
  BY <1>1, FileIsThere DEF FilesInv
<1>3. PICK path \in [0..k -> Blocks], base \in [0..k -> Nat] :
               IsFile(f, owner, k, path, base, m)
  BY <1>2
<1>4. m < TailSector - 1
  BY <1>3, EndIsInFront
<1>5. Length(disk, k, path, base, m) = flushed[f] /\ flushed[f] < MaxPosition
  BY <1>3, LengthIsSmall DEF FilesInv, IsFile, FileIs, IsStored
<1>6. PICK s : /\ Sought(f, MaxPosition) = {s} /\ s.at = At(path[k], m + 1)
               /\ s.position = Length(disk, k, path, base, m)
  BY <1>3, <1>4, <1>5, EndIsSought DEF IsFile
<1>7. Sector(s.at) = Unwritten
  <2>1. Part(disk[path[k]], base[k], m)
    BY <1>3, BlocksOfChain DEF IsFile, IsSavedFile
  <2>2. m + 1 \in m + 1..TailSector
    BY <1>2, Geometry
  <2>3. s.at.block = path[k] /\ s.at.sector = m + 1
    BY <1>6 DEF At
  <2> QED BY <2>1, <2>2, <2>3 DEF Part, Sector
<1>8. s.at.into = 0 /\ s.at.block = path[k]
  BY <1>6 DEF At
<1> QED BY <1>3, <1>5, <1>6, <1>7, <1>8, BlocksOfFile

LEMMA InvFindsByte == KeepsTo /\ FilesInv => SeekFindsByte
<1> SUFFICES ASSUME KeepsTo, FilesInv, NEW f \in Files, NEW p \in 1..flushed[f], Exists(f)
             PROVE  \E s \in Sought(f, p) :
                /\ s.position = p
                /\ s.at.block \in BlocksOf(f)
                /\ IsAddressOf(s.at, p) \/ BehindTail(s.at.block, p)
  BY DEF SeekFindsByte
<1>1. PICK owner \in [Blocks -> Nat] : FilesAre(owner)
  BY DEF FilesInv
<1>2. PICK k \in Nat, m \in 0..TailSector - 1 :
           \E path \in [0..k -> Blocks], base \in [0..k -> Nat] :
               IsFile(f, owner, k, path, base, m)
  BY <1>1, FileIsThere DEF FilesInv
<1>3. PICK path \in [0..k -> Blocks], base \in [0..k -> Nat] :
               IsFile(f, owner, k, path, base, m)
  BY <1>2
<1>4. flushed[f] \in Nat /\ Length(disk, k, path, base, m) = flushed[f]
  BY <1>3, LengthIsSmall DEF FilesInv, IsFile, FileIs, IsStored
<1>5. p \in Nat /\ p > 0 /\ p <= Length(disk, k, path, base, m)
  BY <1>4
<1>6. PICK s : Sought(f, p) = {s} /\ \E i \in 0..k : IsFound(s, i, p, k, path, base)
  BY <1>3, <1>5, InsideIsSought DEF IsFile
<1>7. PICK i \in 0..k : IsFound(s, i, p, k, path, base)
  BY <1>6
<1>8. path[i] \in BlocksOf(f)
  BY <1>3, BlocksOfFile
<1>9. \/ i = k \/ p <= Ends(disk[path[i]], base[i], TailSector - 1)
      \/ BehindTail(path[i], p)
  <2> SUFFICES ASSUME i # k, ~(p <= Ends(disk[path[i]], base[i], TailSector - 1))
               PROVE  BehindTail(path[i], p)
    OBVIOUS
  <2> DEFINE blk == disk[path[i]]
             data == blk[TailSector].data
             from == base[i]
             E(x) == Ends(blk, from, x)
  <2>1. i < k
    BY <1>2
  <2>2. /\ blk \in Block /\ from \in Nat /\ WrittenTo(blk, from, TailSector)
        /\ Full(blk, from, base[i + 1], path[i + 1]) /\ TailSector \in 0..TailSector
    BY <1>3, <2>1, BlocksOfChain DEF IsFile, IsSavedFile
  <2>3. TailSector \in 1..TailSector /\ TailSector - 1 \in 0..TailSector
    BY Geometry
  <2>4. /\ \A x \in 0..TailSector : E(x) \in Nat
        /\ \A x \in 1..TailSector : /\ Len(blk[x].data) \in Nat
                                    /\ blk[x].data[1] = E(x - 1)
                                    /\ E(x) = E(x - 1) + Len(blk[x].data)
    <3> HIDE DEF blk, from
    <3>1. \A x \in 0..TailSector : E(x) \in Nat
      BY <2>2, EndsAreNumbers
    <3>2. \A x \in 1..TailSector : blk[x].data[1] = E(x - 1)
      BY <2>2, EndsAreNumbers
    <3>3. \A x \in 1..TailSector : /\ Len(blk[x].data) \in Nat
                                    /\ E(x) = E(x - 1) + Len(blk[x].data)
      BY <2>2, EndsAreNumbers
    <3> QED BY <3>1, <3>2, <3>3
  <2>5. data # <<>> /\ data[1] = E(TailSector - 1) /\ E(TailSector) = data[1] + Len(data)
    <3>1. data # <<>>
      BY <2>2, <2>3 DEF WrittenTo, IsRun
    <3> QED BY <2>3, <2>4, <3>1
  <2>6. E(TailSector) = base[i + 1]
    BY <2>2 DEF Full
  <2>7. data[1] < p /\ p <= data[1] + Len(data)
    <3>1. E(TailSector - 1) \in Nat /\ ~(p <= E(TailSector - 1))
      BY <2>3, <2>4
    <3>2. p <= base[i + 1]
      BY <1>7, <2>1 DEF IsFound
    <3> HIDE DEF E, data
    <3> QED BY <1>5, <2>5, <2>6, <3>1, <3>2
  <2> QED BY <2>5, <2>7 DEF BehindTail
<1>10. Sector(s.at) = disk[path[i]][s.at.sector]
  BY <1>7 DEF Sector, IsFound
<1>11. s.position = p /\ s.at.block = path[i]
  BY <1>7 DEF IsFound
<1>12. IsAddressOf(s.at, p) \/ BehindTail(path[i], p)
  BY <1>7, <1>9, <1>10 DEF IsFound, IsAddressOf
<1> QED BY <1>6, <1>8, <1>11, <1>12

LEMMA InvKeepsApart == FilesInv => BlocksAreNotShared
<1> SUFFICES ASSUME FilesInv PROVE BlocksAreNotShared
  OBVIOUS
<1>1. PICK owner \in [Blocks -> Nat] : FilesAre(owner)
  BY DEF FilesInv
<1>2. ASSUME NEW f \in Files, NEW b \in BlocksOf(f)
      PROVE  owner[b] = f /\ b # next
  <2>1. Exists(f)
    BY DEF BlocksOf
  <2>2. PICK k \in Nat, m \in 0..TailSector - 1 :
           \E path \in [0..k -> Blocks], base \in [0..k -> Nat] :
               IsFile(f, owner, k, path, base, m)
    BY <1>1, <2>1, FileIsThere DEF FilesInv
  <2>3. PICK path \in [0..k -> Blocks], base \in [0..k -> Nat] :
               IsFile(f, owner, k, path, base, m)
    BY <2>2
  <2>4. PICK i \in 0..k : b = path[i]
    BY <2>3, BlocksOfFile
  <2>5. /\ \A x \in 0..k : owner[path[x]] = f
        /\ path[k] < next /\ \A x, y \in 0..k : x < y => path[x] < path[y]
    BY <2>3 DEF IsFile, FileIs, IsStored, InOrder
  <2>6. path[i] # next
    <3>0. i = k \/ i < k
      BY <2>2
    <3>1. path[i] \in Nat /\ path[k] \in Nat /\ k \in 0..k
      <4>1. k \in 0..k /\ path[i] \in Blocks /\ path[k] \in Blocks
        BY <2>2
      <4> QED BY <4>1, Geometry
    <3>2. path[i] <= path[k]
      BY <2>5, <3>0, <3>1
    <3>3. next \in Nat
      BY DEF FilesInv, TypeOK
    <3> QED BY <2>5, <3>1, <3>2, <3>3
  <2> QED BY <2>4, <2>5, <2>6
<1> QED BY <1>2 DEF BlocksAreNotShared

LEMMA InvKnowsLength == FilesInv => LengthIsSize
<1> SUFFICES ASSUME FilesInv, NEW h \in DOMAIN open
             PROVE  LET o == open[h]
                    IN  IF o.readonly THEN o.length = Unknown \/ o.length <= flushed[o.file]
                        ELSE o.length = written[o.file] /\ o.position = o.length
  BY DEF LengthIsSize
<1> DEFINE f == open[h].file
<1>1. PICK owner \in [Blocks -> Nat] : FilesAre(owner)
  BY DEF FilesInv
<1>2. f \in Files
  BY DEF FilesInv, TypeOK, Handled
<1>3. Exists(f)
  BY <1>1, <1>2 DEF FilesAre, FileOK, NotThere
<1>4. PICK k \in Nat, m \in 0..TailSector - 1 :
           \E path \in [0..k -> Blocks], base \in [0..k -> Nat] :
               IsFile(f, owner, k, path, base, m)
  BY <1>1, <1>2, <1>3, FileIsThere DEF FilesInv
<1>5. PICK path \in [0..k -> Blocks], base \in [0..k -> Nat] :
               IsFile(f, owner, k, path, base, m)
  BY <1>4
<1>6. /\ Serves(open[h], disk, k, path, base, m, written[f])
      /\ Length(disk, k, path, base, m) = flushed[f]
  BY <1>5 DEF IsFile, FileIs, IsStored
<1> QED BY <1>6 DEF Serves, Reading, Appending

-----------------------------------------------------------------------------
(* What a step leaves alone. *)

(* A chain, and the objects over it, depend on its blocks only. *)
SameBlocks(d, e, k, path) == \A i \in 0..k : d[path[i]] = e[path[i]]

LEMMA ChainDepends ==
    ASSUME NEW d, NEW e, NEW k \in Nat, NEW path, NEW base, NEW m,
           SameBlocks(d, e, k, path), IsChain(d, k, path, base, m)
    PROVE  /\ IsChain(e, k, path, base, m)
           /\ Length(e, k, path, base, m) = Length(d, k, path, base, m)
<1>1. d[path[k]] = e[path[k]]
  BY DEF SameBlocks
<1>2. \A i \in 0..k - 1 : d[path[i]] = e[path[i]]
  BY DEF SameBlocks
<1> QED BY <1>1, <1>2 DEF IsChain, Length

LEMMA ServesDepends ==
    ASSUME NEW d, NEW e, NEW k \in Nat, NEW path, NEW base, NEW m, NEW o, NEW size,
           SameBlocks(d, e, k, path), Serves(o, d, k, path, base, m, size)
    PROVE  Serves(o, e, k, path, base, m, size)
<1>1. Length(d, k, path, base, m) = Length(e, k, path, base, m)
  BY DEF SameBlocks, Length
<1>2. ASSUME NEW i \in 0..k, GoesOn(o, d, k, path, base, m, i)
      PROVE  GoesOn(o, e, k, path, base, m, i)
  <2>1. d[path[i]] = e[path[i]]
    BY DEF SameBlocks
  <2> QED BY <1>2, <2>1 DEF GoesOn
<1>3. CASE o.readonly
  BY <1>1, <1>2, <1>3 DEF Serves, Reading
<1>4. CASE ~o.readonly
  BY <1>1, <1>4 DEF Serves, Appending
<1> QED BY <1>3, <1>4

(* What the steps of one file f do to the others: d, t and nx are the       *)
(* device, the tree and the allocator after it.                             *)
LeavesOthers(f, d, t, nx, owner, owner2) ==
    /\ next <= nx
    /\ \A b \in Blocks : b < next /\ owner[b] # f => d[b] = disk[b] /\ owner2[b] = owner[b]
    /\ \A g \in Files, p \in Nat :
           g # f => /\ <<g, p>> \in DOMAIN t <=> <<g, p>> \in DOMAIN tree
                    /\ <<g, p>> \in DOMAIN tree => t[<<g, p>>] = tree[<<g, p>>]

(* The objects of a file g after a step are among those before it. *)
SameObjects(g) ==
    \A h \in DOMAIN open' : open'[h].file = g => h \in DOMAIN open /\ open'[h] = open[h]

LEMMA BlocksInUse ==
    ASSUME NEW nx \in Nat, NEW k \in Nat, NEW path \in [0..k -> Blocks], InOrder(nx, k, path)
    PROVE  \A i \in 0..k : path[i] < nx /\ path[i] # nx /\ (i # k => path[i] # path[k])
<1> SUFFICES ASSUME NEW i \in 0..k
             PROVE  path[i] < nx /\ path[i] # nx /\ (i # k => path[i] # path[k])
  OBVIOUS
<1>1. k \in 0..k /\ path[i] \in Blocks /\ path[k] \in Blocks
  OBVIOUS
<1>2. path[i] \in Nat /\ path[k] \in Nat
  BY <1>1, Geometry
<1>3. i = k \/ i < k
  OBVIOUS
<1>4. (i < k => path[i] < path[k]) /\ path[k] < nx
  BY <1>1 DEF InOrder
<1> QED BY <1>2, <1>3, <1>4

LEMMA OtherFile ==
    ASSUME TypeOK, NEW f, NEW g \in Files, g # f, NEW owner, NEW owner2,
           FileOK(g, owner), next' \in Nat,
           LeavesOthers(f, disk', tree', next', owner, owner2),
           SameObjects(g), written'[g] = written[g], flushed'[g] = flushed[g]
    PROVE  FileOK(g, owner2)'
<1>0. 0 \in Nat /\ next \in Nat
  BY DEF TypeOK
<1>1. Exists(g)' <=> Exists(g)
  BY <1>0 DEF Exists, Beginning, LeavesOthers
<1>2. CASE ~Exists(g)
  <2>1. NotThere(g)
    BY <1>2 DEF FileOK
  <2>2. NotThere(g)'
    BY <2>1 DEF NotThere, LeavesOthers, SameObjects
  <2> QED BY <1>1, <1>2, <2>2 DEF FileOK
<1>3. CASE Exists(g)
  <2>1. PICK k \in Nat, m \in 0..TailSector - 1 :
             \E path \in [0..k -> Blocks], base \in [0..k -> Nat] :
                 FileIs(g, owner, k, path, base, m)
    BY <1>3 DEF FileOK
  <2>2. PICK path \in [0..k -> Blocks], base \in [0..k -> Nat] :
                 FileIs(g, owner, k, path, base, m)
    BY <2>1
  <2>3. IsStored(g, disk, tree, next, owner, k, path, base, m, flushed[g])
    BY <2>2 DEF FileIs
  <2>4. \A i \in 0..k : path[i] < next
    BY <1>0, <2>3, BlocksInUse DEF IsStored
  <2>5. ASSUME NEW i \in 0..k
        PROVE  disk[path[i]] = disk'[path[i]] /\ owner2[path[i]] = g
    <3>1. path[i] \in Blocks /\ path[i] < next /\ owner[path[i]] = g
      BY <2>3, <2>4 DEF IsStored
    <3> QED BY <3>1 DEF LeavesOthers
  <2>6. SameBlocks(disk, disk', k, path)
    BY <2>5 DEF SameBlocks
  <2>7. IsChain(disk', k, path, base, m) /\ Length(disk', k, path, base, m) = flushed'[g]
    <3>1. IsChain(disk, k, path, base, m) /\ Length(disk, k, path, base, m) = flushed[g]
      BY <2>3 DEF IsStored
    <3>2. /\ IsChain(disk', k, path, base, m)
          /\ Length(disk', k, path, base, m) = Length(disk, k, path, base, m)
      BY <2>6, <3>1, ChainDepends
    <3> QED BY <3>1, <3>2
  <2>8. InOrder(next', k, path)
    <3>1. path[k] \in Nat /\ k \in 0..k
      BY Geometry
    <3>2. path[k] < next /\ k < next /\ next <= next'
      BY <2>3 DEF IsStored, InOrder, LeavesOthers
    <3>3. path[k] < next' /\ k < next'
      BY <1>0, <3>1, <3>2
    <3> QED BY <2>3, <3>3 DEF IsStored, InOrder
  <2>9. IsSaved(tree', g, k, path, base)
    <3>1. IsSaved(tree, g, k, path, base) /\ <<g, 0>> \in DOMAIN tree
      BY <1>3, <2>3 DEF IsStored, Exists, Beginning
    <3>2. tree'[<<g, 0>>] = tree[<<g, 0>>]
      BY <1>0, <3>1 DEF LeavesOthers
    <3>3. ASSUME NEW p \in Nat, <<g, p>> \in DOMAIN tree'
          PROVE  \E i \in 0..k : p = base[i] /\ tree'[<<g, p>>] = At(path[i], 1)
      <4>1. <<g, p>> \in DOMAIN tree /\ tree'[<<g, p>>] = tree[<<g, p>>]
        BY <3>3 DEF LeavesOthers
      <4> QED BY <3>1, <4>1 DEF IsSaved
    <3> QED BY <3>1, <3>2, <3>3 DEF IsSaved, Beginning
  <2>10. IsStored(g, disk', tree', next', owner2, k, path, base, m, flushed'[g])
    BY <2>5, <2>7, <2>8, <2>9 DEF IsStored
  <2>11. ASSUME NEW h \in DOMAIN open', open'[h].file = g
         PROVE  Serves(open'[h], disk', k, path, base, m, written'[g])
    <3>1. h \in DOMAIN open /\ open'[h] = open[h]
      BY <2>11 DEF SameObjects
    <3>2. Serves(open[h], disk, k, path, base, m, written[g])
      BY <2>2, <2>11, <3>1 DEF FileIs
    <3> QED BY <2>6, <3>1, <3>2, ServesDepends
  <2>12. FileIs(g, owner2, k, path, base, m)'
    BY <2>10, <2>11 DEF FileIs
  <2> QED BY <1>1, <1>3, <2>12 DEF FileOK
<1> QED BY <1>2, <1>3

-----------------------------------------------------------------------------
(* Steps that change one OpenFile object. *)

OpenedIs(h, o) ==
    open' = [x \in DOMAIN open \cup {h} |-> IF x = h THEN o ELSE open[x]]

(* A new object must not be a second writer; an old one stays what it was. *)
FitsIn(h, o) ==
    IF h \in DOMAIN open
    THEN o.file = open[h].file /\ o.readonly = open[h].readonly
    ELSE o.readonly \/ ~Writing(o.file)

LEMMA OpenedKeeps ==
    ASSUME TypeOK, OneWriter, NEW h \in Handles, NEW o \in Handled, OpenedIs(h, o), FitsIn(h, o)
    PROVE  /\ DOMAIN open' \subseteq Handles /\ open' \in [DOMAIN open' -> Handled]
           /\ OneWriter'
           /\ \A g : Writing(g) => Writing(g)'
           /\ \A g : g # o.file => SameObjects(g)
           /\ h \in DOMAIN open' /\ open'[h] = o
           /\ \A x \in DOMAIN open' : x # h => x \in DOMAIN open /\ open'[x] = open[x]
<1>1. /\ DOMAIN open' = DOMAIN open \cup {h} /\ h \in DOMAIN open' /\ open'[h] = o
      /\ \A x \in DOMAIN open' : x # h => x \in DOMAIN open /\ open'[x] = open[x]
      /\ \A x \in DOMAIN open : x \in DOMAIN open' /\ (x # h => open'[x] = open[x])
  BY DEF OpenedIs
<1>2. DOMAIN open' \subseteq Handles /\ open' \in [DOMAIN open' -> Handled]
  <2>1. DOMAIN open \subseteq Handles /\ open \in [DOMAIN open -> Handled]
    BY DEF TypeOK
  <2>2. DOMAIN open' \subseteq Handles
    BY <1>1, <2>1
  <2>3. \A x \in DOMAIN open' : open'[x] \in Handled
    BY <1>1, <2>1
  <2>4. open' = [x \in DOMAIN open' |-> open'[x]]
    BY DEF OpenedIs
  <2> QED BY <2>2, <2>3, <2>4
<1>3. OneWriter'
  <2> SUFFICES ASSUME NEW x \in DOMAIN open', NEW y \in DOMAIN open',
                      ~open'[x].readonly, ~open'[y].readonly, open'[x].file = open'[y].file,
                      x # y
               PROVE  FALSE
    BY DEF OneWriter
  <2>1. CASE x # h /\ y # h
    BY <1>1, <2>1 DEF OneWriter
  <2>2. ASSUME NEW z \in DOMAIN open', z # h, ~open'[z].readonly, ~o.readonly,
               open'[z].file = o.file
        PROVE  FALSE
    <3>1. z \in DOMAIN open /\ open'[z] = open[z]
      BY <1>1, <2>2
    <3>2. Writing(o.file)
      BY <2>2, <3>1 DEF Writing
    <3>3. CASE h \in DOMAIN open
      BY <2>2, <3>1, <3>3 DEF OneWriter, FitsIn
    <3> QED BY <2>2, <3>2, <3>3 DEF FitsIn
  <2> QED BY <1>1, <2>1, <2>2
<1>4. ASSUME NEW g, Writing(g) PROVE Writing(g)'
  <2>1. PICK x \in DOMAIN open : open[x].file = g /\ ~open[x].readonly
    BY <1>4 DEF Writing
  <2>2. x \in DOMAIN open' /\ open'[x].file = g /\ ~open'[x].readonly
    BY <1>1, <2>1 DEF FitsIn
  <2> QED BY <2>2 DEF Writing
<1>5. ASSUME NEW g, g # o.file PROVE SameObjects(g)
  BY <1>1, <1>5 DEF SameObjects
<1> QED BY <1>1, <1>2, <1>3, <1>4, <1>5

ServesFile(o, owner) ==
    \E k \in Nat, m \in 0..TailSector - 1 :
    \E path \in [0..k -> Blocks], base \in [0..k -> Nat] :
        /\ IsFile(o.file, owner, k, path, base, m)
        /\ Serves(o, disk, k, path, base, m, written[o.file])

FilesKept(owner) == TypeOK' /\ OneWriter' /\ AllFlushed' /\ FilesAre(owner)'

LEMMA HandleStep ==
    ASSUME TypeOK, OneWriter, AllFlushed, NEW owner, FilesAre(owner),
           NEW h \in Handles, NEW o \in Handled, OpenedIs(h, o), FitsIn(h, o), Exists(o.file),
           UNCHANGED <<disk, tree, next, saved, written, flushed>>,
           ServesFile(o, owner)
    PROVE  FilesKept(owner)
<1> DEFINE f == o.file
<1>0. f \in Files
  BY DEF Handled
<1>1. TypeOK'
  <2>1. DOMAIN open' \subseteq Handles /\ open' \in [DOMAIN open' -> Handled]
    BY OpenedKeeps
  <2> QED BY <2>1 DEF TypeOK
<1>2. OneWriter'
  BY OpenedKeeps
<1>3. AllFlushed'
  <2>1. \A g : Writing(g) => Writing(g)'
    BY OpenedKeeps
  <2> QED BY <2>1 DEF AllFlushed
<1>4. ASSUME NEW g \in Files, g # f PROVE FileOK(g, owner)'
  <2>1. FileOK(g, owner)
    BY DEF FilesAre
  <2>2. SameObjects(g)
    BY <1>4, OpenedKeeps
  <2>3. next \in Nat
    BY DEF TypeOK
  <2>4. LeavesOthers(f, disk', tree', next', owner, owner)
    BY <2>3 DEF LeavesOthers
  <2> QED BY <1>0, <1>4, <2>1, <2>2, <2>3, <2>4, OtherFile
<1>5. FileOK(f, owner)'
  <2>1. PICK k \in Nat, m \in 0..TailSector - 1 :
             \E path \in [0..k -> Blocks], base \in [0..k -> Nat] :
                 /\ IsFile(f, owner, k, path, base, m)
                 /\ Serves(o, disk, k, path, base, m, written[f])
    BY DEF ServesFile
  <2>2. PICK path \in [0..k -> Blocks], base \in [0..k -> Nat] :
                 /\ IsFile(f, owner, k, path, base, m)
                 /\ Serves(o, disk, k, path, base, m, written[f])
    BY <2>1
  <2>3. Serves(o, disk, k, path, base, m, written[f])
    BY <2>2
  <2>4. ASSUME NEW x \in DOMAIN open', open'[x].file = f
        PROVE  Serves(open'[x], disk, k, path, base, m, written[f])
    <3>1. x = h => open'[x] = o
      BY OpenedKeeps
    <3>2. x # h => x \in DOMAIN open /\ open'[x] = open[x]
      BY OpenedKeeps
    <3>3. \A y \in DOMAIN open : open[y].file = f
              => Serves(open[y], disk, k, path, base, m, written[f])
      BY <2>2 DEF IsFile, FileIs
    <3> QED BY <2>3, <2>4, <3>1, <3>2, <3>3
  <2>5. IsStored(f, disk, tree, next, owner, k, path, base, m, flushed[f])
    BY <2>2 DEF IsFile, FileIs
  <2> HIDE DEF f
  <2>6. FileIs(f, owner, k, path, base, m)'
    BY <2>4, <2>5 DEF FileIs
  <2>7. Exists(f)'
    BY DEF Exists, f
  <2> QED BY <2>6, <2>7 DEF FileOK
<1> QED BY <1>1, <1>2, <1>3, <1>4, <1>5 DEF FilesAre, FilesKept

LEMMA HandleHasFile ==
    ASSUME TypeOK, NEW owner, FilesAre(owner), NEW h \in DOMAIN open
    PROVE  /\ h \in Handles /\ open[h] \in Handled /\ open[h].file \in Files
           /\ Exists(open[h].file) /\ ServesFile(open[h], owner)
<1> DEFINE f == open[h].file
<1>1. h \in Handles /\ open[h] \in Handled
  BY DEF TypeOK
<1>2. f \in Files
  BY <1>1 DEF Handled
<1>3. Exists(f)
  BY <1>2 DEF FilesAre, FileOK, NotThere
<1>4. PICK k \in Nat, m \in 0..TailSector - 1 :
             \E path \in [0..k -> Blocks], base \in [0..k -> Nat] :
                 IsFile(f, owner, k, path, base, m)
  BY <1>2, <1>3, FileIsThere
<1>5. PICK path \in [0..k -> Blocks], base \in [0..k -> Nat] :
                 IsFile(f, owner, k, path, base, m)
  BY <1>4
<1>6. Serves(open[h], disk, k, path, base, m, written[f])
  BY <1>5 DEF IsFile, FileIs
<1>7. ServesFile(open[h], owner)
  BY <1>5, <1>6 DEF ServesFile
<1> QED BY <1>1, <1>2, <1>3, <1>7

(* A new object; all but its head is of the right type. *)
IsNew(o, f, readonly) ==
    /\ o = [file |-> o.file, readonly |-> o.readonly, head |-> o.head,
            inBlock |-> o.inBlock, length |-> o.length, position |-> o.position,
            since |-> o.since, buffer |-> o.buffer, available |-> o.available,
            buffpos |-> o.buffpos, ended |-> o.ended]
    /\ o.file = f /\ o.readonly = readonly
    /\ o.length = (IF readonly THEN Unknown ELSE 0)
    /\ o.length \in Nat /\ o.position = 0 /\ o.inBlock = 0 /\ o.since = 0
    /\ o.buffer = <<>> /\ o.available = 0 /\ o.buffpos = 0 /\ ~o.ended
    /\ o.readonly \in BOOLEAN /\ o.ended \in BOOLEAN /\ o.buffer \in Seq(Int)

LEMMA HandleIs ==
    ASSUME NEW f \in Files, NEW readonly \in BOOLEAN
    PROVE  IsNew(Handle(f, readonly), f, readonly)
BY Geometry DEF Handle, Unknown, IsNew

LEMMA NewIsHandled ==
    ASSUME NEW f \in Files, NEW readonly \in BOOLEAN, NEW o, IsNew(o, f, readonly),
           NEW a \in Address
    PROVE  [o EXCEPT !.head = a] \in Handled
<1>1. /\ o.file \in Files /\ o.readonly \in BOOLEAN /\ o.inBlock \in Int /\ o.length \in Nat
      /\ o.position \in Nat /\ o.since \in Nat /\ o.buffer \in Seq(Int)
      /\ o.available \in Nat /\ o.buffpos \in Nat /\ o.ended \in BOOLEAN
  BY DEF IsNew
<1>2. o = [file |-> o.file, readonly |-> o.readonly, head |-> o.head,
           inBlock |-> o.inBlock, length |-> o.length, position |-> o.position,
           since |-> o.since, buffer |-> o.buffer, available |-> o.available,
           buffpos |-> o.buffpos, ended |-> o.ended]
  BY DEF IsNew
<1> QED BY <1>1, <1>2 DEF Handled

(* A reader with nothing in its buffer. *)
IsIdle(o) == o.buffpos = o.available /\ o.available <= Len(o.buffer)

Onward(o, d, k, path, base, m) ==
    \E i \in 0..k : /\ o.head.block = path[i] /\ (i = k => o.head.sector <= m + 1)
                    /\ o.position = Ends(d[path[i]], base[i], o.head.sector - 1)

LEMMA IdleServes ==
    ASSUME NEW o \in Handled, o.readonly, IsIdle(o),
           NEW d, NEW k, NEW path, NEW base, NEW m, NEW size,
           ~o.ended /\ o.head.into = 0 => Onward(o, d, k, path, base, m),
           o.length = Unknown \/ o.length <= Length(d, k, path, base, m)
    PROVE  Serves(o, d, k, path, base, m, size)
<1>1. o.available \in Nat /\ o.buffpos \in Nat /\ o.position \in Nat
  BY DEF Handled
<1>2. o.position + (o.available - o.buffpos) = o.position /\ o.buffpos + 1..o.available = {}
  BY <1>1 DEF IsIdle
<1>3. ASSUME ~o.ended, o.head.into = 0
      PROVE  \E i \in 0..k : GoesOn(o, d, k, path, base, m, i)
  BY <1>2, <1>3 DEF Onward, GoesOn
<1>4. Reading(o, d, k, path, base, m)
  BY <1>1, <1>2, <1>3 DEF Reading, IsIdle, Buffered
<1> QED BY <1>4 DEF Serves

LEMMA BeginsAt ==
    ASSUME NEW f, NEW owner, NEW k, NEW path, NEW base, NEW m,
           IsFile(f, owner, k, path, base, m)
    PROVE  /\ tree[Beginning(f)] = At(path[0], 1) /\ At(path[0], 1) \in Address
           /\ \A o : o.head = At(path[0], 1) /\ o.position = 0
                         => Onward(o, disk, k, path, base, m)
<1>1. IsFileOn(disk, k, path, base, m) /\ tree[Beginning(f)] = At(path[0], 1)
  BY DEF IsFile, IsSavedFile, IsSaved
<1>2. base[0] = 0 /\ path[0] \in Blocks /\ 0 \in 0..k /\ m \in Nat /\ k \in Nat
  <2>1. base[0] = 0 /\ 0 \in 0..k /\ k \in Nat
    BY <1>1, BlocksOfChain
  <2>2. path \in [0..k -> Blocks] /\ m \in 0..TailSector - 1
    BY <1>1 DEF IsFileOn
  <2> QED BY <2>1, <2>2, Geometry
<1>3. At(path[0], 1) \in Address
  BY <1>2, Geometry DEF At, Address
<1>4. ASSUME NEW o, o.head = At(path[0], 1), o.position = 0
      PROVE  Onward(o, disk, k, path, base, m)
  <2>1. o.head.block = path[0] /\ o.head.sector = 1
    BY <1>4 DEF At
  <2>2. Ends(disk[path[0]], base[0], o.head.sector - 1) = 0 /\ o.head.sector <= m + 1
    BY <1>2, <2>1 DEF Ends
  <2> QED BY <1>2, <1>4, <2>1, <2>2 DEF Onward
<1> QED BY <1>1, <1>3, <1>4

LEMMA OwnersAre == FilesInv =>
    /\ TypeOK /\ OneWriter /\ AllFlushed
    /\ \E owner \in [Blocks -> Nat] : FilesAre(owner)
BY DEF FilesInv

LEMMA FilesInvAfter ==
    ASSUME NEW owner \in [Blocks -> Nat], FilesKept(owner), ReadsWhatWasWritten'
    PROVE  FilesInv'
BY DEF FilesKept, FilesInv

LEMMA NothingIsRead == result' = NoResult => ReadsWhatWasWritten'
BY DEF NoResult, ReadsWhatWasWritten

LEMMA OpenToReadKeeps ==
    ASSUME FilesInv, NEW h \in Handles, NEW f \in Files, OpenToRead(h, f)
    PROVE  FilesInv'
<1>1. PICK owner \in [Blocks -> Nat] : FilesAre(owner)
  BY OwnersAre
<1> DEFINE new == Handle(f, TRUE)
           o == [new EXCEPT !.head = tree[Beginning(f)]]
<1>2. /\ h \in Handles \ DOMAIN open /\ Exists(f) /\ result' = NoResult
      /\ open' = Put(open, h, o) /\ UNCHANGED <<disk, tree, next, saved, written, flushed>>
  BY DEF OpenToRead, BeginOpen
<1>3. PICK k \in Nat, m \in 0..TailSector - 1 :
             \E path \in [0..k -> Blocks], base \in [0..k -> Nat] :
                 IsFile(f, owner, k, path, base, m)
  BY <1>1, <1>2, FileIsThere, OwnersAre
<1>4. PICK path \in [0..k -> Blocks], base \in [0..k -> Nat] :
                 IsFile(f, owner, k, path, base, m)
  BY <1>3
<1>5. tree[Beginning(f)] = At(path[0], 1) /\ At(path[0], 1) \in Address
  BY <1>4, BeginsAt
<1>6. IsNew(new, f, TRUE)
  <2>1. TRUE \in BOOLEAN
    OBVIOUS
  <2> QED BY <2>1, HandleIs
<1> HIDE DEF new
<1>7. o \in Handled
  <2>1. TRUE \in BOOLEAN
    OBVIOUS
  <2> QED BY <1>5, <1>6, <2>1, NewIsHandled
<1>8. /\ o.file = f /\ o.readonly /\ IsIdle(o) /\ o.length = Unknown
      /\ o.head = At(path[0], 1) /\ o.position = 0
  BY <1>5, <1>6 DEF IsIdle, IsNew
<1> HIDE DEF o
<1>9. Serves(o, disk, k, path, base, m, written[f])
  BY <1>4, <1>7, <1>8, BeginsAt, IdleServes
<1>10. ServesFile(o, owner)
  BY <1>4, <1>8, <1>9 DEF ServesFile
<1>11. OpenedIs(h, o)
  BY <1>2 DEF OpenedIs, Put
<1>12. FitsIn(h, o)
  BY <1>2, <1>8 DEF FitsIn
<1>13. FilesKept(owner)
  BY <1>1, <1>2, <1>7, <1>8, <1>10, <1>11, <1>12, HandleStep, OwnersAre
<1> QED BY <1>2, <1>13, FilesInvAfter, NothingIsRead

LEMMA Replaced ==
    ASSUME NEW h \in DOMAIN open, NEW o, open' = [open EXCEPT ![h] = o],
           o.file = open[h].file, o.readonly = open[h].readonly
    PROVE  OpenedIs(h, o) /\ FitsIn(h, o)
<1>1. DOMAIN open \cup {h} = DOMAIN open
  OBVIOUS
<1> QED BY <1>1 DEF OpenedIs, FitsIn

(* An object that reads, before a step and with nothing in its buffer. *)
LEMMA IdleReader ==
    ASSUME NEW o \in Handled, o.readonly, ~Buffered(o),
           NEW d, NEW k, NEW path, NEW base, NEW m, NEW size,
           Serves(o, d, k, path, base, m, size)
    PROVE  IsIdle(o) /\ (o.length = Unknown \/ o.length <= Length(d, k, path, base, m))
BY DEF Serves, Reading, IsIdle, Buffered, Handled

LEMMA SeekBeginningKeeps ==
    ASSUME KeepsTo, FilesInv, NEW h, SeekBeginning(h)
    PROVE  FilesInv'
<1>1. PICK owner \in [Blocks -> Nat] : FilesAre(owner)
  BY OwnersAre
<1> DEFINE o == open[h]
           f == o.file
           new == [o EXCEPT !.head = tree[Beginning(f)], !.position = 0, !.ended = FALSE]
<1>2. /\ h \in DOMAIN open /\ o.readonly /\ ~Buffered(o) /\ result' = NoResult
      /\ open' = [open EXCEPT ![h] = new]
      /\ UNCHANGED <<disk, tree, next, saved, written, flushed>>
  BY DEF SeekBeginning, KeepsTo, Allowed
<1>3. h \in Handles /\ o \in Handled /\ Exists(f) /\ ServesFile(o, owner)
  BY <1>1, <1>2, HandleHasFile, OwnersAre
<1>4. PICK k \in Nat, m \in 0..TailSector - 1 :
             \E path \in [0..k -> Blocks], base \in [0..k -> Nat] :
                 /\ IsFile(f, owner, k, path, base, m)
                 /\ Serves(o, disk, k, path, base, m, written[f])
  BY <1>3 DEF ServesFile
<1>5. PICK path \in [0..k -> Blocks], base \in [0..k -> Nat] :
                 /\ IsFile(f, owner, k, path, base, m)
                 /\ Serves(o, disk, k, path, base, m, written[f])
  BY <1>4
<1>6. tree[Beginning(f)] = At(path[0], 1) /\ At(path[0], 1) \in Address
  BY <1>5, BeginsAt
<1>7. IsIdle(o) /\ (o.length = Unknown \/ o.length <= Length(disk, k, path, base, m))
  BY <1>2, <1>3, <1>5, IdleReader
<1>8. /\ new \in Handled /\ new.file = f /\ new.readonly = o.readonly
      /\ IsIdle(new) /\ new.length = o.length
      /\ new.head = At(path[0], 1) /\ new.position = 0
  <2> HIDE DEF o
  <2> QED BY <1>3, <1>6, <1>7 DEF Handled, IsIdle
<1>9. OpenedIs(h, new) /\ FitsIn(h, new)
  <2> HIDE DEF new
  <2> QED BY <1>2, <1>8, Replaced
<1> HIDE DEF new, o
<1>10. Serves(new, disk, k, path, base, m, written[f])
  BY <1>2, <1>5, <1>7, <1>8, BeginsAt, IdleServes
<1>11. ServesFile(new, owner)
  BY <1>5, <1>8, <1>10 DEF ServesFile
<1>12. FilesKept(owner)
  BY <1>1, <1>2, <1>3, <1>8, <1>9, <1>11, HandleStep, OwnersAre
<1> QED BY <1>2, <1>12, FilesInvAfter, NothingIsRead

(* What is sought with MaxPosition: the end of what is on the device. *)
IsEndOf(s, f, k, path, base, m) ==
    /\ s.at = At(path[k], m + 1) /\ s.at \in Address /\ s.blocks \in Nat
    /\ s.position \in Nat /\ s.position = flushed[f]
    /\ Length(disk, k, path, base, m) = flushed[f]
    /\ \A o : o.head = s.at /\ o.position = s.position
                  => Onward(o, disk, k, path, base, m)

LEMMA SoughtEndIs ==
    ASSUME FilesInv, NEW f \in Files, NEW owner, NEW k, NEW path, NEW base, NEW m,
           IsFile(f, owner, k, path, base, m), ~EndsAtTail(f),
           NEW s \in Sought(f, MaxPosition)
    PROVE  IsEndOf(s, f, k, path, base, m)
<1>1. m < TailSector - 1
  BY EndIsInFront
<1>2. Length(disk, k, path, base, m) = flushed[f] /\ flushed[f] < MaxPosition /\ flushed[f] \in Nat
  BY LengthIsSmall DEF FilesInv, IsFile, FileIs, IsStored
<1>3. /\ s.at = At(path[k], m + 1) /\ s.blocks \in Nat
      /\ s.position = Length(disk, k, path, base, m)
  BY <1>1, <1>2, EndIsSought DEF IsFile
<1>4. k \in Nat /\ k \in 0..k /\ path[k] \in Blocks /\ m \in Nat /\ m + 1 \in Sectors
  <2>1. path \in [0..k -> Blocks] /\ k \in Nat /\ m \in 0..TailSector - 1
    BY DEF IsFile, IsSavedFile, IsFileOn
  <2> QED BY <2>1, Geometry
<1>5. s.at \in Address
  BY <1>3, <1>4 DEF At, Address
<1>6. ASSUME NEW o, o.head = s.at, o.position = s.position
      PROVE  Onward(o, disk, k, path, base, m)
  <2>1. o.head.block = path[k] /\ o.head.sector = m + 1
    BY <1>3, <1>6 DEF At
  <2>2. Ends(disk[path[k]], base[k], o.head.sector - 1) = Length(disk, k, path, base, m)
    <3>1. o.head.sector - 1 = m
      BY <1>4, <2>1
    <3> QED BY <3>1 DEF Length
  <2>3. o.head.sector <= m + 1
    BY <1>4, <2>1
  <2> QED BY <1>3, <1>4, <1>6, <2>1, <2>2, <2>3 DEF Onward
<1> QED BY <1>2, <1>3, <1>5, <1>6 DEF IsEndOf

LEMMA AfterSeekIs ==
    ASSUME NEW o \in Handled, ~Buffered(o), NEW s, s.at \in Address, s.position \in Nat
    PROVE  LET new == AfterSeek(o, s)
           IN  /\ new \in Handled /\ IsIdle(new)
               /\ new.file = o.file /\ new.readonly = o.readonly /\ new.length = o.length
               /\ new.head = s.at /\ new.position = s.position /\ ~new.ended
<1> DEFINE data == Sector(s.at).data \o [i \in 1..SectorData |-> NoBlock]
           x == [o EXCEPT !.head = s.at, !.position = s.position, !.ended = FALSE,
                          !.buffer = data]
           new == [x EXCEPT !.buffer = <<>>, !.available = 0, !.buffpos = 0]
<1>1. AfterSeek(o, s) = new
  <2>1. ~Buffered(x)
    BY DEF Buffered, Handled
  <2> QED BY <2>1 DEF AfterSeek, Drained
<1> HIDE DEF data
<1>2. new \in Handled
  <2> DEFINE y == [o EXCEPT !.head = s.at, !.position = s.position, !.ended = FALSE]
  <2>1. y \in Handled
    BY DEF Handled
  <2>2. x = [y EXCEPT !.buffer = data]
    OBVIOUS
  <2> HIDE DEF y, x
  <2>3. /\ x = [file |-> y.file, readonly |-> y.readonly, head |-> y.head,
                inBlock |-> y.inBlock, length |-> y.length, position |-> y.position,
                since |-> y.since, buffer |-> data, available |-> y.available,
                buffpos |-> y.buffpos, ended |-> y.ended]
    BY <2>1, <2>2 DEF Handled
  <2>4. <<>> \in Seq(Int)
    OBVIOUS
  <2> QED BY <2>1, <2>3, <2>4 DEF Handled
<1>3. /\ IsIdle(new)
      /\ new.file = o.file /\ new.readonly = o.readonly /\ new.length = o.length
      /\ new.head = s.at /\ new.position = s.position /\ ~new.ended
  BY DEF Handled, IsIdle
<1> QED BY <1>1, <1>2, <1>3

LEMMA SoughtInsideIs ==
    ASSUME FilesInv, NEW f \in Files, NEW owner, NEW k, NEW path, NEW base, NEW m,
           IsFile(f, owner, k, path, base, m),
           NEW p \in 1..flushed[f], NEW s \in Sought(f, p)
    PROVE  s.at \in Address /\ s.position = p /\ p \in Nat /\ s.at.into # 0
<1>1. Length(disk, k, path, base, m) = flushed[f] /\ flushed[f] \in Nat
  BY LengthIsSmall DEF FilesInv, IsFile, FileIs, IsStored
<1>2. p \in Nat /\ p > 0 /\ p <= Length(disk, k, path, base, m)
  BY <1>1
<1>3. PICK x : Sought(f, p) = {x} /\ \E i \in 0..k : IsFound(x, i, p, k, path, base)
  BY <1>2, InsideIsSought DEF IsFile
<1>4. s.at \in Address /\ s.position = p /\ s.at.into \in Nat /\ s.at.into > 0
  BY <1>3 DEF IsFound
<1> QED BY <1>2, <1>4

LEMMA SeekEndKeeps ==
    ASSUME KeepsTo, FilesInv, NEW h, SeekEnd(h)
    PROVE  FilesInv'
<1>1. PICK owner \in [Blocks -> Nat] : FilesAre(owner)
  BY OwnersAre
<1> DEFINE o == open[h]
           f == o.file
<1>2. /\ h \in DOMAIN open /\ o.readonly /\ ~Buffered(o) /\ ~EndsAtTail(f) /\ result' = NoResult
      /\ UNCHANGED <<disk, tree, next, saved, written, flushed>>
  BY DEF SeekEnd, KeepsTo, Allowed
<1>3. PICK s \in Sought(f, MaxPosition) :
          open' = [open EXCEPT ![h] = [AfterSeek(o, s) EXCEPT !.length = s.position]]
  BY DEF SeekEnd
<1> DEFINE after == AfterSeek(o, s)
           new == [after EXCEPT !.length = s.position]
<1>4. h \in Handles /\ o \in Handled /\ f \in Files /\ Exists(f) /\ ServesFile(o, owner)
  BY <1>1, <1>2, HandleHasFile, OwnersAre
<1>5. PICK k \in Nat, m \in 0..TailSector - 1 :
             \E path \in [0..k -> Blocks], base \in [0..k -> Nat] :
                 IsFile(f, owner, k, path, base, m)
  BY <1>4 DEF ServesFile
<1>6. PICK path \in [0..k -> Blocks], base \in [0..k -> Nat] :
                 IsFile(f, owner, k, path, base, m)
  BY <1>5
<1>7. open' = [open EXCEPT ![h] = new]
  BY <1>3
<1> HIDE DEF o
<1>8. /\ s.at \in Address /\ s.position \in Nat
      /\ s.position = Length(disk, k, path, base, m)
      /\ \A x : x.head = s.at /\ x.position = s.position => Onward(x, disk, k, path, base, m)
  <2>1. IsEndOf(s, f, k, path, base, m)
    BY <1>2, <1>4, <1>6, SoughtEndIs
  <2>2. /\ s.at \in Address /\ s.position \in Nat
        /\ s.position = Length(disk, k, path, base, m)
    BY <2>1 DEF IsEndOf
  <2>3. \A x : x.head = s.at /\ x.position = s.position => Onward(x, disk, k, path, base, m)
    BY <2>1, Zenon DEF IsEndOf
  <2> QED BY <2>2, <2>3
<1>9. /\ after \in Handled /\ IsIdle(after) /\ after.file = f /\ after.readonly = o.readonly
      /\ after.head = s.at /\ after.position = s.position
  BY <1>2, <1>4, <1>8, AfterSeekIs
<1> HIDE DEF after
<1>10. /\ new \in Handled /\ new.file = f /\ new.readonly = o.readonly /\ IsIdle(new)
       /\ new.head = s.at /\ new.position = s.position /\ new.length = s.position
  BY <1>8, <1>9 DEF Handled, IsIdle
<1> HIDE DEF new
<1>11. OpenedIs(h, new) /\ FitsIn(h, new)
  BY <1>2, <1>7, <1>10, Replaced DEF o
<1>12. new.length <= Length(disk, k, path, base, m)
  BY <1>8, <1>10
<1>13. Serves(new, disk, k, path, base, m, written[f])
  BY <1>2, <1>8, <1>10, <1>12, IdleServes
<1>14. ServesFile(new, owner)
  BY <1>6, <1>10, <1>13 DEF ServesFile
<1>15. FilesKept(owner)
  BY <1>1, <1>2, <1>4, <1>10, <1>11, <1>14, HandleStep, OwnersAre
<1> QED BY <1>2, <1>15, FilesInvAfter, NothingIsRead

LEMMA SeekToKeeps ==
    ASSUME KeepsTo, FilesInv, NEW h, NEW position, SeekTo(h, position)
    PROVE  FilesInv'
<1>1. PICK owner \in [Blocks -> Nat] : FilesAre(owner)
  BY OwnersAre
<1> DEFINE o == open[h]
           f == o.file
<1>2. /\ h \in DOMAIN open /\ o.readonly /\ ~Buffered(o) /\ position \in 1..flushed[f]
      /\ result' = NoResult
      /\ UNCHANGED <<disk, tree, next, saved, written, flushed>>
  BY DEF SeekTo, KeepsTo, Allowed
<1>3. PICK s \in Sought(f, position) : open' = [open EXCEPT ![h] = AfterSeek(o, s)]
  BY DEF SeekTo
<1> DEFINE new == AfterSeek(o, s)
<1>4. h \in Handles /\ o \in Handled /\ f \in Files /\ Exists(f) /\ ServesFile(o, owner)
  BY <1>1, <1>2, HandleHasFile, OwnersAre
<1>5. PICK k \in Nat, m \in 0..TailSector - 1 :
             \E path \in [0..k -> Blocks], base \in [0..k -> Nat] :
                 /\ IsFile(f, owner, k, path, base, m)
                 /\ Serves(o, disk, k, path, base, m, written[f])
  BY <1>4 DEF ServesFile
<1>6. PICK path \in [0..k -> Blocks], base \in [0..k -> Nat] :
                 /\ IsFile(f, owner, k, path, base, m)
                 /\ Serves(o, disk, k, path, base, m, written[f])
  BY <1>5
<1>7. open' = [open EXCEPT ![h] = new]
  BY <1>3
<1> HIDE DEF o
<1>8. s.at \in Address /\ s.position \in Nat /\ s.at.into # 0
  BY <1>2, <1>4, <1>6, SoughtInsideIs
<1>9. /\ new \in Handled /\ IsIdle(new) /\ new.file = f /\ new.readonly = o.readonly
      /\ new.head = s.at /\ new.length = o.length
  BY <1>2, <1>4, <1>8, AfterSeekIs
<1> HIDE DEF new
<1>10. o.length = Unknown \/ o.length <= Length(disk, k, path, base, m)
  BY <1>2, <1>4, <1>6, IdleReader
<1>11. OpenedIs(h, new) /\ FitsIn(h, new)
  BY <1>2, <1>7, <1>9, Replaced DEF o
<1>12. Serves(new, disk, k, path, base, m, written[f])
  BY <1>2, <1>8, <1>9, <1>10, IdleServes
<1>13. ServesFile(new, owner)
  BY <1>6, <1>9, <1>12 DEF ServesFile
<1>14. FilesKept(owner)
  BY <1>1, <1>2, <1>4, <1>9, <1>11, <1>13, HandleStep, OwnersAre
<1> QED BY <1>2, <1>14, FilesInvAfter, NothingIsRead

LEMMA SizeKeeps ==
    ASSUME KeepsTo, FilesInv, NEW h, Size(h)
    PROVE  FilesInv'
<1>1. PICK owner \in [Blocks -> Nat] : FilesAre(owner)
  BY OwnersAre
<1> DEFINE o == open[h]
           f == o.file
<1>2. /\ h \in DOMAIN open /\ o.readonly /\ ~Buffered(o) /\ ~EndsAtTail(f)
      /\ o.position = 0 /\ result' = NoResult
      /\ UNCHANGED <<disk, tree, next, saved, written, flushed>>
  BY DEF Size, KeepsTo, Allowed
<1>3. PICK s \in Sought(f, MaxPosition) :
          open' = [open EXCEPT ![h] = [[AfterSeek(o, s) EXCEPT !.length = s.position]
                                           EXCEPT !.head = tree[Beginning(f)], !.position = 0]]
  <2> DEFINE Back(s) == open' = [open EXCEPT ![h] =
                                    [[AfterSeek(o, s) EXCEPT !.length = s.position]
                                         EXCEPT !.head = tree[Beginning(f)], !.position = 0]]
             Sought2(s) == \E b \in Sought(f, o.position) :
                              open' = [open EXCEPT ![h] =
                                  AfterSeek([AfterSeek(o, s) EXCEPT !.length = s.position], b)]
  <2>1. PICK s \in Sought(f, MaxPosition) : IF o.position = 0 THEN Back(s) ELSE Sought2(s)
    BY Zenon DEF Size
  <2> HIDE DEF Back, Sought2
  <2>2. Back(s)
    BY <1>2, <2>1
  <2> QED BY <2>2, Zenon DEF Back
<1> DEFINE after == AfterSeek(o, s)
           new == [after EXCEPT !.length = s.position,
                                !.head = tree[Beginning(f)], !.position = 0]
<1>4. h \in Handles /\ o \in Handled /\ f \in Files /\ Exists(f) /\ ServesFile(o, owner)
  BY <1>1, <1>2, HandleHasFile, OwnersAre
<1>5. PICK k \in Nat, m \in 0..TailSector - 1 :
             \E path \in [0..k -> Blocks], base \in [0..k -> Nat] :
                 IsFile(f, owner, k, path, base, m)
  BY <1>4 DEF ServesFile
<1>6. PICK path \in [0..k -> Blocks], base \in [0..k -> Nat] :
                 IsFile(f, owner, k, path, base, m)
  BY <1>5
<1>7. open' = [open EXCEPT ![h] = new]
  BY <1>3
<1> HIDE DEF o
<1>8. s.at \in Address /\ s.position \in Nat /\ s.position = Length(disk, k, path, base, m)
  <2>1. IsEndOf(s, f, k, path, base, m)
    BY <1>2, <1>4, <1>6, SoughtEndIs
  <2> QED BY <2>1 DEF IsEndOf
<1>9. /\ after \in Handled /\ IsIdle(after) /\ after.file = f /\ after.readonly = o.readonly
  BY <1>2, <1>4, <1>8, AfterSeekIs
<1>10. tree[Beginning(f)] = At(path[0], 1) /\ At(path[0], 1) \in Address
  BY <1>6, BeginsAt
<1> HIDE DEF after
<1>11. /\ new \in Handled /\ new.file = f /\ new.readonly = o.readonly /\ IsIdle(new)
       /\ new.head = At(path[0], 1) /\ new.position = 0 /\ new.length = s.position
  BY <1>8, <1>9, <1>10 DEF Handled, IsIdle
<1> HIDE DEF new
<1>12. OpenedIs(h, new) /\ FitsIn(h, new)
  BY <1>2, <1>7, <1>11, Replaced DEF o
<1>13. new.length <= Length(disk, k, path, base, m)
  BY <1>8, <1>11
<1>14. Serves(new, disk, k, path, base, m, written[f])
  BY <1>2, <1>6, <1>11, <1>13, BeginsAt, IdleServes
<1>15. ServesFile(new, owner)
  BY <1>6, <1>11, <1>14 DEF ServesFile
<1>16. FilesKept(owner)
  BY <1>1, <1>2, <1>4, <1>11, <1>12, <1>15, HandleStep, OwnersAre
<1> QED BY <1>2, <1>16, FilesInvAfter, NothingIsRead

LEMMA OpenToAppendKeeps ==
    ASSUME KeepsTo, FilesInv, NEW h \in Handles, NEW f \in Files, OpenToAppend(h, f)
    PROVE  FilesInv'
<1>1. PICK owner \in [Blocks -> Nat] : FilesAre(owner)
  BY OwnersAre
<1> DEFINE fresh == Handle(f, FALSE)
           placed(s) == [fresh EXCEPT !.head = s.at]
           written_on(s) == [placed(s) EXCEPT !.since = s.blocks, !.position = s.position,
                                              !.length = s.position]
<1>2. /\ h \in Handles \ DOMAIN open /\ ~Writing(f) /\ result' = NoResult
      /\ Exists(f) => ~EndsAtTail(f)
      /\ UNCHANGED <<disk, tree, next, saved, written, flushed>>
  BY DEF OpenToAppend, BeginOpen, KeepsTo, Allowed
<1>3. PICK s \in Sought(f, MaxPosition) :
          s.at.sector = 1 /\ open' = Put(open, h, written_on(s))
  <2>1. "append" \notin Beyond
    BY DEF KeepsTo
  <2> QED BY <2>1, Zenon DEF OpenToAppend, Allowed
<1>4. TypeOK /\ TreeOK
  BY OwnersAre DEF TypeOK, TreeOK
<1>5. Exists(f)
  <2>1. ASSUME ~Exists(f) PROVE FALSE
    <3>1. \A q \in Nat : <<f, q>> \notin DOMAIN tree
      BY <1>1, <2>1 DEF FilesAre, FileOK, NotThere
    <3>2. Sought(f, MaxPosition) = {}
      BY <1>4, <3>1, NothingIsSought
    <3> QED BY <1>3, <3>2
  <2> QED BY <2>1
<1>6. PICK k \in Nat, m \in 0..TailSector - 1 :
             \E path \in [0..k -> Blocks], base \in [0..k -> Nat] :
                 IsFile(f, owner, k, path, base, m)
  BY <1>1, <1>4, <1>5, FileIsThere
<1>7. PICK path \in [0..k -> Blocks], base \in [0..k -> Nat] :
                 IsFile(f, owner, k, path, base, m)
  BY <1>6
<1>8. /\ s.at = At(path[k], m + 1) /\ s.at \in Address /\ s.blocks \in Nat
      /\ s.position \in Nat /\ s.position = flushed[f]
      /\ Length(disk, k, path, base, m) = flushed[f]
  <2>1. ~EndsAtTail(f)
    BY <1>2, <1>5
  <2> HIDE DEF fresh
  <2>2. IsEndOf(s, f, k, path, base, m)
    BY <1>3, <1>7, <2>1, SoughtEndIs
  <2> QED BY <2>2 DEF IsEndOf
<1>9. m = 0 /\ s.position = base[k] /\ base[k] \in Nat
  <2>1. m = 0
    BY <1>3, <1>8, Geometry DEF At
  <2>2. Length(disk, k, path, base, m) = base[k]
    BY <1>7, <2>1, LengthIsNumber DEF IsFile, IsSavedFile
  <2> QED BY <1>8, <2>1, <2>2
<1>10. written[f] = flushed[f]
  BY <1>2, OwnersAre DEF AllFlushed
<1>11. IsNew(fresh, f, FALSE)
  <2>1. FALSE \in BOOLEAN
    OBVIOUS
  <2> QED BY <2>1, HandleIs
<1> HIDE DEF fresh
<1> DEFINE at == placed(s)
           new == [at EXCEPT !.since = s.blocks, !.position = s.position, !.length = s.position]
<1>12. at \in Handled
  <2>1. FALSE \in BOOLEAN
    OBVIOUS
  <2> QED BY <1>8, <1>11, <2>1, NewIsHandled
<1>13. at.file = f /\ ~at.readonly /\ at.head = s.at /\ at.inBlock = 0 /\ at.buffer = <<>>
  BY <1>11 DEF IsNew
<1>14. open' = Put(open, h, new)
  BY <1>3
<1> HIDE DEF at
<1>15. new \in Handled
  BY <1>8, <1>12 DEF Handled
<1>16. /\ new.file = f /\ ~new.readonly /\ new.head = At(path[k], m + 1)
       /\ new.length = written[f] /\ new.position = written[f]
       /\ new.inBlock = 0 /\ new.buffer = <<>>
  BY <1>8, <1>10, <1>12, <1>13 DEF Handled
<1> HIDE DEF new
<1>17. Serves(new, disk, k, path, base, m, written[f])
  <2>1. written[f] = base[k] /\ Length(disk, k, path, base, m) = written[f]
    BY <1>8, <1>9, <1>10
  <2>2. Len(new.buffer) = 0 /\ 1..Len(new.buffer) = {}
    BY <1>16
  <2> QED BY <1>9, <1>16, <2>1, <2>2 DEF Serves, Appending
<1>18. ServesFile(new, owner)
  BY <1>7, <1>16, <1>17 DEF ServesFile
<1>19. OpenedIs(h, new)
  BY <1>14 DEF OpenedIs, Put
<1>20. FitsIn(h, new)
  BY <1>2, <1>16 DEF FitsIn
<1>21. FilesKept(owner)
  BY <1>1, <1>2, <1>5, <1>15, <1>16, <1>18, <1>19, <1>20, HandleStep, OwnersAre
<1> QED BY <1>2, <1>21, FilesInvAfter, NothingIsRead

-----------------------------------------------------------------------------
(* read(). *)

LEMMA LeastOfTwo ==
    ASSUME NEW a \in Nat, NEW b \in Nat
    PROVE  Least({a, b}) = IF a <= b THEN a ELSE b
<1>1. CASE a <= b
  BY <1>1 DEF Least
<1>2. CASE ~(a <= b)
  BY <1>2 DEF Least
<1> QED BY <1>1, <1>2

(* What read() makes of an object whose buffer it has filled or found full. *)
Take(o, n) == Least({n, o.available - o.buffpos})
Took(o, n, position) ==
    Drained([o EXCEPT !.buffpos = @ + Take(o, n), !.position = @ + Take(o, n),
                      !.ended  = o.available = 0,
                      !.length = IF o.available = 0 /\ @ = Unknown THEN position ELSE @])
Gets(o, n) == SubSeq(o.buffer, o.buffpos + 1, o.buffpos + Take(o, n))

LEMMA TakenIs ==
    ASSUME NEW o, NEW n,
           ~(~Buffered(o) /\ (o.head.into # 0 \/ BlankTail(o.head)))
    PROVE  LET f == IF Buffered(o) THEN o ELSE Fill(o)
           IN  Taken(o, n).o = Took(f, n, o.position) /\ Taken(o, n).bytes = Gets(f, n)
<1> DEFINE f == IF Buffered(o) THEN o ELSE Fill(o)
<1>1. Taken(o, n) = [o |-> Took(f, n, o.position), bytes |-> Gets(f, n)]
  BY DEF Taken, Took, Gets, Take
<1> HIDE DEF f
<1>2. Taken(o, n).o = Took(f, n, o.position) /\ Taken(o, n).bytes = Gets(f, n)
  BY <1>1
<1> QED BY <1>2 DEF f

LEMMA GetsBytes ==
    ASSUME NEW o \in Handled, NEW n \in Nat, n > 0,
           NEW d, NEW k, NEW path, NEW base, NEW m,
           Reading(o, d, k, path, base, m), Buffered(o)
    PROVE  /\ Take(o, n) \in Nat /\ Take(o, n) > 0 /\ o.buffpos + Take(o, n) <= o.available
           /\ Len(Gets(o, n)) = Take(o, n) /\ Gets(o, n) # <<>>
           /\ Gets(o, n) = [i \in 1..Len(Gets(o, n)) |-> o.position + i - 1]
<1> DEFINE p == o.buffpos
           t == Take(o, n)
           buffer == o.buffer
<1>1. /\ p \in Nat /\ o.available \in Nat /\ buffer \in Seq(Int) /\ o.position \in Nat
      /\ p < o.available /\ o.available <= Len(buffer)
  BY DEF Handled, Reading, Buffered
<1>2. t \in Nat /\ t > 0 /\ p + t <= o.available
  <2>1. o.available - p \in Nat /\ o.available - p > 0
    BY <1>1
  <2>2. t = IF n <= o.available - p THEN n ELSE o.available - p
    BY <2>1, LeastOfTwo DEF Take
  <2> HIDE DEF t, p
  <2> QED BY <1>1, <2>1, <2>2
<1>3. \A j \in p + 1..o.available : buffer[j] = o.position + (j - p) - 1
  BY DEF Reading
<1>4. Gets(o, n) = SubSeq(buffer, p + 1, p + t)
  BY DEF Gets
<1> HIDE DEF p, t, buffer
<1> DEFINE bytes == SubSeq(buffer, p + 1, p + t)
<1>5. Len(bytes) = t /\ bytes \in Seq(Int) /\ \A i \in 1..t : bytes[i] = buffer[p + i]
  <2>0. Len(buffer) \in Nat
    BY <1>1
  <2>1. p + 1 \in Int /\ p + t \in Int /\ \A i \in p + 1..p + t : buffer[i] \in Int
    <3>1. \A i \in p + 1..p + t : i \in 1..Len(buffer)
      BY <1>1, <1>2, <2>0
    <3> QED BY <1>1, <1>2, <3>1
  <2>2. \A i \in 1..t : (p + 1) + i - 1 = p + i
    BY <1>1, <1>2
  <2>3. /\ Len(bytes) = (IF p + 1 <= p + t THEN (p + t) - (p + 1) + 1 ELSE 0)
        /\ bytes \in Seq(Int)
        /\ \A i \in 1..(p + t) - (p + 1) + 1 : bytes[i] = buffer[(p + 1) + i - 1]
    BY <1>1, <1>2, <2>1, SubSeqProperties
  <2>4. (p + t) - (p + 1) + 1 = t /\ p + 1 <= p + t
    BY <1>1, <1>2
  <2> HIDE DEF bytes
  <2> QED BY <2>2, <2>3, <2>4
<1> HIDE DEF bytes
<1>6. bytes = [i \in 1..Len(bytes) |-> o.position + i - 1]
  <2>1. bytes = [i \in 1..Len(bytes) |-> bytes[i]]
    BY <1>5
  <2>2. ASSUME NEW i \in 1..Len(bytes) PROVE bytes[i] = o.position + i - 1
    <3>1. i \in 1..t /\ p + i \in p + 1..o.available /\ (p + i) - p = i
      BY <1>1, <1>2, <1>5
    <3>2. bytes[i] = buffer[p + i] /\ buffer[p + i] = o.position + ((p + i) - p) - 1
      BY <1>3, <1>5, <3>1
    <3> QED BY <3>1, <3>2
  <2> QED BY <2>1, <2>2
<1>7. bytes # <<>>
  BY <1>2, <1>5
<1> QED BY <1>2, <1>4, <1>5, <1>6, <1>7 DEF bytes, t, p

LEMMA DrainedIs ==
    ASSUME NEW o \in Handled
    PROVE  LET new == Drained(o)
           IN  /\ new \in Handled
               /\ new.file = o.file /\ new.readonly = o.readonly /\ new.head = o.head
               /\ new.position = o.position /\ new.length = o.length /\ new.ended = o.ended
               /\ IF Buffered(o) THEN new = o
                  ELSE new.available = 0 /\ new.buffpos = 0 /\ new.buffer = <<>>
<1>1. CASE Buffered(o)
  BY <1>1 DEF Drained
<1>2. CASE ~Buffered(o)
  <2> DEFINE new == [o EXCEPT !.buffer = <<>>, !.available = 0, !.buffpos = 0]
  <2>1. Drained(o) = new
    BY <1>2 DEF Drained
  <2>2. new \in Handled
    <3>1. <<>> \in Seq(Int)
      OBVIOUS
    <3> QED BY <3>1 DEF Handled
  <2>3. /\ new.file = o.file /\ new.readonly = o.readonly /\ new.head = o.head
        /\ new.position = o.position /\ new.length = o.length /\ new.ended = o.ended
        /\ new.available = 0 /\ new.buffpos = 0 /\ new.buffer = <<>>
    BY DEF Handled
  <2> HIDE DEF new
  <2> QED BY <1>2, <2>1, <2>2, <2>3
<1> QED BY <1>1, <1>2

(* An object that has something in its buffer reads on. *)
LEMMA TookSome ==
    ASSUME NEW o \in Handled, o.readonly, ~o.ended, o.head.into = 0, Buffered(o),
           NEW n \in Nat, n > 0, NEW position \in Nat,
           NEW d, NEW k, NEW path, NEW base, NEW m, Reading(o, d, k, path, base, m)
    PROVE  LET new == Took(o, n, position)
           IN  /\ new \in Handled /\ new.file = o.file /\ new.readonly = o.readonly
               /\ Reading(new, d, k, path, base, m)
<1> DEFINE t == Take(o, n)
           x == [o EXCEPT !.buffpos = @ + t, !.position = @ + t, !.ended = FALSE]
<1>1. t \in Nat /\ t > 0 /\ o.buffpos + t <= o.available
  BY GetsBytes
<1>2. /\ o.buffpos \in Nat /\ o.available \in Nat /\ o.position \in Nat
      /\ o.available > 0 /\ o.available # 0
  BY <1>1 DEF Handled
<1> HIDE DEF t
<1>3. /\ x \in Handled /\ x.file = o.file /\ x.readonly = o.readonly /\ x.head = o.head
      /\ x.length = o.length /\ x.buffer = o.buffer /\ x.available = o.available
      /\ x.buffpos = o.buffpos + t /\ x.position = o.position + t /\ ~x.ended
  <2>1. x \in Handled
    <3>1. o.buffpos + t \in Nat /\ o.position + t \in Nat
      BY <1>1, <1>2
    <3> QED BY <3>1 DEF Handled
  <2>2. /\ x.file = o.file /\ x.readonly = o.readonly /\ x.head = o.head
        /\ x.length = o.length /\ x.buffer = o.buffer /\ x.available = o.available
        /\ x.buffpos = o.buffpos + t /\ x.position = o.position + t /\ ~x.ended
    BY DEF Handled
  <2> QED BY <2>1, <2>2
<1>4. Took(o, n, position) = Drained(x)
  <2>1. [o EXCEPT !.buffpos = @ + t, !.position = @ + t, !.ended = o.available = 0,
                  !.length = IF o.available = 0 /\ @ = Unknown THEN position ELSE @]
            = [o EXCEPT !.buffpos = @ + t, !.position = @ + t, !.ended = FALSE,
                        !.length = @]
    BY <1>2
  <2>2. [o EXCEPT !.buffpos = @ + t, !.position = @ + t, !.ended = FALSE, !.length = @] = x
    BY DEF Handled
  <2> HIDE DEF x
  <2> QED BY <2>1, <2>2 DEF Took, t
<1> HIDE DEF x
<1> DEFINE new == Drained(x)
<1>5. /\ new \in Handled /\ new.file = o.file /\ new.readonly = o.readonly /\ new.head = o.head
      /\ new.position = o.position + t /\ new.length = o.length
      /\ IF Buffered(x) THEN new = x
         ELSE new.available = 0 /\ new.buffpos = 0 /\ new.buffer = <<>>
  BY <1>3, DrainedIs
<1> HIDE DEF new
<1>6. PICK i \in 0..k : GoesOn(o, d, k, path, base, m, i)
  BY DEF Reading
<1>7. new.position + (new.available - new.buffpos) = o.position + (o.available - o.buffpos)
  <2>1. CASE Buffered(x)
    BY <1>1, <1>2, <1>3, <1>5, <2>1
  <2>2. CASE ~Buffered(x)
    <3>1. o.available = o.buffpos + t
      BY <1>3, <2>2 DEF Buffered
    <3>2. new.position = o.position + t /\ new.available = 0 /\ new.buffpos = 0
      BY <1>5, <2>2
    <3> QED BY <1>1, <1>2, <3>1, <3>2
  <2> QED BY <2>1, <2>2
<1>8. GoesOn(new, d, k, path, base, m, i)
  BY <1>5, <1>6, <1>7 DEF GoesOn
<1>9. new.buffpos <= new.available /\ new.available <= Len(new.buffer)
  BY <1>1, <1>2, <1>3, <1>5 DEF Reading
<1>10. \A j \in new.buffpos + 1..new.available :
           new.buffer[j] = new.position + (j - new.buffpos) - 1
  <2>1. CASE Buffered(x)
    <3> SUFFICES ASSUME NEW j \in x.buffpos + 1..x.available
                 PROVE  x.buffer[j] = x.position + (j - x.buffpos) - 1
      BY <1>5, <2>1
    <3>1. j \in o.buffpos + 1..o.available
      BY <1>1, <1>2, <1>3
    <3>2. o.buffer[j] = o.position + (j - o.buffpos) - 1
      BY <3>1 DEF Reading
    <3>3. x.position + (j - x.buffpos) - 1 = o.position + (j - o.buffpos) - 1
      BY <1>1, <1>2, <1>3
    <3> QED BY <1>3, <3>2, <3>3
  <2>2. CASE ~Buffered(x)
    BY <1>5, <2>2
  <2> QED BY <2>1, <2>2
<1>11. Reading(new, d, k, path, base, m)
  BY <1>5, <1>8, <1>9, <1>10 DEF Reading
<1> QED BY <1>4, <1>5, <1>11 DEF new

(* What there is in the sectors of a file's block. *)
LEMMA SectorOfFile ==
    ASSUME NEW d, NEW k, NEW path, NEW base, NEW m, IsFileOn(d, k, path, base, m),
           NEW i \in 0..k, NEW x \in Sectors, i = k => x <= m + 1
    PROVE  IF i < k \/ x <= m
           THEN /\ IsRun(d[path[i]][x].data, Ends(d[path[i]], base[i], x - 1))
                /\ Ends(d[path[i]], base[i], x)
                       = Ends(d[path[i]], base[i], x - 1) + Len(d[path[i]][x].data)
                /\ d[path[i]][x].data \in Seq(Int) /\ Ends(d[path[i]], base[i], x - 1) \in Nat
                /\ Len(d[path[i]][x].data) \in Nat /\ Len(d[path[i]][x].data) > 0
           ELSE i = k /\ x = m + 1 /\ d[path[i]][x] = Unwritten
<1> DEFINE blk == d[path[i]]
           from == base[i]
           n == IF i < k THEN TailSector ELSE m
<1>1. k \in Nat /\ m \in 0..TailSector - 1 /\ x \in 1..TailSector
  BY Geometry DEF IsFileOn
<1>2. CASE i < k \/ x <= m
  <2>1. i = k \/ i < k
    BY <1>1
  <2>2. /\ blk \in Block /\ from \in Nat /\ n \in 0..TailSector /\ WrittenTo(blk, from, n)
    BY <2>1, BlocksOfChain
  <2>3. x \in 1..n /\ x - 1 \in 0..n
    BY <1>1, <1>2, <2>1, Geometry
  <2> HIDE DEF blk, from, n
  <2>4. IsRun(blk[x].data, Ends(blk, from, x - 1))
    BY <2>2, <2>3 DEF WrittenTo
  <2>5. /\ Ends(blk, from, x) = Ends(blk, from, x - 1) + Len(blk[x].data)
        /\ blk[x].data \in Seq(Int)
        /\ Len(blk[x].data) \in Nat /\ Len(blk[x].data) > 0
    BY <2>2, <2>3, EndsAreNumbers
  <2>6. Ends(blk, from, x - 1) \in Nat
    BY <2>2, <2>3, EndsAreNumbers
  <2> QED BY <1>2, <2>4, <2>5, <2>6 DEF blk, from
<1>3. CASE ~(i < k \/ x <= m)
  <2>1. i = k /\ x = m + 1 /\ x \in m + 1..TailSector
    BY <1>1, <1>3
  <2>2. Part(d[path[k]], base[k], m)
    BY BlocksOfChain
  <2> QED BY <1>3, <2>1, <2>2 DEF Part
<1> QED BY <1>2, <1>3

(* The next sector in the buffer: bytes of the file, or none at its end. *)
IsFilled(new, o, k, path, base, m) ==
    /\ new \in Handled /\ new.file = o.file /\ new.readonly = o.readonly
    /\ ~new.ended /\ new.position = o.position /\ new.length = o.length
    /\ new.head.into = 0 /\ new.buffpos = 0
    /\ \/ Buffered(new) /\ Reading(new, disk, k, path, base, m)
       \/ /\ new.available = 0 /\ new.buffer = <<>>
          /\ o.position = Length(disk, k, path, base, m)

LEMMA FillIs ==
    ASSUME NEW o \in Handled, o.readonly, ~Buffered(o), ~o.ended, o.head.into = 0,
           ~BlankTail(o.head),
           NEW k, NEW path, NEW base, NEW m, IsFileOn(disk, k, path, base, m),
           Reading(o, disk, k, path, base, m)
    PROVE  IsFilled(Fill(o), o, k, path, base, m)
<1> DEFINE x == o.head.sector
           sector == Sector(o.head)
           data == sector.data
           onward == IF IsTail(o.head) THEN FirstOf(sector.link)
                     ELSE At(o.head.block, x + 1)
           new == [o EXCEPT !.buffer = data, !.buffpos = 0, !.available = Len(data),
                            !.head = onward]
<1>0. Fill(o) = new
  BY DEF Fill
<1>1. PICK i \in 0..k : GoesOn(o, disk, k, path, base, m, i)
  BY DEF Reading
<1>2. /\ o.head \in Address /\ x \in Sectors /\ x \in 1..TailSector
      /\ o.head.block \in Blocks /\ o.position \in Nat
  BY Geometry DEF Handled, Address
<1>3. /\ o.head.block = path[i] /\ (i = k => x <= m + 1)
      /\ o.position = Ends(disk[path[i]], base[i], x - 1)
  <2>1. o.available \in Nat /\ o.available - o.buffpos = 0
    BY DEF Handled, Buffered
  <2> QED BY <1>1, <1>2, <2>1 DEF GoesOn
<1>4. sector = disk[path[i]][x]
  BY <1>3 DEF Sector
<1>5. sector \in [data : Seq(Int), link : Int, inBlock : Int]
  <2>1. disk[path[i]] \in Block
    BY BlocksOfChain
  <2> QED BY <1>2, <1>4, <2>1 DEF Block
<1>6. data \in Seq(Int) /\ Len(data) \in Nat
  BY <1>5
<1>7. k \in Nat /\ m \in 0..TailSector - 1 /\ m \in Nat /\ TailSector \in Nat
  BY Geometry DEF IsFileOn
<1> HIDE DEF onward, data
<1>8. ASSUME onward \in Address, onward.into = 0
      PROVE  /\ new \in Handled /\ new.file = o.file /\ new.readonly = o.readonly
             /\ ~new.ended /\ new.position = o.position /\ new.length = o.length
             /\ new.head = onward /\ new.head.into = 0 /\ new.buffpos = 0
             /\ new.buffer = data /\ new.available = Len(data)
  <2>1. new \in Handled
    BY <1>6, <1>8 DEF Handled
  <2>2. /\ new.file = o.file /\ new.readonly = o.readonly
        /\ ~new.ended /\ new.position = o.position /\ new.length = o.length
        /\ new.head = onward /\ new.buffpos = 0
        /\ new.buffer = data /\ new.available = Len(data)
    BY DEF Handled
  <2> QED BY <1>8, <2>1, <2>2
<1> HIDE DEF new
<1>9. CASE i < k \/ x <= m
  <2>1. /\ IsRun(data, o.position)
        /\ Ends(disk[path[i]], base[i], x) = o.position + Len(data)
        /\ Len(data) > 0
    BY <1>2, <1>3, <1>4, <1>9, SectorOfFile DEF data
  <2>2. PICK j \in 0..k :
            /\ onward \in Address /\ onward.into = 0 /\ onward.block = path[j]
            /\ j = k => onward.sector <= m + 1
            /\ Ends(disk[path[j]], base[j], onward.sector - 1)
                   = Ends(disk[path[i]], base[i], x)
    <3>1. CASE IsTail(o.head)
      <4>1. i < k /\ x = TailSector
        BY <1>7, <1>9, <3>1 DEF IsTail
      <4>2. /\ Full(disk[path[i]], base[i], base[i + 1], path[i + 1])
            /\ i + 1 \in 0..k
        BY <4>1, BlocksOfChain
      <4>3. /\ sector.link = path[i + 1]
            /\ Ends(disk[path[i]], base[i], x) = base[i + 1]
        BY <1>4, <4>1, <4>2 DEF Full
      <4>4. path[i + 1] \in Blocks
        BY <4>2, BlocksOfChain
      <4>5. onward = At(path[i + 1], 1)
        BY <3>1, <4>3 DEF onward, FirstOf
      <4>6. onward \in Address /\ onward.into = 0 /\ onward.block = path[i + 1]
            /\ onward.sector = 1
        BY <4>4, <4>5, Geometry DEF At, Address
      <4>7. Ends(disk[path[i + 1]], base[i + 1], onward.sector - 1) = base[i + 1]
        BY <4>6 DEF Ends
      <4>8. onward.sector <= m + 1
        BY <1>7, <4>6
      <4> QED BY <4>2, <4>3, <4>6, <4>7, <4>8
    <3>2. CASE ~IsTail(o.head)
      <4>1. onward = At(path[i], x + 1) /\ x # TailSector
        BY <1>3, <3>2 DEF onward, IsTail
      <4>2. x + 1 \in Sectors /\ x + 1 - 1 = x /\ (i = k => x + 1 <= m + 1)
        BY <1>2, <1>7, <1>9, <4>1, Geometry
      <4>3. onward \in Address /\ onward.into = 0 /\ onward.block = path[i]
            /\ onward.sector = x + 1
        BY <1>2, <1>3, <4>1, <4>2 DEF At, Address
      <4>4. Ends(disk[path[i]], base[i], onward.sector - 1) = Ends(disk[path[i]], base[i], x)
        <5>1. onward.sector - 1 = x
          BY <1>2, <4>3
        <5> QED BY <5>1
      <4>5. i = k => onward.sector <= m + 1
        BY <4>2, <4>3
      <4> QED BY <4>3, <4>4, <4>5
    <3> QED BY <3>1, <3>2
  <2>3. /\ new \in Handled /\ new.file = o.file /\ new.readonly = o.readonly
        /\ ~new.ended /\ new.position = o.position /\ new.length = o.length
        /\ new.head = onward /\ new.head.into = 0 /\ new.buffpos = 0
        /\ new.buffer = data /\ new.available = Len(data)
    BY <1>8, <2>2
  <2>4. Buffered(new)
    BY <2>1, <2>3 DEF Buffered
  <2>5. GoesOn(new, disk, k, path, base, m, j)
    <3>1. new.position + (new.available - new.buffpos) = o.position + Len(data)
      BY <1>2, <1>6, <2>3
    <3> QED BY <2>1, <2>2, <2>3, <3>1 DEF GoesOn
  <2>6. \A y \in new.buffpos + 1..new.available :
            new.buffer[y] = new.position + (y - new.buffpos) - 1
    <3> SUFFICES ASSUME NEW y \in 1..Len(data) PROVE data[y] = o.position + (y - 0) - 1
      BY <2>3
    <3> QED BY <1>2, <2>1 DEF IsRun
  <2>7. Reading(new, disk, k, path, base, m)
    <3>1. new.buffpos <= new.available /\ new.available <= Len(new.buffer)
      BY <1>6, <2>3
    <3> QED BY <2>3, <2>5, <2>6, <3>1 DEF Reading
  <2> QED BY <1>0, <2>3, <2>4, <2>7 DEF IsFilled
<1>10. CASE ~(i < k \/ x <= m)
  <2>1. i = k /\ x = m + 1 /\ sector = Unwritten
    BY <1>2, <1>3, <1>4, <1>10, SectorOfFile
  <2>2. data = <<>> /\ Len(data) = 0
    BY <2>1 DEF data, Unwritten
  <2>3. x # TailSector
    BY <2>1 DEF BlankTail, IsTail
  <2>4. onward = At(path[i], x + 1)
    BY <1>3, <2>3 DEF onward, IsTail
  <2>5. onward \in Address /\ onward.into = 0
    <3>1. x + 1 \in Sectors
      BY <1>2, <1>7, <2>3, Geometry
    <3> QED BY <1>2, <1>3, <2>4, <3>1 DEF At, Address
  <2>6. /\ new \in Handled /\ new.file = o.file /\ new.readonly = o.readonly
        /\ ~new.ended /\ new.position = o.position /\ new.length = o.length
        /\ new.head = onward /\ new.head.into = 0 /\ new.buffpos = 0
        /\ new.buffer = data /\ new.available = Len(data)
    BY <1>8, <2>5
  <2>7. o.position = Length(disk, k, path, base, m)
    <3>1. x - 1 = m
      BY <1>7, <2>1
    <3> QED BY <1>3, <2>1, <3>1 DEF Length
  <2> QED BY <1>0, <2>2, <2>6, <2>7 DEF IsFilled
<1> QED BY <1>9, <1>10

(* What is left of an object that has come to the end of its file. *)
LEMMA TookNone ==
    ASSUME NEW o \in Handled, o.readonly, o.available = 0, o.buffpos = 0, o.buffer = <<>>,
           o.head.into = 0, NEW n \in Nat,
           NEW d, NEW k, NEW path, NEW base, NEW m,
           Length(d, k, path, base, m) \in Nat, NEW position,
           position = Length(d, k, path, base, m),
           o.length = Unknown \/ o.length <= Length(d, k, path, base, m)
    PROVE  LET new == Took(o, n, position)
           IN  /\ new \in Handled /\ new.file = o.file /\ new.readonly = o.readonly
               /\ Reading(new, d, k, path, base, m)
               /\ Gets(o, n) = <<>>
<1>1. Take(o, n) = 0
  <2>1. o.available - o.buffpos = 0 /\ 0 \in Nat
    OBVIOUS
  <2>2. Take(o, n) = Least({n, 0})
    BY <2>1 DEF Take
  <2>3. Least({n, 0}) = IF n <= 0 THEN n ELSE 0
    BY <2>1, LeastOfTwo
  <2> QED BY <2>2, <2>3
<1> DEFINE length == IF o.length = Unknown THEN position ELSE o.length
           x == [o EXCEPT !.ended = TRUE, !.length = length]
<1>2. length \in Nat /\ (length = Unknown \/ length <= Length(d, k, path, base, m))
  BY DEF Handled
<1> HIDE DEF length
<1>3. x \in Handled
  BY <1>2 DEF Handled
<1>4. /\ x.file = o.file /\ x.readonly = o.readonly /\ x.head = o.head
      /\ x.length = length /\ x.buffer = <<>> /\ x.available = 0 /\ x.buffpos = 0 /\ x.ended
  BY DEF Handled
<1>5. Took(o, n, position) = Drained(x)
  <2>1. o.buffpos + Take(o, n) = o.buffpos /\ o.position + Take(o, n) = o.position
    BY <1>1 DEF Handled
  <2>2. [o EXCEPT !.buffpos = @ + Take(o, n), !.position = @ + Take(o, n),
                  !.ended = o.available = 0,
                  !.length = IF o.available = 0 /\ @ = Unknown THEN position ELSE @]
            = [o EXCEPT !.buffpos = @, !.position = @, !.ended = TRUE, !.length = length]
    BY <2>1 DEF length
  <2>3. [o EXCEPT !.buffpos = @, !.position = @, !.ended = TRUE, !.length = length] = x
    BY DEF Handled
  <2> HIDE DEF x
  <2> QED BY <2>2, <2>3 DEF Took
<1> HIDE DEF x
<1> DEFINE new == Drained(x)
<1>6. /\ new \in Handled /\ new.file = o.file /\ new.readonly = o.readonly /\ new.head = o.head
      /\ new.length = length /\ new.ended
      /\ new.available = 0 /\ new.buffpos = 0 /\ new.buffer = <<>>
  <2>1. ~Buffered(x)
    BY <1>4 DEF Buffered
  <2> QED BY <1>3, <1>4, <2>1, DrainedIs
<1> HIDE DEF new
<1>7. Reading(new, d, k, path, base, m)
  <2>1. Len(new.buffer) = 0 /\ new.buffpos + 1..new.available = {}
    BY <1>6
  <2> QED BY <1>2, <1>6, <2>1 DEF Reading, Buffered
<1>8. Gets(o, n) = <<>>
  <2>1. Gets(o, n) = SubSeq(o.buffer, 1, 0)
    BY <1>1 DEF Gets
  <2> QED BY <2>1, SubSeqEmpty
<1> QED BY <1>5, <1>6, <1>7, <1>8 DEF new

LEMMA ReadKeeps ==
    ASSUME KeepsTo, FilesInv, NEW h, NEW n \in Nat, n > 0, Read(h, n)
    PROVE  FilesInv'
<1>1. PICK owner \in [Blocks -> Nat] : FilesAre(owner)
  BY OwnersAre
<1> DEFINE o == open[h]
           file == o.file
           r == Taken(o, n)
<1>2. /\ h \in DOMAIN open /\ o.readonly /\ ~o.ended
      /\ Buffered(o) \/ ~BlankTail(o.head)
      /\ Buffered(o) \/ o.head.into = 0
      /\ open' = [open EXCEPT ![h] = r.o]
      /\ result' = [call |-> "read", file |-> file, from |-> o.position, bytes |-> r.bytes]
      /\ UNCHANGED <<disk, tree, next, saved, written, flushed>>
  BY DEF Read, KeepsTo, Allowed
<1>3. h \in Handles /\ o \in Handled /\ file \in Files /\ Exists(file) /\ ServesFile(o, owner)
  BY <1>1, <1>2, HandleHasFile, OwnersAre
<1>4. PICK k \in Nat, m \in 0..TailSector - 1 :
             \E path \in [0..k -> Blocks], base \in [0..k -> Nat] :
                 /\ IsFile(file, owner, k, path, base, m)
                 /\ Serves(o, disk, k, path, base, m, written[file])
  BY <1>3 DEF ServesFile
<1>5. PICK path \in [0..k -> Blocks], base \in [0..k -> Nat] :
                 /\ IsFile(file, owner, k, path, base, m)
                 /\ Serves(o, disk, k, path, base, m, written[file])
  BY <1>4
<1> HIDE DEF o
<1>6. /\ IsFileOn(disk, k, path, base, m) /\ Reading(o, disk, k, path, base, m)
      /\ Length(disk, k, path, base, m) = flushed[file]
  BY <1>2, <1>5 DEF IsFile, IsSavedFile, Serves, FileIs, IsStored
<1>7. o.head.into = 0
  BY <1>2, <1>6 DEF Reading
<1> DEFINE f == IF Buffered(o) THEN o ELSE Fill(o)
<1>8. /\ f \in Handled /\ f.file = o.file /\ f.readonly = o.readonly
      /\ ~f.ended /\ f.position = o.position /\ f.length = o.length
      /\ f.head.into = 0
      /\ \/ Buffered(f) /\ Reading(f, disk, k, path, base, m)
         \/ /\ f.available = 0 /\ f.buffpos = 0 /\ f.buffer = <<>>
            /\ o.position = Length(disk, k, path, base, m)
  <2>1. CASE Buffered(o)
    BY <1>2, <1>3, <1>6, <1>7, <2>1
  <2>2. CASE ~Buffered(o)
    <3>1. f = Fill(o)
      BY <2>2
    <3> HIDE DEF f
    <3>2. IsFilled(f, o, k, path, base, m)
      <4>1. o.readonly /\ ~Buffered(o) /\ ~o.ended /\ ~BlankTail(o.head)
        BY <1>2, <2>2
      <4> QED BY <1>3, <1>6, <1>7, <3>1, <4>1, FillIs
    <3> QED BY <3>2 DEF IsFilled
  <2> QED BY <2>1, <2>2
<1> DEFINE new == Took(f, n, o.position)
<1>9. r.o = new /\ r.bytes = Gets(f, n)
  BY <1>2, <1>7, TakenIs
<1> HIDE DEF f, r
<1>10. o.position \in Nat /\ Length(disk, k, path, base, m) \in Nat
  BY <1>3, <1>6, LengthIsNumber DEF Handled
<1>11. o.length = Unknown \/ o.length <= Length(disk, k, path, base, m)
  BY <1>6 DEF Reading
<1>12. /\ new \in Handled /\ new.file = file /\ new.readonly = o.readonly
       /\ Reading(new, disk, k, path, base, m)
       /\ Gets(f, n) = [i \in 1..Len(Gets(f, n)) |-> o.position + i - 1]
       /\ Gets(f, n) = <<>> => o.position = flushed[file]
  <2>1. CASE Buffered(f) /\ Reading(f, disk, k, path, base, m)
    <3>1. /\ new \in Handled /\ new.file = file /\ new.readonly = o.readonly
          /\ Reading(new, disk, k, path, base, m)
      BY <1>2, <1>8, <1>10, <2>1, TookSome
    <3>2. Gets(f, n) # <<>>
      BY <1>8, <2>1, GetsBytes
    <3>3. Gets(f, n) = [i \in 1..Len(Gets(f, n)) |-> f.position + i - 1]
      BY <1>8, <2>1, GetsBytes
    <3> QED BY <1>8, <3>1, <3>2, <3>3
  <2>2. CASE /\ f.available = 0 /\ f.buffpos = 0 /\ f.buffer = <<>>
             /\ o.position = Length(disk, k, path, base, m)
    <3>1. /\ new \in Handled /\ new.file = file /\ new.readonly = o.readonly
          /\ Reading(new, disk, k, path, base, m) /\ Gets(f, n) = <<>>
      <4>1. /\ f \in Handled /\ f.readonly /\ f.head.into = 0 /\ f.file = file
            /\ f.readonly = o.readonly
            /\ f.length = Unknown \/ f.length <= Length(disk, k, path, base, m)
        BY <1>2, <1>8, <1>11
      <4>2. f.available = 0 /\ f.buffpos = 0 /\ f.buffer = <<>>
        BY <2>2
      <4>3. o.position = Length(disk, k, path, base, m)
        BY <2>2
      <4> QED BY <1>10, <4>1, <4>2, <4>3, TookNone
    <3>2. <<>> = [i \in 1..Len(<<>>) |-> o.position + i - 1]
      OBVIOUS
    <3> QED BY <1>6, <2>2, <3>1, <3>2
  <2> QED BY <1>8, <2>1, <2>2
<1> HIDE DEF new
<1>13. OpenedIs(h, new) /\ FitsIn(h, new)
  BY <1>2, <1>9, <1>12, Replaced DEF o
<1>14. Serves(new, disk, k, path, base, m, written[file])
  BY <1>2, <1>12 DEF Serves
<1>15. ServesFile(new, owner)
  BY <1>5, <1>12, <1>14 DEF ServesFile
<1>16. FilesKept(owner)
  BY <1>1, <1>2, <1>3, <1>12, <1>13, <1>15, HandleStep, OwnersAre
<1>17. ReadsWhatWasWritten'
  BY <1>2, <1>9, <1>12 DEF ReadsWhatWasWritten
<1> QED BY <1>16, <1>17, FilesInvAfter

-----------------------------------------------------------------------------
(* A sector more of a file. *)

LEMMA SectorAdded ==
    ASSUME NEW blk \in Block, NEW blk2 \in Block, NEW from \in Nat,
           NEW m \in 0..TailSector - 1, WrittenTo(blk, from, m),
           \A s \in 1..m : blk2[s] = blk[s],
           IsRun(blk2[m + 1].data, Ends(blk, from, m))
    PROVE  /\ WrittenTo(blk2, from, m + 1)
           /\ \A s \in 0..m : Ends(blk2, from, s) = Ends(blk, from, s)
           /\ Ends(blk2, from, m + 1) = Ends(blk, from, m) + Len(blk2[m + 1].data)
<1>1. \A s \in 0..m : Ends(blk2, from, s) = Ends(blk, from, s)
  <2> SUFFICES ASSUME NEW s \in 0..m PROVE Ends(blk2, from, s) = Ends(blk, from, s)
    OBVIOUS
  <2>1. s = 0 \/ s \in 1..m
    OBVIOUS
  <2> QED BY <2>1 DEF Ends
<1>2. m \in Nat /\ m \in 0..m /\ m \in 0..TailSector /\ m + 1 \in Sectors /\ m + 1 # 0
  BY Geometry
<1>3. WrittenTo(blk2, from, m + 1)
  <2> SUFFICES ASSUME NEW s \in 1..m + 1 PROVE IsRun(blk2[s].data, Ends(blk2, from, s - 1))
    BY DEF WrittenTo
  <2>1. CASE s \in 1..m
    <3>1. s - 1 \in 0..m
      BY <1>2, <2>1
    <3>2. IsRun(blk[s].data, Ends(blk, from, s - 1))
      BY <2>1 DEF WrittenTo
    <3> QED BY <1>1, <2>1, <3>1, <3>2
  <2>2. CASE s \notin 1..m
    <3>1. s = m + 1 /\ s - 1 = m
      BY <1>2, <2>2
    <3> QED BY <1>1, <1>2, <3>1
  <2> QED BY <2>1, <2>2
<1>4. Ends(blk2, from, m + 1) = Ends(blk, from, m) + Len(blk2[m + 1].data)
  <2>1. Ends(blk, from, m) \in Nat
    BY <1>2, EndsAreNumbers
  <2>2. blk2[m + 1].data \in Seq(Int)
    BY <1>2 DEF Block
  <2>3. blk2[m + 1].data[1] = Ends(blk, from, m)
    BY <2>1, <2>2, RunIsNotEmpty
  <2> QED BY <1>2, <2>3 DEF Ends
<1> QED BY <1>1, <1>3, <1>4

(* The same blocks in front of the last, and the same sectors of that one. *)
GrowsAt(d, d2, k, path, m) ==
    /\ \A i \in 0..k : i # k => d2[path[i]] = d[path[i]]
    /\ \A s \in 1..m : d2[path[k]][s] = d[path[k]][s]

LEMMA EndsStay ==
    ASSUME NEW d, NEW d2, NEW k, NEW path, NEW base, NEW m, IsFileOn(d, k, path, base, m),
           GrowsAt(d, d2, k, path, m), NEW i \in 0..k, NEW x \in Nat, i = k => x <= m
    PROVE  Ends(d2[path[i]], base[i], x) = Ends(d[path[i]], base[i], x)
<1>1. CASE i # k
  BY <1>1 DEF GrowsAt
<1>2. CASE i = k
  <2>1. x = 0 \/ x \in 1..m
    BY <1>2 DEF IsFileOn
  <2> QED BY <1>2, <2>1 DEF GrowsAt, Ends
<1> QED BY <1>1, <1>2

(* Who reads goes on where he was. *)
LEMMA ReadersStay ==
    ASSUME NEW d, NEW d2, NEW k, NEW path, NEW base, NEW m, IsFileOn(d, k, path, base, m),
           GrowsAt(d, d2, k, path, m),
           NEW k2 \in Nat, NEW path2, NEW base2, NEW m2,
           k2 >= k, \A i \in 0..k : path2[i] = path[i] /\ base2[i] = base[i],
           k2 = k => m <= m2 /\ m2 \in Nat,
           Length(d, k, path, base, m) <= Length(d2, k2, path2, base2, m2),
           Length(d2, k2, path2, base2, m2) \in Nat,
           NEW r \in Handled, Reading(r, d, k, path, base, m)
    PROVE  Reading(r, d2, k2, path2, base2, m2)
<1>1. k \in Nat /\ m \in Nat /\ Length(d, k, path, base, m) \in Nat
  BY LengthIsNumber, Geometry DEF IsFileOn
<1>2. r.length = Unknown \/ r.length <= Length(d2, k2, path2, base2, m2)
  <2>1. r.length = Unknown \/ r.length <= Length(d, k, path, base, m)
    BY DEF Reading
  <2>2. r.length \in Nat
    BY DEF Handled
  <2> QED BY <1>1, <2>1, <2>2
<1>3. ASSUME ~r.ended, r.head.into = 0
      PROVE  \E i \in 0..k2 : GoesOn(r, d2, k2, path2, base2, m2, i)
  <2>1. PICK i \in 0..k : GoesOn(r, d, k, path, base, m, i)
    BY <1>3 DEF Reading
  <2>2. i \in 0..k2 /\ path2[i] = path[i] /\ base2[i] = base[i]
    BY <1>1
  <2>3. r.head.sector \in 1..TailSector
    BY DEF Handled, Address, Sectors
  <2>4. r.head.sector - 1 \in Nat /\ (i = k => r.head.sector - 1 <= m)
    BY <1>1, <2>1, <2>3, Geometry DEF GoesOn
  <2>5. Ends(d2[path[i]], base[i], r.head.sector - 1) = Ends(d[path[i]], base[i], r.head.sector - 1)
    BY <2>4, EndsStay
  <2>6. i = k2 => r.head.sector <= m2 + 1
    <3> SUFFICES ASSUME i = k2 PROVE r.head.sector <= m2 + 1
      OBVIOUS
    <3>1. i = k /\ k2 = k
      BY <1>1
    <3>2. r.head.sector <= m + 1 /\ m <= m2 /\ m2 \in Nat
      BY <2>1, <3>1 DEF GoesOn
    <3>3. m \in Nat /\ r.head.sector \in Int
      BY <1>1, <2>3, Geometry
    <3> QED BY <3>2, <3>3
  <2> QED BY <2>1, <2>2, <2>5, <2>6 DEF GoesOn
<1> QED BY <1>2, <1>3 DEF Reading

IsGrown(d, d2, k, path, base, m) ==
    /\ IsChain(d2, k, path, base, m + 1)
    /\ Length(d2, k, path, base, m + 1)
           = Length(d, k, path, base, m) + Len(d2[path[k]][m + 1].data)

LEMMA ChainGrows ==
    ASSUME NEW d, NEW d2 \in Device, NEW k, NEW path, NEW base, NEW m,
           IsFileOn(d, k, path, base, m), m + 1 # TailSector, GrowsAt(d, d2, k, path, m),
           \A s \in m + 2..TailSector : d2[path[k]][s] = d[path[k]][s],
           IsRun(d2[path[k]][m + 1].data, Length(d, k, path, base, m))
    PROVE  IsGrown(d, d2, k, path, base, m)
<1> DEFINE blk == d[path[k]]
           blk2 == d2[path[k]]
           from == base[k]
<1>1. /\ k \in Nat /\ m \in 0..TailSector - 1 /\ path[k] \in Blocks /\ k \in 0..k
      /\ blk \in Block /\ from \in Nat /\ WrittenTo(blk, from, m) /\ Part(blk, from, m)
      /\ base[0] = 0
  BY BlocksOfChain DEF IsFileOn
<1>2. blk2 \in Block
  BY <1>1 DEF Device, Block
<1>3. (\A s \in 1..m : blk2[s] = blk[s]) /\ IsRun(blk2[m + 1].data, Ends(blk, from, m))
  BY DEF GrowsAt, Length
<1>4. /\ WrittenTo(blk2, from, m + 1)
      /\ Ends(blk2, from, m + 1) = Ends(blk, from, m) + Len(blk2[m + 1].data)
  <2> HIDE DEF blk, blk2, from
  <2> QED BY <1>1, <1>2, <1>3, SectorAdded
<1>5. Part(blk2, from, m + 1)
  <2>1. ASSUME NEW s \in m + 1 + 1..TailSector PROVE blk2[s] = Unwritten
    <3>1. s \in m + 2..TailSector /\ s \in m + 1..TailSector
      BY <1>1, Geometry
    <3> QED BY <1>1, <3>1 DEF Part
  <2> QED BY <1>4, <2>1 DEF Part
<1>6. ASSUME NEW i \in 0..k - 1 PROVE Full(d2[path[i]], base[i], base[i + 1], path[i + 1])
  <2>1. i \in 0..k /\ i # k /\ i < k
    BY <1>1
  <2>2. d2[path[i]] = d[path[i]]
    BY <2>1 DEF GrowsAt
  <2> QED BY <2>1, <2>2, BlocksOfChain
<1> QED BY <1>1, <1>4, <1>5, <1>6 DEF IsChain, Length, IsGrown

(* A chain with one more block. *)
Longer(k, path, b) == [i \in 0..k + 1 |-> IF i <= k THEN path[i] ELSE b]

IsLinked(d, k, path, base, size) ==
    IsChain(d, k + 1, path, base, 0) /\ Length(d, k + 1, path, base, 0) = size

LEMMA ChainLinks ==
    ASSUME NEW d, NEW d2 \in Device, NEW k, NEW path, NEW base, NEW m,
           IsFileOn(d, k, path, base, m), m + 1 = TailSector, GrowsAt(d, d2, k, path, m),
           NEW b \in Blocks, d2[b] = BlankBlock, NEW size,
           IsRun(d2[path[k]][TailSector].data, Length(d, k, path, base, m)),
           size = Length(d, k, path, base, m) + Len(d2[path[k]][TailSector].data),
           d2[path[k]][TailSector].link = b,
           d2[path[k]][TailSector].inBlock = size - base[k]
    PROVE  IsLinked(d2, k, Longer(k, path, b), Longer(k, base, size), size)
<1> DEFINE blk == d[path[k]]
           blk2 == d2[path[k]]
           from == base[k]
           path2 == Longer(k, path, b)
           base2 == Longer(k, base, size)
<1>1. /\ k \in Nat /\ m \in 0..TailSector - 1 /\ path[k] \in Blocks /\ k \in 0..k
      /\ blk \in Block /\ from \in Nat /\ WrittenTo(blk, from, m)
      /\ base[0] = 0
  BY BlocksOfChain DEF IsFileOn
<1>2. blk2 \in Block
  BY <1>1 DEF Device, Block
<1>3. (\A s \in 1..m : blk2[s] = blk[s]) /\ IsRun(blk2[m + 1].data, Ends(blk, from, m))
  BY DEF GrowsAt, Length
<1>4. /\ WrittenTo(blk2, from, m + 1)
      /\ Ends(blk2, from, m + 1) = Ends(blk, from, m) + Len(blk2[m + 1].data)
  <2> HIDE DEF blk, blk2, from
  <2> QED BY <1>1, <1>2, <1>3, SectorAdded
<1>5. Full(blk2, from, size, b)
  <2>1. Ends(blk2, from, TailSector) = size
    BY <1>4 DEF Length
  <2> QED BY <1>4, <2>1 DEF Full
<1>6. /\ \A i \in 0..k : path2[i] = path[i] /\ base2[i] = base[i]
      /\ path2[k + 1] = b /\ base2[k + 1] = size
  BY <1>1 DEF Longer
<1>7. ASSUME NEW i \in 0..k PROVE Full(d2[path2[i]], base2[i], base2[i + 1], path2[i + 1])
  <2>1. CASE i = k
    BY <1>1, <1>5, <1>6, <2>1
  <2>2. CASE i # k
    <3>1. i < k /\ i + 1 \in 0..k
      BY <1>1, <2>2
    <3>2. d2[path[i]] = d[path[i]]
      BY <2>2 DEF GrowsAt
    <3>3. Full(d[path[i]], base[i], base[i + 1], path[i + 1])
      BY <3>1, BlocksOfChain
    <3> QED BY <1>6, <3>1, <3>2, <3>3
  <2> QED BY <2>1, <2>2
<1>8. Part(BlankBlock, size, 0)
  BY DEF Part, WrittenTo, BlankBlock
<1>9. base2[0] = 0
  BY <1>1, <1>6
<1>10. \A i \in 0..(k + 1) - 1 : Full(d2[path2[i]], base2[i], base2[i + 1], path2[i + 1])
  <2>1. (k + 1) - 1 = k
    BY <1>1
  <2> QED BY <1>7, <2>1
<1>11. Length(d2, k + 1, path2, base2, 0) = size
  <2>1. base2[k + 1] = size
    BY <1>6
  <2> HIDE DEF path2, base2
  <2> QED BY <2>1 DEF Length, Ends
<1> HIDE DEF path2, base2
<1>12. IsChain(d2, k + 1, path2, base2, 0)
  BY <1>6, <1>8, <1>9, <1>10 DEF IsChain
<1> QED BY <1>11, <1>12 DEF path2, base2, IsLinked

-----------------------------------------------------------------------------
(* flush(): s is what a writer's object and the device are after it.        *)

Readers(f, d, k, path, base, m) ==
    \A g \in DOMAIN open :
        open[g].file = f /\ open[g].readonly => Reading(open[g], d, k, path, base, m)

(* The file f is `length' bytes on the device, of `size' that were written. *)
Settled(s, f, owner, k, path, base, m, length, size) ==
    /\ k \in Nat /\ m \in 0..TailSector - 1
    /\ path \in [0..k -> Blocks] /\ base \in [0..k -> Nat]
    /\ IsStored(f, s.disk, s.tree, s.next, owner, k, path, base, m, length)
    /\ Beginning(f) \in DOMAIN s.tree
    /\ Appending(s.o, s.disk, k, path, base, m, size)
    /\ Readers(f, s.disk, k, path, base, m)

(* What is written in blocks that were handed out stays what it is. *)
OnlyAppends(d) ==
    \A b \in Blocks, x \in Sectors :
        b < next /\ disk[b][x] # Unwritten => d[b][x] = disk[b][x]

SettledType(s, f) ==
    /\ s.disk \in Device
    /\ DOMAIN s.tree \subseteq Files \X Nat /\ s.tree \in [DOMAIN s.tree -> Address]
    /\ s.next \in Nat /\ s.next <= NumBlocks /\ s.saved \in Nat
    /\ s.o \in Handled /\ s.o.file = f /\ ~s.o.readonly

(* A flush, or none. *)
Settles(s, f, owner, length, size) ==
    /\ SettledType(s, f) /\ OnlyAppends(s.disk)
    /\ \E owner2 \in [Blocks -> Nat] :
          /\ LeavesOthers(f, s.disk, s.tree, s.next, owner, owner2)
          /\ \E k, path, base, m : Settled(s, f, owner2, k, path, base, m, length, size)

(* The object o of a file that is written. *)
WriterAt(o, f, owner, k, path, base, m) ==
    /\ o \in Handled /\ ~o.readonly /\ o.file = f
    /\ owner \in [Blocks -> Nat]
    /\ IsFile(f, owner, k, path, base, m)
    /\ Appending(o, disk, k, path, base, m, written[f])

LEMMA WriterIs ==
    ASSUME TypeOK, NEW o, NEW f, NEW owner, NEW k, NEW path, NEW base, NEW m,
           WriterAt(o, f, owner, k, path, base, m)
    PROVE  /\ f \in Files /\ written[f] \in Nat /\ flushed[f] \in Nat
           /\ IsFileOn(disk, k, path, base, m)
           /\ IsStored(f, disk, tree, next, owner, k, path, base, m, flushed[f])
           /\ Length(disk, k, path, base, m) = flushed[f]
           /\ Readers(f, disk, k, path, base, m)
           /\ Beginning(f) \in DOMAIN tree
           /\ o.head = At(path[k], m + 1) /\ o.head.block = path[k] /\ o.head.sector = m + 1
           /\ path[k] \in Blocks /\ path[k] < next /\ next \in Nat
           /\ o.length = written[f] /\ o.position = written[f]
           /\ o.inBlock = written[f] - base[k]
           /\ o.buffer \in Seq(Int) /\ Len(o.buffer) \in Nat
           /\ flushed[f] + Len(o.buffer) = written[f]
<1>1. /\ f \in Files /\ written[f] \in Nat /\ flushed[f] \in Nat /\ next \in Nat
      /\ o.buffer \in Seq(Int) /\ Len(o.buffer) \in Nat
  BY Geometry DEF WriterAt, IsFile, IsSavedFile, TypeOK, Handled
<1>2. /\ IsFileOn(disk, k, path, base, m)
      /\ IsStored(f, disk, tree, next, owner, k, path, base, m, flushed[f])
      /\ Beginning(f) \in DOMAIN tree
  BY DEF WriterAt, IsFile, IsSavedFile, FileIs, Exists
<1>3. Length(disk, k, path, base, m) = flushed[f]
  BY <1>2 DEF IsStored
<1>4. Readers(f, disk, k, path, base, m)
  BY DEF WriterAt, IsFile, FileIs, Readers, Serves
<1>5. path[k] \in Blocks /\ path[k] < next
  BY <1>2, BlocksOfChain DEF IsStored, InOrder
<1>6. /\ o.head = At(path[k], m + 1)
      /\ o.length = written[f] /\ o.position = written[f]
      /\ o.inBlock = written[f] - base[k]
      /\ flushed[f] + Len(o.buffer) = written[f]
  BY <1>3 DEF WriterAt, Appending
<1>7. o.head.block = path[k] /\ o.head.sector = m + 1
  BY <1>6 DEF At
<1> QED BY <1>1, <1>2, <1>3, <1>4, <1>5, <1>6, <1>7

LEMMA NotFlushed ==
    ASSUME TypeOK, NEW o, NEW f, NEW owner, NEW k, NEW path, NEW base, NEW m,
           WriterAt(o, f, owner, k, path, base, m)
    PROVE  Settles(Now(o), f, owner, flushed[f], written[f])
<1> DEFINE s == Now(o)
<1>1. /\ s.disk = disk /\ s.tree = tree /\ s.next = next /\ s.saved = saved /\ s.o = o
  BY DEF Now
<1> HIDE DEF s
<1>2. SettledType(s, f) /\ OnlyAppends(s.disk)
  BY <1>1 DEF SettledType, OnlyAppends, TypeOK, WriterAt
<1>3. LeavesOthers(f, s.disk, s.tree, s.next, owner, owner)
  BY <1>1, WriterIs DEF LeavesOthers
<1>4. Settled(s, f, owner, k, path, base, m, flushed[f], written[f])
  <2>1. /\ k \in Nat /\ m \in 0..TailSector - 1
        /\ path \in [0..k -> Blocks] /\ base \in [0..k -> Nat]
    BY WriterIs DEF IsFileOn
  <2> QED BY <1>1, <2>1, WriterIs DEF Settled, WriterAt
<1>5. owner \in [Blocks -> Nat]
  BY DEF WriterAt
<1>6. Settles(s, f, owner, flushed[f], written[f])
  BY <1>2, <1>3, <1>4, <1>5 DEF Settles
<1> QED BY <1>6 DEF s

WroteSector(s, o) ==
    /\ s.disk = [disk EXCEPT ![o.head.block][o.head.sector] =
                     [data |-> o.buffer, link |-> NoBlock, inBlock |-> 0]]
    /\ s.tree = tree /\ s.next = next /\ s.saved = saved
    /\ s.o = [o EXCEPT !.head = At(o.head.block, o.head.sector + 1), !.buffer = <<>>]

LEMMA SectorFlushed ==
    ASSUME NEW o \in Handled, ~IsTail(o.head)
    PROVE  WroteSector(Flushed(o, Now(o)), o)
<1> DEFINE sec == [Unwritten EXCEPT !.data = o.buffer]
           next_sector == At(o.head.block, o.head.sector + 1)
           d2 == [disk EXCEPT ![o.head.block][o.head.sector] = sec]
           o1 == [o EXCEPT !.head = next_sector]
           o2 == [o1 EXCEPT !.buffer = <<>>]
           s0 == Now(o)
           s1 == [s0 EXCEPT !.disk[o.head.block][o.head.sector] = sec]
           s2 == [s1 EXCEPT !.o.head = next_sector]
           s3 == [s2 EXCEPT !.o.buffer = <<>>]
<1>1. Flushed(o, s0) = s3
  BY DEF Flushed
<1>2. s0 = [disk |-> disk, tree |-> tree, next |-> next, saved |-> saved, o |-> o]
  BY DEF Now
<1>3. sec = [data |-> o.buffer, link |-> NoBlock, inBlock |-> 0]
  BY DEF Unwritten
<1> HIDE DEF sec, next_sector, s0
<1>4. s1 = [disk |-> d2, tree |-> tree, next |-> next, saved |-> saved, o |-> o]
  BY <1>2
<1> HIDE DEF s1, d2
<1>5. s2 = [disk |-> d2, tree |-> tree, next |-> next, saved |-> saved, o |-> o1]
  BY <1>4
<1> HIDE DEF s2, o1
<1>6. s3 = [disk |-> d2, tree |-> tree, next |-> next, saved |-> saved, o |-> o2]
  BY <1>5
<1> HIDE DEF s3, o2
<1>7. /\ Flushed(o, s0).disk = d2 /\ Flushed(o, s0).tree = tree
      /\ Flushed(o, s0).next = next /\ Flushed(o, s0).saved = saved
      /\ Flushed(o, s0).o = o2
  BY <1>1, <1>6
<1> QED BY <1>3, <1>7 DEF s0, d2, o2, o1, next_sector, WroteSector

LEMMA FlushedInBlock ==
    ASSUME TypeOK, NEW o, NEW f, NEW owner, NEW k, NEW path, NEW base, NEW m,
           WriterAt(o, f, owner, k, path, base, m), o.buffer # <<>>, ~IsTail(o.head)
    PROVE  Settles(Flushed(o, Now(o)), f, owner, written[f], written[f])
<1> DEFINE s == Flushed(o, Now(o))
           b == path[k]
           sec == [data |-> o.buffer, link |-> NoBlock, inBlock |-> 0]
           d2 == [disk EXCEPT ![b][m + 1] = sec]
<1>1. o \in Handled /\ o.file = f /\ ~o.readonly /\ owner \in [Blocks -> Nat]
  BY DEF WriterAt
<1>2. /\ s.disk = d2 /\ s.tree = tree /\ s.next = next /\ s.saved = saved
      /\ s.o = [o EXCEPT !.head = At(b, m + 2), !.buffer = <<>>]
  <2>1. o.head.block = b /\ o.head.sector = m + 1 /\ (m + 1) + 1 = m + 2
    BY WriterIs DEF IsFileOn
  <2>2. WroteSector(s, o)
    BY <1>1, SectorFlushed
  <2> HIDE DEF s, b
  <2> QED BY <2>1, <2>2 DEF WroteSector
<1> HIDE DEF s
<1>3. /\ m \in Nat /\ m + 1 \in Sectors /\ m + 1 # TailSector /\ m + 2 \in Sectors
      /\ k \in Nat /\ m + 1 \in 0..TailSector - 1 /\ k \in 0..k
      /\ path \in [0..k -> Blocks] /\ base \in [0..k -> Nat]
  <2>1. o.head.sector = m + 1 /\ IsFileOn(disk, k, path, base, m)
    BY WriterIs
  <2>2. m + 1 # TailSector
    BY <2>1 DEF IsTail
  <2> QED BY <2>1, <2>2, Geometry DEF IsFileOn
<1>4. b \in Blocks /\ disk \in Device /\ sec \in [data : Seq(Int), link : Int, inBlock : Int]
  BY WriterIs, Geometry DEF TypeOK
<1>5. d2 \in Device
  <2> HIDE DEF b, sec
  <2> QED BY <1>3, <1>4 DEF Device
<1>6. /\ \A c \in Blocks : c # b => d2[c] = disk[c]
      /\ \A x \in Sectors : x # m + 1 => d2[b][x] = disk[b][x]
      /\ d2[b][m + 1] = sec /\ d2[b][m + 1].data = o.buffer
  <2> HIDE DEF b
  <2> QED BY <1>3, <1>4 DEF Device
<1> HIDE DEF d2
<1>7. GrowsAt(disk, d2, k, path, m)
  <2>1. ASSUME NEW i \in 0..k, i # k PROVE d2[path[i]] = disk[path[i]]
    <3>1. InOrder(next, k, path) /\ next \in Nat
      BY WriterIs DEF IsStored
    <3>2. path[i] # b /\ path[i] \in Blocks
      BY <1>3, <2>1, <3>1, BlocksInUse
    <3> QED BY <1>6, <3>2
  <2>2. ASSUME NEW x \in 1..m PROVE d2[b][x] = disk[b][x]
    BY <1>3, <1>6, Geometry
  <2> QED BY <2>1, <2>2 DEF GrowsAt
<1>8. IsRun(d2[b][m + 1].data, Length(disk, k, path, base, m))
  BY <1>6 DEF WriterAt, Appending, IsRun
<1>9. ASSUME NEW x \in m + 2..TailSector PROVE d2[b][x] = disk[b][x]
  <2>1. x \in Sectors /\ x # m + 1
    BY <1>3, Geometry
  <2> QED BY <1>6, <2>1
<1>10. /\ IsChain(d2, k, path, base, m + 1)
       /\ Length(d2, k, path, base, m + 1) = written[f]
  <2>1. IsFileOn(disk, k, path, base, m) /\ flushed[f] + Len(o.buffer) = written[f]
        /\ Length(disk, k, path, base, m) = flushed[f]
    BY WriterIs
  <2>2. IsGrown(disk, d2, k, path, base, m)
    <3>1. m + 1 # TailSector
      BY <1>3
    <3>2. \A x \in m + 2..TailSector : d2[path[k]][x] = disk[path[k]][x]
      BY <1>9
    <3> QED BY <1>5, <1>7, <1>8, <2>1, <3>1, <3>2, ChainGrows
  <2> QED BY <1>6, <2>1, <2>2 DEF IsGrown
<1>11. IsStored(f, s.disk, s.tree, s.next, owner, k, path, base, m + 1, written[f])
  BY <1>2, <1>10, WriterIs DEF IsStored
<1>12. Readers(f, d2, k, path, base, m + 1)
  <2> SUFFICES ASSUME NEW g \in DOMAIN open, open[g].file = f, open[g].readonly
               PROVE  Reading(open[g], d2, k, path, base, m + 1)
    BY DEF Readers
  <2>1. open[g] \in Handled /\ Reading(open[g], disk, k, path, base, m)
    BY WriterIs DEF Readers, TypeOK
  <2>2. /\ IsFileOn(disk, k, path, base, m) /\ written[f] \in Nat
        /\ Length(disk, k, path, base, m) <= written[f]
    BY WriterIs
  <2>3. k >= k /\ m <= m + 1 /\ m + 1 \in Nat
    BY <1>3
  <2> QED BY <1>3, <1>7, <1>10, <2>1, <2>2, <2>3, ReadersStay
<1>13. /\ s.o \in Handled /\ s.o.file = f /\ ~s.o.readonly /\ s.o.buffer = <<>>
       /\ s.o.head = At(b, m + 2) /\ s.o.length = o.length /\ s.o.position = o.position
       /\ s.o.inBlock = o.inBlock
  <2>1. At(b, m + 2) \in Address
    BY <1>3, <1>4 DEF At, Address
  <2>2. <<>> \in Seq(Int)
    OBVIOUS
  <2> HIDE DEF b
  <2> QED BY <1>1, <1>2, <2>1, <2>2 DEF Handled
<1>14. Appending(s.o, d2, k, path, base, m + 1, written[f])
  <2>1. (m + 1) + 1 = m + 2 /\ Len(<<>>) = 0 /\ 1..0 = {}
    BY <1>3
  <2> QED BY <1>10, <1>13, <2>1, WriterIs DEF Appending
<1>15. Settled(s, f, owner, k, path, base, m + 1, written[f], written[f])
  BY <1>2, <1>3, <1>11, <1>12, <1>14, WriterIs DEF Settled
<1>16. SettledType(s, f)
  BY <1>2, <1>5, <1>13 DEF SettledType, TypeOK
<1>17. OnlyAppends(d2)
  <2>1. disk[b][m + 1] = Unwritten
    <3>1. IsFileOn(disk, k, path, base, m)
      BY WriterIs
    <3>2. Part(disk[b], base[k], m) /\ m + 1 \in m + 1..TailSector
      BY <1>3, <3>1, BlocksOfChain, Geometry
    <3> QED BY <3>2 DEF Part
  <2> SUFFICES ASSUME NEW c \in Blocks, NEW x \in Sectors, disk[c][x] # Unwritten
               PROVE  d2[c][x] = disk[c][x]
    BY DEF OnlyAppends
  <2> QED BY <1>6, <2>1
<1>18. LeavesOthers(f, d2, tree, next, owner, owner)
  <2>1. owner[b] = f
    BY <1>3, WriterIs DEF IsStored
  <2> QED BY <1>6, <2>1, WriterIs DEF LeavesOthers
<1>19. Settles(s, f, owner, written[f], written[f])
  BY <1>1, <1>2, <1>15, <1>16, <1>17, <1>18 DEF Settles
<1> QED BY <1>19 DEF s

(* The tail sector links to a block that begins, of which the tree is told  *)
(* every PositionSaveFrequency blocks.                                      *)
WroteTail(s, o, saves) ==
    /\ s.disk = [[disk EXCEPT ![o.head.block][TailSector] =
                      [data |-> o.buffer, link |-> next, inBlock |-> o.inBlock]]
                 EXCEPT ![next] = BlankBlock]
    /\ s.tree = IF saves THEN Put(tree, <<o.file, o.length>>, At(next, 1)) ELSE tree
    /\ s.next = next + 1
    /\ s.saved = IF saves THEN next + 1 ELSE saved
    /\ s.o = [o EXCEPT !.head = At(next, 1), !.inBlock = 0, !.buffer = <<>>,
                       !.since = IF saves THEN 0 ELSE o.since + 1]

LEMMA TailFlushed ==
    ASSUME NEW o \in Handled, IsTail(o.head)
    PROVE  WroteTail(Flushed(o, Now(o)), o, o.since + 1 = PositionSaveFrequency)
<1> DEFINE s0 == Now(o)
           saves == o.since + 1 = PositionSaveFrequency
           d2 == Begun([disk EXCEPT ![o.head.block][TailSector] =
                            [data |-> o.buffer, link |-> next, inBlock |-> o.inBlock]], next)
           t2 == IF saves THEN Put(tree, <<o.file, o.length>>, At(next, 1)) ELSE tree
           v2 == IF saves THEN next + 1 ELSE saved
           o2 == [o EXCEPT !.head = At(next, 1), !.inBlock = 0, !.buffer = <<>>,
                           !.since = IF saves THEN 0 ELSE o.since + 1]
<1>1. s0.disk = disk /\ s0.tree = tree /\ s0.next = next /\ s0.saved = saved
  BY DEF Now
<1> HIDE DEF s0
<1>2. Flushed(o, s0) = [disk |-> d2, tree |-> t2, next |-> next + 1, saved |-> v2, o |-> o2]
  BY <1>1 DEF Flushed, Allocate, SavedBlock
<1> HIDE DEF d2, t2, v2, o2
<1>3. /\ Flushed(o, s0).disk = d2 /\ Flushed(o, s0).tree = t2
      /\ Flushed(o, s0).next = next + 1 /\ Flushed(o, s0).saved = v2
      /\ Flushed(o, s0).o = o2
  BY <1>2
<1> QED BY <1>3 DEF s0, d2, t2, v2, o2, WroteTail, Begun

(* What the tree says of a chain that has one more block.                   *)
SavedLonger(t, f, k, path, base) ==
    /\ IsSaved(t, f, k + 1, path, base)
    /\ Beginning(f) \in DOMAIN t
    /\ \A g \in Files, p \in Nat :
          g # f => /\ <<g, p>> \in DOMAIN t <=> <<g, p>> \in DOMAIN tree
                   /\ <<g, p>> \in DOMAIN tree => t[<<g, p>>] = tree[<<g, p>>]

LEMMA SavedInLonger ==
    ASSUME TreeOK, NEW f \in Files, NEW k \in Nat,
           NEW path \in [0..k -> Blocks], NEW base \in [0..k -> Nat],
           IsSaved(tree, f, k, path, base), Exists(f),
           NEW size \in Nat, size # 0, NEW b \in Blocks, NEW t,
           t = tree \/ t = Put(tree, <<f, size>>, At(b, 1))
    PROVE  SavedLonger(t, f, k, Longer(k, path, b), Longer(k, base, size))
<1> DEFINE path2 == Longer(k, path, b)
           base2 == Longer(k, base, size)
<1>1. /\ \A i \in 0..k : i \in 0..k + 1 /\ path2[i] = path[i] /\ base2[i] = base[i]
      /\ path2[k + 1] = b /\ base2[k + 1] = size /\ k + 1 \in 0..k + 1 /\ 0 \in 0..k
  BY DEF Longer
<1> HIDE DEF path2, base2
<1>2. /\ tree[Beginning(f)] = At(path[0], 1)
      /\ \A p \in Nat : <<f, p>> \in DOMAIN tree =>
             \E i \in 0..k : p = base[i] /\ tree[<<f, p>>] = At(path[i], 1)
      /\ Beginning(f) \in DOMAIN tree
  BY DEF IsSaved, Exists
<1>3. CASE t = tree
  <2>1. ASSUME NEW p \in Nat, <<f, p>> \in DOMAIN tree
        PROVE  \E i \in 0..k + 1 : p = base2[i] /\ tree[<<f, p>>] = At(path2[i], 1)
    <3>1. PICK i \in 0..k : p = base[i] /\ tree[<<f, p>>] = At(path[i], 1)
      BY <1>2, <2>1
    <3> QED BY <1>1, <3>1
  <2>2. IsSaved(t, f, k + 1, path2, base2)
    BY <1>1, <1>2, <1>3, <2>1 DEF IsSaved
  <2> QED BY <1>2, <1>3, <2>2 DEF path2, base2, SavedLonger
<1>4. CASE t = Put(tree, <<f, size>>, At(b, 1))
  <2>1. /\ DOMAIN t = DOMAIN tree \cup {<<f, size>>}
        /\ t[<<f, size>>] = At(b, 1)
        /\ \A key \in DOMAIN tree : key # <<f, size>> => t[key] = tree[key]
    BY <1>4 DEF Put
  <2>2. Beginning(f) # <<f, size>>
    BY DEF Beginning
  <2>3. ASSUME NEW p \in Nat, <<f, p>> \in DOMAIN t
        PROVE  \E i \in 0..k + 1 : p = base2[i] /\ t[<<f, p>>] = At(path2[i], 1)
    <3>1. CASE p = size
      BY <1>1, <2>1, <3>1
    <3>2. CASE p # size
      <4>1. <<f, p>> \in DOMAIN tree /\ t[<<f, p>>] = tree[<<f, p>>]
        BY <2>1, <2>3, <3>2
      <4>2. PICK i \in 0..k : p = base[i] /\ tree[<<f, p>>] = At(path[i], 1)
        BY <1>2, <4>1
      <4> QED BY <1>1, <4>1, <4>2
    <3> QED BY <3>1, <3>2
  <2>4. t[Beginning(f)] = At(path2[0], 1) /\ Beginning(f) \in DOMAIN t
    BY <1>1, <1>2, <2>1, <2>2
  <2>5. IsSaved(t, f, k + 1, path2, base2)
    BY <2>3, <2>4 DEF IsSaved
  <2>6. ASSUME NEW g \in Files, NEW p \in Nat, g # f
        PROVE  /\ <<g, p>> \in DOMAIN t <=> <<g, p>> \in DOMAIN tree
               /\ <<g, p>> \in DOMAIN tree => t[<<g, p>>] = tree[<<g, p>>]
    <3>1. <<g, p>> # <<f, size>>
      BY <2>6
    <3> QED BY <2>1, <3>1
  <2> QED BY <2>4, <2>5, <2>6 DEF path2, base2, SavedLonger
<1> QED BY <1>3, <1>4

OwnedLonger(owner2, owner, b, f, k, path) ==
    /\ InOrder(b + 1, k + 1, path)
    /\ \A i \in 0..k + 1 : owner2[path[i]] = f
    /\ owner2 \in [Blocks -> Nat]
    /\ \A c \in Blocks : c # b => owner2[c] = owner[c]

LEMMA OwnersInLonger ==
    ASSUME NEW owner \in [Blocks -> Nat], NEW nx \in Blocks, NEW f \in Files,
           NEW k \in Nat, NEW path \in [0..k -> Blocks], InOrder(nx, k, path),
           \A i \in 0..k : owner[path[i]] = f
    PROVE  OwnedLonger([owner EXCEPT ![nx] = f], owner, nx, f, k, Longer(k, path, nx))
<1> DEFINE owner2 == [owner EXCEPT ![nx] = f]
           path2 == Longer(k, path, nx)
<1>1. /\ \A i \in 0..k : path2[i] = path[i] /\ path[i] \in Nat
      /\ path2[k + 1] = nx /\ nx \in Nat /\ \A i \in 0..k + 1 : i \in 0..k \/ i = k + 1
  BY Geometry DEF Longer
<1>2. \A i \in 0..k : path[i] < nx /\ path[i] # nx
  <2>1. nx \in Nat
    BY Geometry
  <2> HIDE DEF path2, owner2
  <2> QED BY <2>1, BlocksInUse
<1>3. /\ owner2 \in [Blocks -> Nat] /\ owner2[nx] = f
      /\ \A b \in Blocks : b # nx => owner2[b] = owner[b]
  BY Geometry
<1> HIDE DEF path2, owner2
<1>4. InOrder(nx + 1, k + 1, path2)
  <2>1. ASSUME NEW i \in 0..k + 1, NEW j \in 0..k + 1, i < j PROVE path2[i] < path2[j]
    <3>1. i \in 0..k
      BY <2>1
    <3>2. CASE j \in 0..k
      BY <1>1, <2>1, <3>1, <3>2 DEF InOrder
    <3>3. CASE j = k + 1
      BY <1>1, <1>2, <3>1, <3>3
    <3> QED BY <1>1, <3>2, <3>3
  <2>2. path2[k + 1] < nx + 1 /\ k + 1 < nx + 1
    BY <1>1 DEF InOrder
  <2> QED BY <2>1, <2>2 DEF InOrder
<1>5. \A i \in 0..k + 1 : owner2[path2[i]] = f
  BY <1>1, <1>2, <1>3
<1> QED BY <1>3, <1>4, <1>5 DEF path2, owner2, OwnedLonger

LEMMA FlushedAtTail ==
    ASSUME TypeOK, NEW o, NEW f, NEW owner, NEW k, NEW path, NEW base, NEW m,
           WriterAt(o, f, owner, k, path, base, m), o.buffer # <<>>, IsTail(o.head),
           next \in Blocks
    PROVE  Settles(Flushed(o, Now(o)), f, owner, written[f], written[f])
<1> DEFINE s == Flushed(o, Now(o))
           b == path[k]
           saves == o.since + 1 = PositionSaveFrequency
           size == written[f]
           sec == [data |-> o.buffer, link |-> next, inBlock |-> o.inBlock]
           d2 == [[disk EXCEPT ![b][TailSector] = sec] EXCEPT ![next] = BlankBlock]
           owner2 == [owner EXCEPT ![next] = f]
           path2 == Longer(k, path, next)
           base2 == Longer(k, base, size)
<1>1. o \in Handled /\ o.file = f /\ ~o.readonly /\ owner \in [Blocks -> Nat]
  BY DEF WriterAt
<1>2. WroteTail(s, o, saves)
  BY <1>1, TailFlushed
<1> HIDE DEF s, saves
<1>3. /\ m \in Nat /\ m + 1 = TailSector /\ TailSector \in Sectors /\ 1 \in Sectors
      /\ k \in Nat /\ k \in 0..k /\ k + 1 \in Nat /\ 0 \in 0..TailSector - 1
      /\ path \in [0..k -> Blocks] /\ base \in [0..k -> Nat]
  <2>1. o.head.sector = m + 1 /\ IsFileOn(disk, k, path, base, m)
    BY WriterIs
  <2>2. m + 1 = TailSector
    BY <2>1 DEF IsTail
  <2> QED BY <2>1, <2>2, Geometry DEF IsFileOn
<1>4. /\ b \in Blocks /\ disk \in Device /\ next \in Nat /\ size \in Nat /\ b # next
      /\ sec \in [data : Seq(Int), link : Int, inBlock : Int]
      /\ BlankBlock \in [Sectors -> [data : Seq(Int), link : Int, inBlock : Int]]
  <2>1. b \in Blocks /\ b < next /\ o.buffer \in Seq(Int) /\ size \in Nat /\ o.inBlock \in Int
    BY <1>1, WriterIs DEF Handled
  <2>2. b \in Nat /\ next \in Int
    BY <2>1, Geometry
  <2>3. BlankBlock \in [Sectors -> [data : Seq(Int), link : Int, inBlock : Int]]
    BY Geometry DEF BlankBlock, Unwritten, Sectors
  <2> HIDE DEF b
  <2> QED BY <2>1, <2>2, <2>3 DEF TypeOK
<1>5. d2 \in Device
  <2> HIDE DEF b, sec
  <2> QED BY <1>3, <1>4 DEF Device
<1>6. /\ \A c \in Blocks : c # b /\ c # next => d2[c] = disk[c]
      /\ \A x \in Sectors : x # TailSector => d2[b][x] = disk[b][x]
      /\ d2[b][TailSector] = sec /\ d2[next] = BlankBlock
  <2> HIDE DEF b, sec
  <2> QED BY <1>3, <1>4 DEF Device
<1>7. /\ d2[b][TailSector].data = o.buffer /\ d2[b][TailSector].link = next
      /\ d2[b][TailSector].inBlock = o.inBlock
  BY <1>6
<1> HIDE DEF d2, sec
<1>8. InOrder(next, k, path) /\ \A i \in 0..k : owner[path[i]] = f
  BY WriterIs DEF IsStored
<1>9. \A i \in 0..k : path[i] \in Blocks /\ path[i] # next /\ (i # k => path[i] # b)
  BY <1>3, <1>4, <1>8, BlocksInUse
<1>10. GrowsAt(disk, d2, k, path, m)
  <2>1. \A i \in 0..k : i # k => d2[path[i]] = disk[path[i]]
    BY <1>6, <1>9
  <2>2. ASSUME NEW x \in 1..m PROVE d2[b][x] = disk[b][x]
    BY <1>3, <1>6, Geometry
  <2> QED BY <2>1, <2>2 DEF GrowsAt
<1>11. IsRun(d2[path[k]][TailSector].data, Length(disk, k, path, base, m))
  BY <1>7 DEF WriterAt, Appending, IsRun
<1>12. IsLinked(d2, k, path2, base2, size)
  <2>1. /\ IsFileOn(disk, k, path, base, m)
        /\ size = Length(disk, k, path, base, m) + Len(d2[path[k]][TailSector].data)
        /\ d2[path[k]][TailSector].inBlock = size - base[k]
    BY <1>7, WriterIs
  <2>2. d2[path[k]][TailSector].link = next
    BY <1>7
  <2> HIDE DEF size
  <2> QED BY <1>3, <1>5, <1>6, <1>10, <1>11, <2>1, <2>2, ChainLinks
<1>13. size # 0
  <2>1. Len(o.buffer) > 0
    BY WriterIs
  <2> QED BY <1>4, <2>1, WriterIs
<1>14. SavedLonger(s.tree, f, k, path2, base2)
  <2>1. s.tree = tree \/ s.tree = Put(tree, <<f, size>>, At(next, 1))
    <3>1. o.length = size
      BY WriterIs
    <3> HIDE DEF size
    <3> QED BY <1>1, <1>2, <3>1 DEF WroteTail
  <2>2. TreeOK /\ f \in Files /\ Exists(f) /\ IsSaved(tree, f, k, path, base)
    BY WriterIs DEF TreeOK, TypeOK, Exists, IsStored
  <2> HIDE DEF size
  <2> QED BY <1>3, <1>4, <1>13, <2>1, <2>2, SavedInLonger
<1>15. OwnedLonger(owner2, owner, next, f, k, path2)
  <2>1. f \in Files
    BY WriterIs
  <2> QED BY <1>1, <1>3, <1>8, <2>1, OwnersInLonger
<1>16. path2 \in [0..k + 1 -> Blocks] /\ base2 \in [0..k + 1 -> Nat]
  <2>1. \A i \in 0..k + 1 : path2[i] \in Blocks /\ base2[i] \in Nat
    <3> HIDE DEF size
    <3> QED BY <1>3, <1>4 DEF Longer
  <2> QED BY <2>1 DEF Longer
<1>17. \A i \in 0..k : path2[i] = path[i] /\ base2[i] = base[i]
  <2> HIDE DEF size
  <2> QED BY <1>3 DEF Longer
<1>18. path2[k + 1] = next /\ base2[k + 1] = size
  BY <1>3 DEF Longer
<1> HIDE DEF owner2, path2, base2
<1>19. s.disk = d2 /\ s.next = next + 1
  <2>1. o.head.block = b
    BY WriterIs
  <2> QED BY <1>2, <2>1 DEF WroteTail, d2, sec
<1>20. IsStored(f, s.disk, s.tree, s.next, owner2, k + 1, path2, base2, 0, size)
  BY <1>12, <1>14, <1>15, <1>19 DEF IsStored, IsLinked, SavedLonger, OwnedLonger
<1>21. Readers(f, d2, k + 1, path2, base2, 0)
  <2> SUFFICES ASSUME NEW g \in DOMAIN open, open[g].file = f, open[g].readonly
               PROVE  Reading(open[g], d2, k + 1, path2, base2, 0)
    BY DEF Readers
  <2>1. open[g] \in Handled /\ Reading(open[g], disk, k, path, base, m)
    BY WriterIs DEF Readers, TypeOK
  <2>2. /\ IsFileOn(disk, k, path, base, m)
        /\ Length(disk, k, path, base, m) <= size
    BY WriterIs
  <2>3. k + 1 >= k /\ k + 1 # k
    BY <1>3
  <2> HIDE DEF size
  <2>4. Length(d2, k + 1, path2, base2, 0) = size
    BY <1>12 DEF IsLinked
  <2> QED BY <1>3, <1>4, <1>10, <1>17, <2>1, <2>2, <2>3, <2>4, ReadersStay
<1>22. /\ s.o \in Handled /\ s.o.file = f /\ ~s.o.readonly /\ s.o.buffer = <<>>
       /\ s.o.head = At(next, 1) /\ s.o.length = o.length /\ s.o.position = o.position
       /\ s.o.inBlock = 0
  <2>1. At(next, 1) \in Address
    BY <1>3 DEF At, Address
  <2>2. <<>> \in Seq(Int) /\ 0 \in Int
    OBVIOUS
  <2>3. (IF saves THEN 0 ELSE o.since + 1) \in Nat
    BY <1>1 DEF Handled
  <2>4. s.o = [o EXCEPT !.head = At(next, 1), !.inBlock = 0, !.buffer = <<>>,
                        !.since = IF saves THEN 0 ELSE o.since + 1]
    BY <1>2 DEF WroteTail
  <2> QED BY <1>1, <2>1, <2>2, <2>3, <2>4 DEF Handled
<1>23. Appending(s.o, d2, k + 1, path2, base2, 0, size)
  <2>1. 0 + 1 = 1 /\ Len(<<>>) = 0 /\ 1..0 = {} /\ size - size = 0 /\ size + 0 = size
    BY <1>4
  <2>2. o.length = size /\ o.position = size
    BY WriterIs
  <2> HIDE DEF size
  <2> QED BY <1>12, <1>18, <1>22, <2>1, <2>2 DEF Appending, IsLinked
<1>24. Settled(s, f, owner2, k + 1, path2, base2, 0, size, size)
  BY <1>3, <1>14, <1>16, <1>19, <1>20, <1>21, <1>23 DEF Settled, SavedLonger
<1>25. SettledType(s, f)
  <2>1. next + 1 \in Nat /\ next + 1 <= NumBlocks
    BY <1>4, Geometry
  <2>2. s.saved \in Nat
    BY <1>2, <2>1 DEF WroteTail, TypeOK
  <2>3. DOMAIN s.tree \subseteq Files \X Nat /\ s.tree \in [DOMAIN s.tree -> Address]
    <3>1. At(next, 1) \in Address
      BY <1>3 DEF At, Address
    <3>2. <<f, o.length>> \in Files \X Nat
      BY <1>4, WriterIs
    <3> QED BY <1>1, <1>2, <3>1, <3>2 DEF WroteTail, Put, TypeOK
  <2> QED BY <1>5, <1>19, <1>22, <2>1, <2>2, <2>3 DEF SettledType
<1>26. OnlyAppends(d2)
  <2>1. disk[b][TailSector] = Unwritten
    <3>1. IsFileOn(disk, k, path, base, m)
      BY WriterIs
    <3>2. Part(disk[b], base[k], m) /\ TailSector \in m + 1..TailSector
      BY <1>3, <3>1, BlocksOfChain, Geometry
    <3> QED BY <3>2 DEF Part
  <2> SUFFICES ASSUME NEW c \in Blocks, NEW x \in Sectors, c < next, disk[c][x] # Unwritten
               PROVE  d2[c][x] = disk[c][x]
    BY DEF OnlyAppends
  <2>2. c # next
    BY <1>4
  <2> QED BY <1>6, <2>1, <2>2
<1>27. LeavesOthers(f, d2, s.tree, next + 1, owner, owner2)
  <2>1. owner[b] = f
    BY <1>3, <1>8
  <2>2. next <= next + 1
    BY <1>4
  <2>3. ASSUME NEW c \in Blocks, c < next, owner[c] # f
        PROVE  d2[c] = disk[c] /\ owner2[c] = owner[c]
    <3>1. c # next /\ c # b
      BY <1>4, <2>1, <2>3
    <3> QED BY <1>6, <1>15, <3>1 DEF OwnedLonger
  <2> QED BY <1>14, <2>2, <2>3 DEF LeavesOthers, SavedLonger
<1>28. Settles(s, f, owner, size, size)
  BY <1>15, <1>19, <1>24, <1>25, <1>26, <1>27 DEF Settles, OwnedLonger
<1> QED BY <1>28 DEF s

LEMMA Flushes ==
    ASSUME TypeOK, NEW o, NEW f, NEW owner, NEW k, NEW path, NEW base, NEW m,
           WriterAt(o, f, owner, k, path, base, m), o.buffer # <<>>, FlushFits(o)
    PROVE  Settles(Flushed(o, Now(o)), f, owner, written[f], written[f])
<1>1. CASE IsTail(o.head)
  BY <1>1, FlushedAtTail DEF FlushFits
<1>2. CASE ~IsTail(o.head)
  BY <1>2, FlushedInBlock
<1> QED BY <1>1, <1>2

(* A step that is about the file f. *)
LEMMA FileStep ==
    ASSUME TypeOK, AllFlushed, NEW owner, FilesAre(owner), NEW f, NEW owner2,
           TypeOK', OneWriter',
           LeavesOthers(f, disk', tree', next', owner, owner2),
           \A g \in Files : g # f => /\ SameObjects(g)
                                     /\ written'[g] = written[g] /\ flushed'[g] = flushed[g]
                                     /\ Writing(g) => Writing(g)',
           f \in Files => /\ FileOK(f, owner2)' /\ flushed'[f] <= written'[f]
                          /\ ~Writing(f)' => written'[f] = flushed'[f]
    PROVE  FilesKept(owner2)
<1>1. AllFlushed'
  <2> SUFFICES ASSUME NEW g \in Files
               PROVE  /\ flushed'[g] <= written'[g]
                      /\ ~Writing(g)' => written'[g] = flushed'[g]
    BY DEF AllFlushed
  <2>1. CASE g = f
    BY <2>1
  <2>2. CASE g # f
    BY <2>2 DEF AllFlushed
  <2> QED BY <2>1, <2>2
<1>2. ASSUME NEW g \in Files PROVE FileOK(g, owner2)'
  <2>1. CASE g = f
    BY <2>1
  <2>2. CASE g # f
    <3>1. FileOK(g, owner) /\ next' \in Nat
      BY DEF FilesAre, TypeOK
    <3> QED BY <2>2, <3>1, OtherFile
  <2> QED BY <2>1, <2>2
<1> QED BY <1>1, <1>2 DEF FilesAre, FilesKept

(* The file that is written, after a step: its objects read, but for the    *)
(* one that writes.                                                         *)
LEMMA SettledFile ==
    ASSUME NEW s, NEW f, NEW owner, NEW k, NEW path, NEW base, NEW m, NEW size,
           Settled(s, f, owner, k, path, base, m, flushed'[f], size),
           disk' = s.disk, tree' = s.tree, next' = s.next,
           \A x \in DOMAIN open' : open'[x].file = f =>
               \/ x \in DOMAIN open /\ open'[x] = open[x] /\ open[x].readonly
               \/ ~open'[x].readonly
                  /\ Appending(open'[x], s.disk, k, path, base, m, written'[f])
    PROVE  FileOK(f, owner)'
<1>1. /\ k \in Nat /\ m \in 0..TailSector - 1
      /\ path \in [0..k -> Blocks] /\ base \in [0..k -> Nat]
      /\ Exists(f)'
      /\ IsStored(f, disk', tree', next', owner, k, path, base, m, flushed'[f])
      /\ Readers(f, disk', k, path, base, m)
  BY DEF Settled, Exists
<1>2. ASSUME NEW x \in DOMAIN open', open'[x].file = f
      PROVE  Serves(open'[x], disk', k, path, base, m, written'[f])
  BY <1>1, <1>2 DEF Serves, Readers
<1>3. FileIs(f, owner, k, path, base, m)'
  BY <1>1, <1>2 DEF FileIs
<1> QED BY <1>1, <1>3 DEF FileOK

(* The object that writes a file. *)
LEMMA WriterOf ==
    ASSUME TypeOK, NEW owner \in [Blocks -> Nat], FilesAre(owner),
           NEW h \in DOMAIN open, ~open[h].readonly
    PROVE  \E k, path, base, m : WriterAt(open[h], open[h].file, owner, k, path, base, m)
<1> DEFINE o == open[h]
<1>1. o \in Handled /\ ServesFile(o, owner)
  BY HandleHasFile
<1> HIDE DEF o
<1>2. PICK k \in Nat, m \in 0..TailSector - 1 :
             \E path \in [0..k -> Blocks], base \in [0..k -> Nat] :
                 /\ IsFile(o.file, owner, k, path, base, m)
                 /\ Serves(o, disk, k, path, base, m, written[o.file])
  BY <1>1 DEF ServesFile
<1>3. PICK path \in [0..k -> Blocks], base \in [0..k -> Nat] :
                 /\ IsFile(o.file, owner, k, path, base, m)
                 /\ Serves(o, disk, k, path, base, m, written[o.file])
  BY <1>2
<1>4. Appending(o, disk, k, path, base, m, written[o.file])
  BY <1>3 DEF Serves, o
<1>5. WriterAt(o, o.file, owner, k, path, base, m)
  BY <1>1, <1>3, <1>4 DEF WriterAt, o
<1> QED BY <1>5 DEF o

(* One byte more in the buffer. *)
Wrote(o, size) ==
    [o EXCEPT !.buffer = Append(@, size), !.length = @ + 1, !.position = @ + 1, !.inBlock = @ + 1]

LEMMA AppendsOne ==
    ASSUME NEW o \in Handled, ~o.readonly, NEW d, NEW k, NEW path, NEW base, NEW m, NEW size \in Nat,
           base[k] \in Nat, Length(d, k, path, base, m) \in Nat,
           Appending(o, d, k, path, base, m, size)
    PROVE  /\ Wrote(o, size) \in Handled /\ Wrote(o, size).file = o.file
           /\ ~Wrote(o, size).readonly
           /\ Appending(Wrote(o, size), d, k, path, base, m, size + 1)
<1> DEFINE new == Wrote(o, size)
           length == Length(d, k, path, base, m)
<1>1. /\ o.length = size /\ o.position = size /\ o.inBlock = size - base[k]
      /\ o.head = At(path[k], m + 1) /\ length + Len(o.buffer) = size
      /\ \A j \in 1..Len(o.buffer) : o.buffer[j] = length + j - 1
      /\ o.buffer \in Seq(Int) /\ Len(o.buffer) \in Nat
  BY DEF Appending, Handled
<1>2. /\ Append(o.buffer, size) \in Seq(Int)
      /\ Len(Append(o.buffer, size)) = Len(o.buffer) + 1
      /\ Append(o.buffer, size)[Len(o.buffer) + 1] = size
      /\ \A j \in 1..Len(o.buffer) : Append(o.buffer, size)[j] = o.buffer[j]
  <2>1. size \in Int
    OBVIOUS
  <2> QED BY <1>1, <2>1
<1>3. /\ new \in Handled /\ new.file = o.file /\ new.readonly = o.readonly
      /\ new.head = o.head /\ new.buffer = Append(o.buffer, size)
      /\ new.length = o.length + 1 /\ new.position = o.position + 1
      /\ new.inBlock = o.inBlock + 1
  <2>1. o.length + 1 \in Nat /\ o.position + 1 \in Nat /\ o.inBlock + 1 \in Int
    <3>1. o.length \in Nat /\ o.position \in Nat /\ o.inBlock \in Int
      BY DEF Handled
    <3> QED BY <3>1
  <2> QED BY <1>2, <2>1 DEF Handled, Wrote
<1> HIDE DEF new, length
<1>4. /\ length \in Nat /\ base[k] \in Nat
      /\ (size - base[k]) + 1 = (size + 1) - base[k]
  BY DEF length
<1>5. ASSUME NEW j \in 1..Len(new.buffer) PROVE new.buffer[j] = length + j - 1
  <2>1. j \in 1..Len(o.buffer) \/ j = Len(o.buffer) + 1
    BY <1>1, <1>2, <1>3
  <2>2. CASE j \in 1..Len(o.buffer)
    BY <1>1, <1>2, <1>3, <2>2 DEF length
  <2>3. CASE j = Len(o.buffer) + 1
    <3>1. new.buffer[j] = size
      BY <1>2, <1>3, <2>3
    <3>2. length + Len(o.buffer) = size /\ length \in Nat /\ Len(o.buffer) \in Nat
      BY <1>1, <1>4 DEF length
    <3>3. \A x, y \in Nat : x + (y + 1) - 1 = x + y
      OBVIOUS
    <3>4. length + (Len(o.buffer) + 1) - 1 = size
      BY <3>2, <3>3
    <3> QED BY <2>3, <3>1, <3>4
  <2> QED BY <2>1, <2>2, <2>3
<1>6. length + Len(new.buffer) = size + 1
  <2>1. Len(new.buffer) = Len(o.buffer) + 1 /\ length + Len(o.buffer) = size
    BY <1>1, <1>2, <1>3 DEF length
  <2>2. Len(o.buffer) \in Nat /\ length \in Nat
    BY <1>1, <1>4
  <2>3. \A x, y \in Nat : x + (y + 1) = (x + y) + 1
    OBVIOUS
  <2> QED BY <2>1, <2>2, <2>3
<1>7. Appending(new, d, k, path, base, m, size + 1)
  BY <1>1, <1>3, <1>4, <1>5, <1>6 DEF Appending, length
<1> QED BY <1>3, <1>7 DEF new

LEMMA WriteByteKeeps ==
    ASSUME FilesInv, NEW h, WriteByte(h)
    PROVE  FilesInv' /\ OnlyAppends(disk')
<1>1. TypeOK /\ OneWriter /\ AllFlushed
  BY OwnersAre
<1>2. PICK owner \in [Blocks -> Nat] : FilesAre(owner)
  BY OwnersAre
<1>0. PICK f : f = open[h].file
  OBVIOUS
<1> DEFINE o == open[h]
           full == Len(o.buffer) = Capacity(o.head)
           s == IF full THEN Flushed(o, Now(o)) ELSE Now(o)
           new == Wrote(s.o, written[f])
<1>3. /\ h \in DOMAIN open /\ ~o.readonly /\ result' = NoResult
      /\ full => FlushFits(o)
      /\ disk' = s.disk /\ tree' = s.tree /\ next' = s.next /\ saved' = s.saved
      /\ open' = [open EXCEPT ![h] = new]
      /\ written' = [written EXCEPT ![f] = @ + 1]
      /\ flushed' = IF full THEN [flushed EXCEPT ![f] = written[f]] ELSE flushed
  BY <1>0 DEF WriteByte, CanWrite, Wrote
<1>4. \A g \in Files : written[f] + (IF g = f THEN 0 ELSE written[g]) < MaxBytes
  BY <1>0 DEF WriteByte
<1>5. PICK k, path, base, m : WriterAt(o, f, owner, k, path, base, m)
  <2>1. h \in DOMAIN open /\ ~open[h].readonly
    BY <1>3
  <2> QED BY <1>0, <1>1, <1>2, <2>1, WriterOf
<1> HIDE DEF o
<1>6. /\ f \in Files /\ written[f] \in Nat /\ flushed[f] \in Nat /\ o.head.sector \in Sectors
      /\ o.buffer \in Seq(Int) /\ flushed[f] + Len(o.buffer) = written[f]
      /\ h \in Handles
  BY <1>1, <1>3, <1>5, WriterIs DEF WriterAt, Handled, Address, TypeOK
<1>7. full => o.buffer # <<>>
  <2>1. Capacity(o.head) > 0
    BY FileAssumption DEF Capacity
  <2> QED BY <2>1
<1>8. Settles(s, f, owner, flushed'[f], written[f])
  <2>1. CASE full
    <3>1. flushed'[f] = written[f]
      BY <1>1, <1>3, <1>6, <2>1 DEF TypeOK
    <3>2. FlushFits(o) /\ o.buffer # <<>>
      BY <1>3, <1>7, <2>1
    <3>3. Settles(Flushed(o, Now(o)), f, owner, written[f], written[f])
      BY <1>1, <1>5, <3>2, Flushes
    <3> QED BY <2>1, <3>1, <3>3
  <2>2. CASE ~full
    <3>1. Settles(Now(o), f, owner, flushed[f], written[f])
      BY <1>1, <1>5, NotFlushed
    <3> QED BY <1>3, <2>2, <3>1
  <2> QED BY <2>1, <2>2
<1> HIDE DEF s, full
<1>9. SettledType(s, f) /\ OnlyAppends(s.disk)
  BY <1>8 DEF Settles
<1>10. PICK owner2 \in [Blocks -> Nat] :
          /\ LeavesOthers(f, s.disk, s.tree, s.next, owner, owner2)
          /\ \E k2, path2, base2, m2 :
                Settled(s, f, owner2, k2, path2, base2, m2, flushed'[f], written[f])
  BY <1>8 DEF Settles
<1>11. PICK k2, path2, base2, m2 :
          Settled(s, f, owner2, k2, path2, base2, m2, flushed'[f], written[f])
  BY <1>10
<1>12. flushed' \in [Files -> Nat] /\ flushed'[f] \in Nat /\ flushed'[f] <= written[f]
       /\ written'[f] = written[f] + 1 /\ written' \in [Files -> 0..MaxBytes]
  <2>1. written[f] + 1 \in 0..MaxBytes
    <3>1. written[f] < MaxBytes
      BY <1>4, <1>6
    <3> QED BY <1>6, <3>1, Geometry
  <2>2. flushed[f] <= written[f]
    BY <1>1, <1>6 DEF AllFlushed
  <2>3. written \in [Files -> 0..MaxBytes] /\ flushed \in [Files -> Nat]
    BY <1>1 DEF TypeOK
  <2>4. written'[f] = written[f] + 1 /\ written' \in [Files -> 0..MaxBytes]
    BY <1>3, <1>6, <2>1, <2>3
  <2>5. flushed' \in [Files -> Nat] /\ (flushed'[f] = flushed[f] \/ flushed'[f] = written[f])
    BY <1>3, <1>6, <2>3
  <2> QED BY <1>6, <2>2, <2>4, <2>5
<1>13. /\ new \in Handled /\ new.file = f /\ ~new.readonly
       /\ Appending(new, s.disk, k2, path2, base2, m2, written'[f])
  <2>1. s.o \in Handled /\ s.o.file = f /\ ~s.o.readonly
    BY <1>9 DEF SettledType
  <2>2. /\ Appending(s.o, s.disk, k2, path2, base2, m2, written[f])
        /\ Length(s.disk, k2, path2, base2, m2) = flushed'[f]
        /\ base2[k2] \in Nat
    BY <1>11 DEF Settled, IsStored
  <2>3. Length(s.disk, k2, path2, base2, m2) \in Nat
    BY <1>12, <2>2
  <2>4. /\ new \in Handled /\ new.file = s.o.file /\ ~new.readonly
        /\ Appending(new, s.disk, k2, path2, base2, m2, written[f] + 1)
    BY <1>6, <2>1, <2>2, <2>3, AppendsOne
  <2> QED BY <1>12, <2>1, <2>4
<1> HIDE DEF new
<1>14. OpenedIs(h, new) /\ FitsIn(h, new)
  <2>1. h \in DOMAIN open /\ new.file = open[h].file /\ new.readonly = open[h].readonly
    BY <1>0, <1>1, <1>3, <1>13 DEF o, TypeOK, Handled
  <2> QED BY <1>3, <2>1, Replaced
<1>15. /\ DOMAIN open' \subseteq Handles /\ open' \in [DOMAIN open' -> Handled] /\ OneWriter'
       /\ \A g : Writing(g) => Writing(g)'
       /\ \A g : g # f => SameObjects(g)
       /\ h \in DOMAIN open' /\ open'[h] = new
       /\ \A x \in DOMAIN open' : x # h => x \in DOMAIN open /\ open'[x] = open[x]
  BY <1>1, <1>6, <1>13, <1>14, OpenedKeeps
<1>16. TypeOK'
  BY <1>3, <1>9, <1>12, <1>15 DEF TypeOK, SettledType
<1>17. FileOK(f, owner2)'
  <2>1. ASSUME NEW x \in DOMAIN open', open'[x].file = f
        PROVE  \/ x \in DOMAIN open /\ open'[x] = open[x] /\ open[x].readonly
               \/ ~open'[x].readonly
                  /\ Appending(open'[x], s.disk, k2, path2, base2, m2, written'[f])
    <3>1. CASE x = h
      BY <1>13, <1>15, <3>1
    <3>2. CASE x # h
      <4>1. x \in DOMAIN open' /\ x \in DOMAIN open /\ open'[x] = open[x]
        BY <1>15, <3>2
      <4>2. open[x].readonly
        <5>1. open[h].file = f /\ ~open[h].readonly /\ h \in DOMAIN open
          BY <1>0, <1>3 DEF o
        <5> QED BY <1>1, <2>1, <3>2, <4>1, <5>1 DEF OneWriter
      <4> QED BY <4>1, <4>2
    <3> QED BY <3>1, <3>2
  <2> QED BY <1>3, <1>11, <2>1, SettledFile
<1>18. FilesKept(owner2)
  <2>1. LeavesOthers(f, disk', tree', next', owner, owner2)
    BY <1>3, <1>10
  <2>2. ASSUME NEW g \in Files, g # f
        PROVE  /\ SameObjects(g) /\ written'[g] = written[g] /\ flushed'[g] = flushed[g]
               /\ Writing(g) => Writing(g)'
    BY <1>3, <1>15, <2>2
  <2>3. flushed'[f] <= written'[f]
    BY <1>6, <1>12
  <2>4. Writing(f)'
    <3>1. h \in DOMAIN open' /\ open'[h].file = f /\ ~open'[h].readonly
      BY <1>13, <1>15
    <3> QED BY <3>1 DEF Writing
  <2> QED BY <1>1, <1>2, <1>15, <1>16, <1>17, <2>1, <2>2, <2>3, <2>4, FileStep
<1>19. FilesInv'
  BY <1>3, <1>18, FilesInvAfter, NothingIsRead
<1> QED BY <1>3, <1>9, <1>19

-----------------------------------------------------------------------------
(* close(): an object less.                                                 *)

ClosedIs(h) == open' = [x \in DOMAIN open \ {h} |-> open[x]]

LEMMA ClosedKeeps ==
    ASSUME TypeOK, OneWriter, NEW h, ClosedIs(h)
    PROVE  /\ DOMAIN open' \subseteq Handles /\ open' \in [DOMAIN open' -> Handled]
           /\ OneWriter'
           /\ \A x \in DOMAIN open' : x # h /\ x \in DOMAIN open /\ open'[x] = open[x]
           /\ \A g : \/ h \in DOMAIN open /\ open[h].file = g
                     \/ Writing(g) => Writing(g)'
           /\ \A g : SameObjects(g)
<1>1. /\ DOMAIN open' = DOMAIN open \ {h}
      /\ \A x \in DOMAIN open' : x # h /\ x \in DOMAIN open /\ open'[x] = open[x]
  BY DEF ClosedIs
<1>2. DOMAIN open' \subseteq Handles /\ open' \in [DOMAIN open' -> Handled]
  <2>1. DOMAIN open \subseteq Handles /\ \A x \in DOMAIN open : open[x] \in Handled
    BY DEF TypeOK
  <2>2. \A x \in DOMAIN open' : open'[x] \in Handled
    BY <1>1, <2>1
  <2>3. open' = [x \in DOMAIN open' |-> open'[x]]
    BY DEF ClosedIs
  <2> QED BY <1>1, <2>1, <2>2, <2>3
<1>3. OneWriter'
  BY <1>1 DEF OneWriter
<1>4. ASSUME NEW g, ~(h \in DOMAIN open /\ open[h].file = g), Writing(g) PROVE Writing(g)'
  <2>1. PICK x \in DOMAIN open : open[x].file = g /\ ~open[x].readonly
    BY <1>4 DEF Writing
  <2>2. x \in DOMAIN open' /\ open'[x] = open[x]
    BY <1>1, <1>4, <2>1
  <2> QED BY <2>1, <2>2 DEF Writing
<1>5. \A g : SameObjects(g)
  BY <1>1 DEF SameObjects
<1> QED BY <1>1, <1>2, <1>3, <1>4, <1>5

(* A writer whose buffer is empty, or a reader: nothing is flushed.         *)
LEMMA CloseOnly ==
    ASSUME FilesInv, NEW h \in DOMAIN open, ClosedIs(h),
           UNCHANGED <<disk, tree, next, saved, written, flushed>>,
           open[h].readonly \/ open[h].buffer = <<>>, result' = NoResult
    PROVE  FilesInv'
<1>1. TypeOK /\ OneWriter /\ AllFlushed
  BY OwnersAre
<1>2. PICK owner \in [Blocks -> Nat] : FilesAre(owner)
  BY OwnersAre
<1>3. TypeOK' /\ OneWriter'
  <2>1. DOMAIN open' \subseteq Handles /\ open' \in [DOMAIN open' -> Handled] /\ OneWriter'
    BY <1>1, ClosedKeeps
  <2> QED BY <1>1, <2>1 DEF TypeOK
<1>4. AllFlushed'
  <2> SUFFICES ASSUME NEW g \in Files, ~Writing(g)' PROVE written[g] = flushed[g]
    BY <1>1 DEF AllFlushed
  <2>1. CASE open[h].file # g
    BY <1>1, <2>1, ClosedKeeps DEF AllFlushed
  <2>2. CASE open[h].file = g /\ ~open[h].readonly
    <3>1. PICK k, path, base, m : WriterAt(open[h], g, owner, k, path, base, m)
      BY <1>1, <1>2, <2>2, WriterOf
    <3>2. flushed[g] + Len(open[h].buffer) = written[g] /\ flushed[g] \in Nat
      BY <1>1, <3>1, WriterIs
    <3>3. Len(open[h].buffer) = 0
      BY <2>2
    <3> QED BY <3>2, <3>3
  <2>3. CASE open[h].file = g /\ open[h].readonly
    <3>1. ASSUME Writing(g) PROVE FALSE
      <4>1. PICK x \in DOMAIN open : open[x].file = g /\ ~open[x].readonly
        BY <3>1 DEF Writing
      <4>2. x # h
        BY <2>3, <4>1
      <4>3. x \in DOMAIN open' /\ open'[x] = open[x]
        BY <4>1, <4>2 DEF ClosedIs
      <4>4. Writing(g)'
        BY <4>1, <4>3 DEF Writing
      <4> QED BY <4>4
    <3> QED BY <1>1, <3>1 DEF AllFlushed
  <2> QED BY <2>1, <2>2, <2>3
<1>5. ASSUME NEW g \in Files PROVE FileOK(g, owner)'
  <2>1. FileOK(g, owner) /\ g # NoBlock /\ SameObjects(g) /\ next' \in Nat
    BY <1>1, <1>2, <1>3, ClosedKeeps, Geometry DEF FilesAre, TypeOK
  <2>2. LeavesOthers(NoBlock, disk', tree', next', owner, owner)
    <3>1. next \in Nat
      BY <1>1 DEF TypeOK
    <3> QED BY <3>1 DEF LeavesOthers
  <2> QED BY <1>1, <2>1, <2>2, OtherFile
<1>6. FilesKept(owner)
  BY <1>3, <1>4, <1>5 DEF FilesKept, FilesAre
<1> QED BY <1>6, FilesInvAfter, NothingIsRead

LEMMA CloseKeeps ==
    ASSUME FilesInv, NEW h, Close(h)
    PROVE  FilesInv' /\ OnlyAppends(disk')
<1>1. TypeOK /\ OneWriter /\ AllFlushed
  BY OwnersAre
<1>2. PICK owner \in [Blocks -> Nat] : FilesAre(owner)
  BY OwnersAre
<1>0. PICK f : f = open[h].file
  OBVIOUS
<1> DEFINE o == open[h]
           flushes == ~o.readonly /\ o.buffer # <<>>
           s == IF flushes THEN Flushed(o, Now(o)) ELSE Now(o)
<1>3. /\ h \in DOMAIN open /\ result' = NoResult /\ ClosedIs(h)
      /\ flushes => FlushFits(o)
      /\ disk' = s.disk /\ tree' = s.tree /\ next' = s.next /\ saved' = s.saved
      /\ flushed' = IF flushes THEN [flushed EXCEPT ![f] = written[f]] ELSE flushed
      /\ written' = written
  BY <1>0 DEF Close, ClosedIs
<1>4. CASE ~flushes
  <2>1. UNCHANGED <<disk, tree, next, saved, written, flushed>>
    BY <1>3, <1>4 DEF Now
  <2>2. FilesInv'
    BY <1>3, <1>4, <2>1, CloseOnly
  <2> QED BY <2>1, <2>2 DEF OnlyAppends
<1>5. CASE flushes
  <2>1. PICK k, path, base, m : WriterAt(o, f, owner, k, path, base, m)
    BY <1>0, <1>1, <1>2, <1>3, <1>5, WriterOf
  <2> HIDE DEF o
  <2>2. f \in Files /\ written[f] \in Nat
    BY <1>1, <2>1, WriterIs
  <2>3. flushed' = [flushed EXCEPT ![f] = written[f]]
    BY <1>3, <1>5
  <2>4. flushed' \in [Files -> Nat] /\ flushed'[f] = written[f]
    BY <1>1, <2>2, <2>3 DEF TypeOK
  <2>5. Settles(s, f, owner, flushed'[f], written[f])
    <3>1. Settles(Flushed(o, Now(o)), f, owner, written[f], written[f])
      BY <1>1, <1>3, <1>5, <2>1, Flushes
    <3> QED BY <1>5, <2>4, <3>1
  <2> HIDE DEF s, flushes
  <2>6. SettledType(s, f) /\ OnlyAppends(s.disk)
    BY <2>5 DEF Settles
  <2>7. PICK owner2 \in [Blocks -> Nat] :
          /\ LeavesOthers(f, s.disk, s.tree, s.next, owner, owner2)
          /\ \E k2, path2, base2, m2 :
                Settled(s, f, owner2, k2, path2, base2, m2, flushed'[f], written[f])
    BY <2>5 DEF Settles
  <2>8. PICK k2, path2, base2, m2 :
          Settled(s, f, owner2, k2, path2, base2, m2, flushed'[f], written[f])
    BY <2>7
  <2>9. /\ DOMAIN open' \subseteq Handles /\ open' \in [DOMAIN open' -> Handled] /\ OneWriter'
        /\ \A x \in DOMAIN open' : x # h /\ x \in DOMAIN open /\ open'[x] = open[x]
        /\ \A g : \/ h \in DOMAIN open /\ open[h].file = g
                  \/ Writing(g) => Writing(g)'
        /\ \A g : SameObjects(g)
    BY <1>1, <1>3, ClosedKeeps
  <2>10. TypeOK'
    BY <1>1, <1>3, <2>4, <2>6, <2>9 DEF TypeOK, SettledType
  <2>11. FileOK(f, owner2)'
    <3>1. ASSUME NEW x \in DOMAIN open', open'[x].file = f
          PROVE  x \in DOMAIN open /\ open'[x] = open[x] /\ open[x].readonly
      <4>1. x # h /\ x \in DOMAIN open /\ open'[x] = open[x]
        BY <2>9
      <4>2. open[h].file = f /\ ~open[h].readonly /\ h \in DOMAIN open
        BY <1>0, <1>3, <1>5 DEF o, flushes
      <4> QED BY <1>1, <3>1, <4>1, <4>2 DEF OneWriter
    <3>2. \A x \in DOMAIN open' : open'[x].file = f =>
              \/ x \in DOMAIN open /\ open'[x] = open[x] /\ open[x].readonly
              \/ ~open'[x].readonly
                 /\ Appending(open'[x], s.disk, k2, path2, base2, m2, written'[f])
      BY <3>1
    <3> QED BY <1>3, <2>8, <3>2, SettledFile
  <2>12. FilesKept(owner2)
    <3>1. LeavesOthers(f, disk', tree', next', owner, owner2)
      BY <1>3, <2>7
    <3>2. ASSUME NEW g \in Files, g # f
          PROVE  /\ SameObjects(g) /\ written'[g] = written[g] /\ flushed'[g] = flushed[g]
                 /\ Writing(g) => Writing(g)'
      BY <1>0, <1>3, <2>3, <2>9, <3>2
    <3>3. flushed'[f] <= written'[f] /\ written'[f] = flushed'[f]
      BY <1>3, <2>2, <2>4
    <3> QED BY <1>1, <1>2, <2>9, <2>10, <2>11, <3>1, <3>2, <3>3, FileStep
  <2>13. FilesInv'
    BY <1>3, <2>12, FilesInvAfter, NothingIsRead
  <2> QED BY <1>3, <2>6, <2>13
<1> QED BY <1>4, <1>5

-----------------------------------------------------------------------------
(* A file is created: a block of its own.                                   *)

OneBlock(b) == [i \in 0..0 |-> b]

(* Not a file yet. *)
LEMMA SoughtNoFile ==
    ASSUME TypeOK, NEW owner, FilesAre(owner), NEW f \in Files, Sought(f, MaxPosition) = {}
    PROVE  NotThere(f)
<1>1. ~Exists(f)
  <2> SUFFICES ASSUME Exists(f) PROVE FALSE
    OBVIOUS
  <2>1. TreeOK /\ MaxPosition \in Nat /\ MaxPosition > 0
    BY Geometry DEF TypeOK, TreeOK
  <2> QED BY <2>1, SoughtIs
<1> QED BY <1>1 DEF FilesAre, FileOK

LEMMA CreatedChain ==
    ASSUME NEW d, NEW b \in Blocks, d[b] = BlankBlock
    PROVE  /\ IsChain(d, 0, OneBlock(b), OneBlock(0), 0)
           /\ Length(d, 0, OneBlock(b), OneBlock(0), 0) = 0
<1>1. OneBlock(b)[0] = b /\ OneBlock(0)[0] = 0
  BY DEF OneBlock
<1>2. Part(BlankBlock, 0, 0)
  BY DEF Part, WrittenTo, BlankBlock
<1> QED BY <1>1, <1>2 DEF IsChain, Length, Ends

LEMMA OpenToCreateKeeps ==
    ASSUME FilesInv, NEW h \in Handles, NEW f \in Files, OpenToCreate(h, f)
    PROVE  FilesInv' /\ OnlyAppends(disk')
<1>1. TypeOK /\ OneWriter /\ AllFlushed
  BY OwnersAre
<1>2. PICK owner \in [Blocks -> Nat] : FilesAre(owner)
  BY OwnersAre
<1>0. PICK b : b = next
  OBVIOUS
<1> DEFINE new == Handle(f, FALSE)
           o == [new EXCEPT !.head = At(next, 1)]
           owner2 == [owner EXCEPT ![b] = f]
           path == OneBlock(b)
           base == OneBlock(0)
<1>3. /\ h \in Handles \ DOMAIN open /\ result' = NoResult
      /\ Sought(f, MaxPosition) = {} /\ next \in Blocks
      /\ next' = next + 1 /\ saved' = next + 1
      /\ disk' = [disk EXCEPT ![next] = BlankBlock]
      /\ tree' = Put(tree, Beginning(f), At(next, 1))
      /\ open' = Put(open, h, o) /\ UNCHANGED <<written, flushed>>
  BY DEF OpenToCreate, BeginOpen, Allocate, Begun
<1>4. NotThere(f)
  BY <1>1, <1>2, <1>3, SoughtNoFile
<1>5. next \in Nat /\ next + 1 \in Nat /\ next + 1 <= NumBlocks /\ 0 \in Nat /\ 0..0 = {0}
  BY <1>3, Geometry
<1>6. At(next, 1) \in Address
  BY <1>3, Geometry DEF At, Address
<1>7. IsNew(new, f, FALSE)
  <2>1. FALSE \in BOOLEAN
    OBVIOUS
  <2> QED BY <2>1, HandleIs
<1> HIDE DEF new
<1>8. o \in Handled
  <2>1. FALSE \in BOOLEAN
    OBVIOUS
  <2> QED BY <1>6, <1>7, <2>1, NewIsHandled
<1>9. /\ o.file = f /\ ~o.readonly /\ o.head = At(next, 1) /\ o.length = 0 /\ o.position = 0
      /\ o.inBlock = 0 /\ o.buffer = <<>>
  BY <1>7 DEF IsNew
<1> HIDE DEF o
<1>10. OpenedIs(h, o)
  BY <1>3 DEF OpenedIs, Put
<1>11. FitsIn(h, o)
  BY <1>3, <1>4, <1>9 DEF FitsIn, NotThere, Writing
<1>12. /\ DOMAIN open' \subseteq Handles /\ open' \in [DOMAIN open' -> Handled] /\ OneWriter'
       /\ \A g : Writing(g) => Writing(g)'
       /\ \A g : g # f => SameObjects(g)
       /\ h \in DOMAIN open' /\ open'[h] = o
       /\ \A x \in DOMAIN open' : x # h => x \in DOMAIN open /\ open'[x] = open[x]
  BY <1>1, <1>8, <1>9, <1>10, <1>11, OpenedKeeps
<1>13. disk' \in Device /\ disk'[next] = BlankBlock
       /\ \A c \in Blocks : c # next => disk'[c] = disk[c]
  <2>1. BlankBlock \in [Sectors -> [data : Seq(Int), link : Int, inBlock : Int]]
    BY Geometry DEF BlankBlock, Unwritten, Sectors
  <2>2. disk \in Device
    BY <1>1 DEF TypeOK
  <2> QED BY <1>3, <2>1, <2>2 DEF Device
<1>14. /\ DOMAIN tree' = DOMAIN tree \cup {<<f, 0>>}
       /\ tree'[<<f, 0>>] = At(next, 1)
       /\ \A key \in DOMAIN tree : key # <<f, 0>> => tree'[key] = tree[key]
  BY <1>3 DEF Put, Beginning
<1>15. DOMAIN tree' \subseteq Files \X Nat /\ tree' \in [DOMAIN tree' -> Address]
  <2>1. DOMAIN tree \subseteq Files \X Nat /\ \A key \in DOMAIN tree : tree[key] \in Address
    BY <1>1 DEF TypeOK
  <2>2. <<f, 0>> \in Files \X Nat
    OBVIOUS
  <2>3. \A key \in DOMAIN tree' : tree'[key] \in Address
    BY <1>6, <1>14, <2>1
  <2>4. tree' = [key \in DOMAIN tree' |-> tree'[key]]
    BY <1>3 DEF Put
  <2> QED BY <1>14, <2>1, <2>2, <2>3, <2>4
<1>16. TypeOK'
  BY <1>1, <1>3, <1>5, <1>12, <1>13, <1>15 DEF TypeOK
<1>17. LeavesOthers(f, disk', tree', next', owner, owner2)
  <2>1. \A c \in Blocks : c < next => c # next /\ owner2[c] = owner[c]
    BY <1>0, <1>5
  <2>2. next <= next'
    BY <1>3, <1>5
  <2>3. ASSUME NEW g \in Files, NEW p \in Nat, g # f
        PROVE  /\ <<g, p>> \in DOMAIN tree' <=> <<g, p>> \in DOMAIN tree
               /\ <<g, p>> \in DOMAIN tree => tree'[<<g, p>>] = tree[<<g, p>>]
    <3>1. <<g, p>> # <<f, 0>>
      BY <2>3
    <3> QED BY <1>14, <3>1
  <2> QED BY <1>13, <2>1, <2>2, <2>3 DEF LeavesOthers
<1>18. path \in [0..0 -> Blocks] /\ base \in [0..0 -> Nat] /\ path[0] = next /\ base[0] = 0
  BY <1>0, <1>3, <1>5 DEF OneBlock
<1>19. owner2 \in [Blocks -> Nat] /\ owner2[next] = f
  BY <1>0, <1>3, Geometry
<1>20. /\ IsChain(disk', 0, path, base, 0)
       /\ Length(disk', 0, path, base, 0) = 0
  BY <1>0, <1>3, <1>13, CreatedChain
<1> HIDE DEF path, base, owner2
<1>21. IsStored(f, disk', tree', next', owner2, 0, path, base, 0, flushed'[f])
  <2>1. flushed'[f] = 0
    BY <1>3, <1>4 DEF NotThere
  <2>2. InOrder(next', 0, path)
    BY <1>3, <1>5, <1>18 DEF InOrder
  <2>3. \A i \in 0..0 : owner2[path[i]] = f
    BY <1>5, <1>18, <1>19
  <2>4. IsSaved(tree', f, 0, path, base)
    <3>1. ASSUME NEW p \in Nat, <<f, p>> \in DOMAIN tree'
          PROVE  \E i \in 0..0 : p = base[i] /\ tree'[<<f, p>>] = At(path[i], 1)
      <4>1. p = 0
        BY <1>4, <1>14, <3>1 DEF NotThere
      <4> QED BY <1>5, <1>14, <1>18, <4>1
    <3>2. tree'[Beginning(f)] = At(path[0], 1)
      BY <1>14, <1>18 DEF Beginning
    <3> QED BY <3>1, <3>2 DEF IsSaved
  <2> QED BY <1>20, <2>1, <2>2, <2>3, <2>4 DEF IsStored
<1>22. Serves(o, disk', 0, path, base, 0, written'[f])
  <2>1. written'[f] = 0
    BY <1>3, <1>4 DEF NotThere
  <2>2. 0 + 1 = 1 /\ 0 - 0 = 0 /\ Len(<<>>) = 0 /\ 1..0 = {} /\ 0 + 0 = 0
    OBVIOUS
  <2>3. Appending(o, disk', 0, path, base, 0, 0)
    BY <1>9, <1>18, <1>20, <2>2 DEF Appending
  <2> QED BY <1>9, <2>1, <2>3 DEF Serves
<1>23. FileOK(f, owner2)'
  <2>1. ASSUME NEW x \in DOMAIN open', open'[x].file = f
        PROVE  Serves(open'[x], disk', 0, path, base, 0, written'[f])
    <3>1. x = h
      BY <1>4, <1>12, <2>1 DEF NotThere
    <3> QED BY <1>12, <1>22, <3>1
  <2>2. FileIs(f, owner2, 0, path, base, 0)'
    BY <1>21, <2>1 DEF FileIs
  <2>3. Exists(f)'
    BY <1>14 DEF Exists, Beginning
  <2>4. 0 \in 0..TailSector - 1
    BY Geometry
  <2> QED BY <1>5, <1>18, <2>2, <2>3, <2>4 DEF FileOK
<1>24. FilesKept(owner2)
  <2>1. ASSUME NEW g \in Files, g # f
        PROVE  /\ SameObjects(g) /\ written'[g] = written[g] /\ flushed'[g] = flushed[g]
               /\ Writing(g) => Writing(g)'
    BY <1>3, <1>12, <2>1
  <2>2. flushed'[f] <= written'[f] /\ written'[f] = flushed'[f]
    BY <1>3, <1>4 DEF NotThere
  <2> QED BY <1>1, <1>2, <1>12, <1>16, <1>17, <1>23, <2>1, <2>2, FileStep
<1>25. OnlyAppends(disk')
  BY <1>5, <1>13 DEF OnlyAppends
<1> QED BY <1>3, <1>19, <1>24, <1>25, FilesInvAfter, NothingIsRead

-----------------------------------------------------------------------------
(* A mount: no object is left, and no byte that was not flushed.            *)

LEMMA MountKeeps ==
    ASSUME KeepsTo, FilesInv, Mount
    PROVE  FilesInv'
<1>1. TypeOK /\ OneWriter /\ AllFlushed
  BY OwnersAre
<1>2. PICK owner \in [Blocks -> Nat] : FilesAre(owner)
  BY OwnersAre
<1>3. /\ next' = next /\ open' = <<>> /\ written' = flushed /\ result' = NoResult
      /\ UNCHANGED <<disk, tree, saved, flushed>>
  BY DEF Mount, KeepsTo, Allowed
<1>4. DOMAIN open' = {}
  BY <1>3
<1>5. TypeOK'
  <2>1. written' \in [Files -> 0..MaxBytes]
    <3>1. flushed \in [Files -> Nat]
      BY <1>1 DEF TypeOK
    <3>2. ASSUME NEW f \in Files PROVE flushed[f] \in 0..MaxBytes
      <4>1. flushed[f] \in Nat /\ written[f] \in 0..MaxBytes /\ flushed[f] <= written[f]
        BY <1>1 DEF TypeOK, AllFlushed
      <4> QED BY <4>1, Geometry
    <3> QED BY <1>3, <3>1, <3>2
  <2>2. DOMAIN open' \subseteq Handles /\ open' \in [DOMAIN open' -> Handled]
    BY <1>3, <1>4
  <2> QED BY <1>1, <1>3, <2>1, <2>2 DEF TypeOK
<1>6. OneWriter'
  BY <1>4 DEF OneWriter
<1>7. AllFlushed'
  <2>1. \A f \in Files : flushed[f] \in Nat
    BY <1>1 DEF TypeOK
  <2>2. ASSUME NEW f \in Files PROVE flushed[f] <= flushed[f]
    <3>1. flushed[f] \in Nat
      BY <2>1
    <3> QED BY <3>1
  <2> QED BY <1>3, <2>2 DEF AllFlushed
<1>8. ASSUME NEW f \in Files PROVE FileOK(f, owner)'
  <2>1. CASE ~Exists(f)
    <3>1. NotThere(f)
      BY <1>2, <2>1 DEF FilesAre, FileOK
    <3>2. NotThere(f)'
      BY <1>3, <1>4, <3>1 DEF NotThere
    <3>3. ~Exists(f)'
      BY <1>3, <2>1 DEF Exists
    <3> QED BY <3>2, <3>3 DEF FileOK
  <2>2. CASE Exists(f)
    <3>1. PICK k \in Nat, m \in 0..TailSector - 1 :
             \E path \in [0..k -> Blocks], base \in [0..k -> Nat] :
                 FileIs(f, owner, k, path, base, m)
      BY <1>2, <2>2 DEF FilesAre, FileOK
    <3>2. PICK path \in [0..k -> Blocks], base \in [0..k -> Nat] :
                 FileIs(f, owner, k, path, base, m)
      BY <3>1
    <3>3. IsStored(f, disk', tree', next', owner, k, path, base, m, flushed'[f])
      BY <1>3, <3>2 DEF FileIs
    <3>4. FileIs(f, owner, k, path, base, m)'
      BY <1>4, <3>3 DEF FileIs
    <3>5. Exists(f)'
      BY <1>3, <2>2 DEF Exists
    <3> QED BY <3>4, <3>5 DEF FileOK
  <2> QED BY <2>1, <2>2
<1>9. FilesKept(owner)
  BY <1>5, <1>6, <1>7, <1>8 DEF FilesKept, FilesAre
<1> QED BY <1>3, <1>9, FilesInvAfter, NothingIsRead

-----------------------------------------------------------------------------
(* The invariant.                                                           *)

LEMMA FilesInvInit == Init => FilesInv
<1> SUFFICES ASSUME Init PROVE FilesInv
  OBVIOUS
<1>1. /\ disk = [b \in Blocks |-> OldBlock] /\ tree = <<>> /\ next = 0 /\ saved = 0
      /\ open = <<>> /\ written = [f \in Files |-> 0] /\ flushed = [f \in Files |-> 0]
      /\ result = NoResult
  BY DEF Init
<1>2. DOMAIN open = {} /\ DOMAIN tree = {}
  BY <1>1
<1>3. TypeOK
  <2>1. OldBlock \in [Sectors -> [data : Seq(Int), link : Int, inBlock : Int]]
    <3>1. <<NoBlock>> \in Seq(Int)
      BY Geometry
    <3> QED BY <3>1, Geometry DEF OldBlock, Sectors
  <2>2. disk \in Device
    BY <1>1, <2>1 DEF Device
  <2>3. next \in Nat /\ next <= NumBlocks /\ saved \in Nat
    BY <1>1, Geometry
  <2>4. written \in [Files -> 0..MaxBytes] /\ flushed \in [Files -> Nat]
    <3>1. 0 \in 0..MaxBytes /\ 0 \in Nat
      BY Geometry
    <3> QED BY <1>1, <3>1
  <2>5. tree \in [DOMAIN tree -> Address] /\ open \in [DOMAIN open -> Handled]
    BY <1>1, <1>2
  <2> QED BY <1>2, <2>2, <2>3, <2>4, <2>5 DEF TypeOK
<1>4. OneWriter /\ AllFlushed
  BY <1>1, <1>2 DEF OneWriter, AllFlushed
<1>5. ReadsWhatWasWritten
  BY <1>1 DEF ReadsWhatWasWritten, NoResult
<1>6. PICK owner \in [Blocks -> Nat] : owner = [b \in Blocks |-> 0]
  OBVIOUS
<1>7. ASSUME NEW f \in Files PROVE FileOK(f, owner)
  <2>1. NotThere(f)
    BY <1>1, <1>2 DEF NotThere
  <2>2. ~Exists(f)
    BY <1>2 DEF Exists
  <2> QED BY <2>1, <2>2 DEF FileOK
<1> QED BY <1>3, <1>4, <1>5, <1>6, <1>7 DEF FilesInv, FilesAre

LEMMA NothingChanges ==
    ASSUME FilesInv, UNCHANGED vars
    PROVE  FilesInv'
<1>1. UNCHANGED <<disk, tree, next, saved, open, written, flushed, result>>
  BY DEF vars
<1>2. PICK owner \in [Blocks -> Nat] : FilesAre(owner)
  BY OwnersAre
<1>3. TypeOK' /\ OneWriter' /\ AllFlushed' /\ ReadsWhatWasWritten'
  <2>1. TypeOK'
    BY <1>1, OwnersAre DEF TypeOK
  <2>2. OneWriter'
    BY <1>1, OwnersAre DEF OneWriter
  <2>3. AllFlushed'
    BY <1>1, OwnersAre DEF AllFlushed, Writing
  <2>4. ReadsWhatWasWritten'
    BY <1>1 DEF ReadsWhatWasWritten, FilesInv
  <2> QED BY <2>1, <2>2, <2>3, <2>4
<1>4. ASSUME NEW f \in Files PROVE FileOK(f, owner)'
  <2>1. FileOK(f, owner) /\ f # NoBlock /\ next' \in Nat
    BY <1>2, <1>3, Geometry DEF FilesAre, TypeOK
  <2>2. LeavesOthers(NoBlock, disk', tree', next', owner, owner)
    <3>1. next \in Nat
      BY OwnersAre DEF TypeOK
    <3> QED BY <1>1, <3>1 DEF LeavesOthers
  <2>3. SameObjects(f)
    BY <1>1 DEF SameObjects
  <2> QED BY <1>1, <2>1, <2>2, <2>3, OtherFile, OwnersAre
<1>5. FilesKept(owner)
  BY <1>3, <1>4 DEF FilesKept, FilesAre
<1> QED BY <1>3, <1>5, FilesInvAfter

(* A step keeps the invariant, and writes over nothing that a file may      *)
(* have.                                                                    *)
LEMMA StepKeeps ==
    ASSUME KeepsTo, FilesInv, [Next]_vars
    PROVE  FilesInv' /\ (OnlyAppends(disk') \/ disk' = disk)
<1>1. ASSUME NEW h \in Handles, NEW f \in Files, OpenToRead(h, f)
      PROVE  FilesInv' /\ disk' = disk
  <2>1. FilesInv'
    BY <1>1, OpenToReadKeeps
  <2>2. disk' = disk
    BY <1>1 DEF OpenToRead
  <2> QED BY <2>1, <2>2
<1>2. ASSUME NEW h \in Handles, NEW f \in Files, OpenToAppend(h, f)
      PROVE  FilesInv' /\ disk' = disk
  <2>1. FilesInv'
    BY <1>2, OpenToAppendKeeps
  <2>2. disk' = disk
    BY <1>2 DEF OpenToAppend
  <2> QED BY <2>1, <2>2
<1>3. ASSUME NEW h \in Handles, NEW f \in Files, OpenToCreate(h, f)
      PROVE  FilesInv' /\ OnlyAppends(disk')
  BY <1>3, OpenToCreateKeeps
<1>4. ASSUME NEW h \in Handles, WriteByte(h)
      PROVE  FilesInv' /\ OnlyAppends(disk')
  BY <1>4, WriteByteKeeps
<1>5. ASSUME NEW h \in Handles, Close(h)
      PROVE  FilesInv' /\ OnlyAppends(disk')
  BY <1>5, CloseKeeps
<1>6. ASSUME NEW h \in Handles, SeekBeginning(h)
      PROVE  FilesInv' /\ disk' = disk
  <2>1. FilesInv'
    BY <1>6, SeekBeginningKeeps
  <2>2. disk' = disk
    BY <1>6 DEF SeekBeginning
  <2> QED BY <2>1, <2>2
<1>7. ASSUME NEW h \in Handles, SeekEnd(h)
      PROVE  FilesInv' /\ disk' = disk
  <2>1. FilesInv'
    BY <1>7, SeekEndKeeps
  <2>2. disk' = disk
    BY <1>7 DEF SeekEnd
  <2> QED BY <2>1, <2>2
<1>8. ASSUME NEW h \in Handles, Size(h)
      PROVE  FilesInv' /\ disk' = disk
  <2>1. FilesInv'
    BY <1>8, SizeKeeps
  <2>2. disk' = disk
    BY <1>8 DEF Size
  <2> QED BY <2>1, <2>2
<1>9. ASSUME NEW h \in Handles, NEW n \in {1, SectorData}, Read(h, n)
      PROVE  FilesInv' /\ disk' = disk
  <2>1. n \in Nat /\ n > 0
    BY FileAssumption
  <2>2. FilesInv'
    BY <1>9, <2>1, ReadKeeps
  <2>3. disk' = disk
    BY <1>9 DEF Read
  <2> QED BY <2>2, <2>3
<1>10. ASSUME NEW h \in Handles, NEW p \in SeekPositions, SeekTo(h, p)
       PROVE  FilesInv' /\ disk' = disk
  <2>1. FilesInv'
    BY <1>10, SeekToKeeps
  <2>2. disk' = disk
    BY <1>10 DEF SeekTo
  <2> QED BY <2>1, <2>2
<1>11. ASSUME Mount
       PROVE  FilesInv' /\ disk' = disk
  <2>1. FilesInv'
    BY <1>11, MountKeeps
  <2>2. disk' = disk
    BY <1>11 DEF Mount
  <2> QED BY <2>1, <2>2
<1>12. ASSUME UNCHANGED vars
       PROVE  FilesInv' /\ disk' = disk
  BY <1>12, NothingChanges DEF vars
<1> QED
  BY <1>1, <1>2, <1>3, <1>4, <1>5, <1>6, <1>7, <1>8, <1>9, <1>10, <1>11, <1>12 DEF Next

(* The blocks of a file were handed out. *)
LEMMA StepAppends ==
    ASSUME KeepsTo, FilesInv, [Next]_vars
    PROVE  \A f \in Files : \A b \in BlocksOf(f), s \in 1..TailSector :
               disk[b][s] # Unwritten => disk'[b][s] = disk[b][s]
<1> SUFFICES ASSUME NEW f \in Files, NEW b \in BlocksOf(f), NEW s \in 1..TailSector,
                    disk[b][s] # Unwritten
             PROVE  disk'[b][s] = disk[b][s]
  OBVIOUS
<1>1. PICK owner \in [Blocks -> Nat] : FilesAre(owner)
  BY OwnersAre
<1>2. Exists(f)
  BY DEF BlocksOf
<1>3. TypeOK
  BY OwnersAre
<1>4. PICK k \in Nat, m \in 0..TailSector - 1 :
             \E path \in [0..k -> Blocks], base \in [0..k -> Nat] :
                 IsFile(f, owner, k, path, base, m)
  BY <1>1, <1>2, <1>3, FileIsThere
<1>5. PICK path \in [0..k -> Blocks], base \in [0..k -> Nat] :
                 IsFile(f, owner, k, path, base, m)
  BY <1>4
<1>6. PICK i \in 0..k : b = path[i]
  BY <1>5, BlocksOfFile
<1>7. InOrder(next, k, path) /\ next \in Nat
  BY <1>3, <1>5 DEF IsFile, FileIs, IsStored, TypeOK
<1>8. b \in Blocks /\ b < next /\ s \in Sectors
  BY <1>6, <1>7, BlocksInUse, Geometry
<1>9. CASE OnlyAppends(disk')
  BY <1>8, <1>9 DEF OnlyAppends
<1>10. CASE disk' = disk
  BY <1>10
<1> QED BY <1>9, <1>10, StepKeeps

-----------------------------------------------------------------------------
(* The theorems.  All are about files used in the four ways that Allowed    *)
(* names: KeepsTo is Beyond = {}, which the run open_file has.              *)

(* What seek(), write() and flush() do to the blocks, the links and the     *)
(* positions in the tree always leaves each file a chain of blocks of its   *)
(* own, and each OpenFile object at a place of it.                          *)
THEOREM FilesAreChains ==
    ASSUME KeepsTo
    PROVE  Spec => []FilesInv
<1>1. Init => FilesInv
  BY FilesInvInit
<1>2. FilesInv /\ [Next]_vars => FilesInv'
  BY StepKeeps
<1> QED BY <1>1, <1>2, PTL DEF Spec

(* seek(Seek::End) finds the first sector that is not written, and the      *)
(* number of bytes in front of it, from whichever saved position its walk   *)
(* over tail sectors and sectors starts.                                    *)
THEOREM EndIsAlwaysFound ==
    ASSUME KeepsTo
    PROVE  Spec => []SeekFindsEnd
<1>1. FilesInv => SeekFindsEnd
  BY InvFindsEnd
<1> QED BY <1>1, FilesAreChains, PTL

(* seek(position) finds, for every position of the file, the block that has *)
(* the byte in front of it, also where blocks end and at saved positions;   *)
(* in it the sector and the offset, unless the byte is in the tail sector.  *)
THEOREM BytesAreAlwaysFound ==
    ASSUME KeepsTo
    PROVE  Spec => []SeekFindsByte
<1>1. FilesInv => SeekFindsByte
  BY InvFindsByte
<1> QED BY <1>1, FilesAreChains, PTL

(* read() gives the bytes that were given to write(), in order, across      *)
(* sectors and blocks, while the file grows; none only at the end.          *)
THEOREM ReadersReadWhatWasWritten ==
    ASSUME KeepsTo
    PROVE  Spec => []ReadsWhatWasWritten
<1>1. FilesInv => ReadsWhatWasWritten
  BY DEF FilesInv
<1> QED BY <1>1, FilesAreChains, PTL

(* allocate() gives no block that a file has: no two files share one, also  *)
(* after a mount.                                                           *)
THEOREM BlocksAreNeverShared ==
    ASSUME KeepsTo
    PROVE  Spec => []BlocksAreNotShared
<1>1. FilesInv => BlocksAreNotShared
  BY InvKeepsApart
<1> QED BY <1>1, FilesAreChains, PTL

(* size() and tell() of a file that is written are the bytes given to       *)
(* write(); a file that is read is never taken for longer than it is.       *)
THEOREM LengthsAreKnown ==
    ASSUME KeepsTo
    PROVE  Spec => []LengthIsSize
<1>1. FilesInv => LengthIsSize
  BY InvKnowsLength
<1> QED BY <1>1, FilesAreChains, PTL

(* flush() and initialize_block() write only sectors of a file that were    *)
(* not written, and erase only blocks of none.                              *)
THEOREM FilesOnlyGrow ==
    ASSUME KeepsTo
    PROVE  Spec => AppendsOnly
<1>1. FilesInv /\ [Next]_vars
          => [\A f \in Files : \A b \in BlocksOf(f), s \in 1..TailSector :
                 disk[b][s] # Unwritten => disk'[b][s] = disk[b][s]]_vars
  BY StepAppends
<1> QED BY <1>1, FilesAreChains, PTL DEF Spec, AppendsOnly
===============================================================================
