----------------------------- MODULE Inductions -----------------------------
(***************************************************************************)
(* Induction over numbers, as facts about sets of numbers: what is to be   *)
(* shown is put as a set of counterexamples, which has a least element.    *)
(* The proofs about loops and recursive functions use nothing else.        *)
(***************************************************************************)
EXTENDS Integers, TLAPS, WellFoundedInduction

LessThan == OpToRel(<, Nat)

LEMMA LessThanIsWellFounded == IsWellFoundedOn(LessThan, Nat)
BY NatLessThanWellFounded, Zenon DEF LessThan

LEMMA LessThanIsLess == LessThan = {p \in Nat \X Nat : p[1] < p[2]}
BY Zenon DEF LessThan, OpToRel

(* A set of integers that is bounded below has a least element. *)
LEMMA LeastNatural ==
    ASSUME NEW S \in SUBSET Nat, S # {}
    PROVE  \E n \in S : \A m \in S : n <= m
<1>1. PICK n \in S : \A m \in S : <<m, n>> \notin LessThan
  BY LessThanIsWellFounded, WFMin
<1>2. \A m \in S : ~(m < n)
  BY <1>1, LessThanIsLess
<1> QED BY <1>2

LEMMA LeastInteger ==
    ASSUME NEW lo \in Int, NEW S \in SUBSET Int, S # {}, \A n \in S : lo <= n
    PROVE  \E n \in S : \A m \in S : n <= m
<1> DEFINE T == {n \in Nat : lo + n \in S}
<1>1. T # {}
  <2>1. PICK n \in S : TRUE
    OBVIOUS
  <2>2. n - lo \in Nat /\ lo + (n - lo) = n
    BY <2>1
  <2> QED BY <2>1, <2>2
<1>2. PICK n \in T : \A m \in T : n <= m
  BY <1>1, LeastNatural
<1>3. ASSUME NEW m \in S PROVE lo + n <= m
  <2>1. m - lo \in Nat /\ lo + (m - lo) = m
    OBVIOUS
  <2>2. m - lo \in T
    BY <2>1
  <2> QED BY <1>2, <2>1, <2>2
<1> QED BY <1>2, <1>3

LEMMA GreatestInteger ==
    ASSUME NEW hi \in Int, NEW S \in SUBSET Int, S # {}, \A n \in S : n <= hi
    PROVE  \E n \in S : \A m \in S : m <= n
<1> DEFINE T == {n \in Int : (0 - n) \in S}
<1>1. T # {}
  <2>1. PICK n \in S : TRUE
    OBVIOUS
  <2>2. 0 - n \in Int /\ 0 - (0 - n) = n
    BY <2>1
  <2> QED BY <2>1, <2>2
<1>2. ASSUME NEW n \in T PROVE 0 - hi <= n
  <2>1. 0 - n <= hi /\ n \in Int
    OBVIOUS
  <2> QED BY <2>1
<1>3. PICK n \in T : \A m \in T : n <= m
  <2> HIDE DEF T
  <2>1. T \in SUBSET Int
    BY DEF T
  <2>2. 0 - hi \in Int
    OBVIOUS
  <2> QED BY <1>1, <1>2, <2>1, <2>2, LeastInteger
<1>4. ASSUME NEW m \in S PROVE m <= 0 - n
  <2>1. 0 - m \in Int /\ 0 - (0 - m) = m
    OBVIOUS
  <2>2. 0 - m \in T
    BY <2>1
  <2> QED BY <1>3, <2>1, <2>2
<1> QED BY <1>3, <1>4

(* What holds at the start and is kept by each step holds all the way.      *)
LEMMA IntervalInduction ==
    ASSUME NEW lo \in Int, NEW hi \in Int, NEW Good, lo \in Good,
           \A i \in lo + 1 .. hi : i - 1 \in Good => i \in Good
    PROVE  lo .. hi \subseteq Good
<1> DEFINE Bad == {i \in lo .. hi : i \notin Good}
<1>1. SUFFICES ASSUME Bad # {} PROVE FALSE
  OBVIOUS
<1>2. PICK i \in Bad : \A j \in Bad : i <= j
  <2>1. Bad \in SUBSET Int /\ \A j \in Bad : lo <= j
    OBVIOUS
  <2> HIDE DEF Bad
  <2> QED BY <1>1, <2>1, LeastInteger
<1>3. i \in lo + 1 .. hi /\ i - 1 \in lo .. hi /\ ~(i <= i - 1)
  OBVIOUS
<1>4. i - 1 \in Good
  BY <1>2, <1>3
<1> QED BY <1>3, <1>4

(* A loop that starts with `base' and takes one step for each number after  *)
(* lo is a function of the number it has come to.                           *)
IsLoop(f, lo, hi, V, base, step) ==
    /\ f \in [lo .. hi -> V]
    /\ f[lo] = base
    /\ \A i \in lo + 1 .. hi : f[i] = step[i][f[i - 1]]

LEMMA LoopIsDefined ==
    ASSUME NEW lo \in Int, NEW hi \in Int, lo <= hi,
           NEW V, NEW base \in V, NEW step \in [lo + 1 .. hi -> [V -> V]]
    PROVE  \E f : IsLoop(f, lo, hi, V, base, step)
<1> USE DEF IsLoop
<1> DEFINE Runs(f, n) == IsLoop(f, lo, n, V, base, step)
           Undefined  == {n \in lo .. hi : ~\E f : Runs(f, n)}
<1>1. lo \notin Undefined
  <2> DEFINE f == [i \in lo .. lo |-> base]
  <2>1. Runs(f, lo)
    OBVIOUS
  <2> QED BY <2>1
<1>2. SUFFICES ASSUME Undefined # {} PROVE FALSE
  <2>1. hi \in lo .. hi
    OBVIOUS
  <2>2. hi \notin Undefined => \E f : Runs(f, hi)
    BY <2>1
  <2> QED BY <2>2
<1>3. PICK n \in Undefined : \A m \in Undefined : n <= m
  <2>1. /\ Undefined \in SUBSET Int
        /\ \A m \in Undefined : lo <= m
    OBVIOUS
  <2> HIDE DEF Undefined
  <2> QED BY <1>2, <2>1, LeastInteger
<1>4. n - 1 \in lo .. hi /\ n - 1 \notin Undefined
  <2>1. n \in lo .. hi /\ n # lo
    BY <1>1
  <2> HIDE DEF Undefined
  <2>2. n - 1 \in lo .. hi /\ ~(n <= n - 1)
    BY <2>1
  <2> QED BY <1>3, <2>2
<1>5. PICK f : Runs(f, n - 1)
  BY <1>4
<1> DEFINE g == [i \in lo .. n |-> IF i = n THEN step[n][f[n - 1]] ELSE f[i]]
<1>6. Runs(g, n)
  <2>1. f[n - 1] \in V /\ n \in lo + 1 .. hi
    BY <1>3, <1>4, <1>5
  <2>2. step[n][f[n - 1]] \in V
    BY <2>1
  <2>3. g \in [lo .. n -> V]
    BY <1>4, <1>5, <2>2
  <2>4. g[lo] = base
    BY <1>4, <1>5
  <2>5. ASSUME NEW i \in lo + 1 .. n PROVE g[i] = step[i][g[i - 1]]
    <3>1. g[i - 1] = f[i - 1]
      BY <1>4
    <3>2. CASE i = n
      BY <3>1, <3>2, <1>4
    <3>3. CASE i # n
      BY <3>1, <3>3, <1>5, <1>4
    <3> QED BY <3>2, <3>3
  <2> QED BY <2>3, <2>4, <2>5
<1> QED BY <1>3, <1>6
=============================================================================
