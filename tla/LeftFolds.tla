------------------------------ MODULE LeftFolds ------------------------------
(* What a fold from the left over a sequence is, step by step, for an operator that depends *)
(* on p and q beside what it has and the next element.                                       *)
EXTENDS SequencesExt, Integers, WellFoundedInduction, TLAPS

CONSTANT Op(_, _, _, _)

Fold(p, q, base, seq) == FoldLeft(LAMBDA a, x : Op(p, a, x, q), base, seq)

\* Induction over the naturals, for a set of those where something holds.
THEOREM NatSetInduction ==
    ASSUME NEW T, 0 \in T, \A n \in Nat : n \in T => n + 1 \in T
    PROVE  \A n \in Nat : n \in T
<1> DEFINE R == OpToRel(<, Nat)
           U == {n \in Nat : n \notin T}
<1>. SUFFICES ASSUME U # {} PROVE FALSE
  OBVIOUS
<1>1. IsWellFoundedOn(R, Nat)
  BY NatLessThanWellFounded
<1>2. PICK x \in U : \A y \in U : ~(<<y, x>> \in R)
  <2>. HIDE DEF R
  <2>. QED BY <1>1, WFMin
<1>3. \A y \in U : ~(y < x)
  BY <1>2 DEF OpToRel
<1>4. x - 1 \in U \/ x = 0
  OBVIOUS
<1>. QED BY <1>3, <1>4

\* A set of naturals that is not empty has a smallest one.
THEOREM LeastNatural ==
    ASSUME NEW U \in SUBSET Nat, U # {} PROVE \E x \in U : \A y \in U : x <= y
<1> DEFINE T == {n \in Nat : \A y \in U : n <= y}
<1>. SUFFICES ASSUME ~ \E x \in U : \A y \in U : x <= y PROVE FALSE
  OBVIOUS
<1>1. 0 \in T
  OBVIOUS
<1>2. ASSUME NEW n \in Nat, n \in T PROVE n + 1 \in T
  <2>1. n \notin U
    BY <1>2
  <2>. QED BY <1>2, <2>1
<1>. HIDE DEF T
<1>3. \A n \in Nat : n \in T
  BY <1>1, <1>2, NatSetInduction
<1>4. PICK x : x \in U
  OBVIOUS
<1>. QED BY <1>3, <1>4 DEF T

\* The recursive function inside of a fold.
IsIter(p, q, base, seq, m, g) ==
    g = [s \in SUBSET (1 .. m) |->
           IF s = {} THEN base ELSE Op(p, g[s \ {Max(s)}], seq[Max(s)], q)]

\* The largest number of a set that has m, and nothing beyond it.
LEMMA MaxIs == ASSUME NEW m \in Nat, NEW s \in SUBSET (1 .. m), m \in s PROVE Max(s) = m
<1>1. \A y \in s : m >= y
  OBVIOUS
<1>2. \A x \in s : (\A y \in s : x >= y) => x = m
  OBVIOUS
<1>. QED BY <1>1, <1>2 DEF Max

LEMMA IterExists ==
    ASSUME NEW p, NEW q, NEW base, NEW seq
    PROVE  \A m \in Nat : \E g : IsIter(p, q, base, seq, m, g)
<1> DEFINE T == {m \in Nat : \E g : IsIter(p, q, base, seq, m, g)}
<1>1. 0 \in T
  <2> DEFINE g == [s \in SUBSET (1 .. 0) |-> base]
  <2>1. \A s \in SUBSET (1 .. 0) : s = {}
    OBVIOUS
  <2>2. IsIter(p, q, base, seq, 0, g)
    BY <2>1 DEF IsIter
  <2>. QED BY <2>2
<1>2. ASSUME NEW m \in Nat, m \in T PROVE m + 1 \in T
  <2>1. PICK g : IsIter(p, q, base, seq, m, g)
    BY <1>2
  <2> DEFINE N(h, s) == IF s = {} THEN base ELSE Op(p, h[s \ {Max(s)}], seq[Max(s)], q)
             h == [s \in SUBSET (1 .. m + 1) |->
                     IF m + 1 \in s THEN Op(p, g[s \ {m + 1}], seq[m + 1], q) ELSE g[s]]
  <2>2. ASSUME NEW s \in SUBSET (1 .. m + 1) PROVE h[s] = N(h, s)
    <3>1. CASE m + 1 \in s
      <4>1. Max(s) = m + 1
        BY <3>1, MaxIs
      <4>2. s \ {m + 1} \in SUBSET (1 .. m + 1) /\ m + 1 \notin s \ {m + 1}
        OBVIOUS
      <4>3. h[s \ {m + 1}] = g[s \ {m + 1}]
        BY <4>2
      <4>4. h[s] = Op(p, g[s \ {m + 1}], seq[m + 1], q)
        BY <3>1
      <4>. HIDE DEF h
      <4>. QED BY <3>1, <4>1, <4>3, <4>4
    <3>2. CASE m + 1 \notin s
      <4>1. s \in SUBSET (1 .. m)
        BY <3>2
      <4>2. h[s] = g[s]
        BY <3>2
      <4>3. g[s] = N(g, s)
        BY <2>1, <4>1 DEF IsIter
      <4>4. CASE s = {}
        BY <4>2, <4>3, <4>4
      <4>5. CASE s # {}
        <5>1. s \ {Max(s)} \in SUBSET (1 .. m + 1) /\ m + 1 \notin s \ {Max(s)}
          BY <3>2
        <5>2. h[s \ {Max(s)}] = g[s \ {Max(s)}]
          BY <5>1
        <5>. HIDE DEF h
        <5>. QED BY <4>2, <4>3, <4>5, <5>2
      <4>. QED BY <4>4, <4>5
    <3>. QED BY <3>1, <3>2
  <2>3. h = [s \in SUBSET (1 .. m + 1) |-> h[s]]
    OBVIOUS
  <2>4. h = [s \in SUBSET (1 .. m + 1) |-> N(h, s)]
    <3>. HIDE DEF h, N
    <3>. QED BY <2>2, <2>3
  <2>. HIDE DEF h
  <2>5. IsIter(p, q, base, seq, m + 1, h)
    BY <2>4 DEF IsIter
  <2>. QED BY <2>5
<1>. HIDE DEF T
<1>3. \A m \in Nat : m \in T
  BY <1>1, <1>2, NatSetInduction
<1>. QED BY <1>3 DEF T

\* A fold over a sequence goes through as many values as it has elements, each made of the
\* last one and the next element.
THEOREM FoldSteps ==
    ASSUME NEW p, NEW q, NEW base, NEW seq, NEW S, seq \in Seq(S)
    PROVE  \E g : /\ g[0] = base
                  /\ \A k \in 1 .. Len(seq) : g[k] = Op(p, g[k - 1], seq[k], q)
                  /\ Fold(p, q, base, seq) = g[Len(seq)]
<1> DEFINE n == Len(seq)
           iter == CHOOSE g : IsIter(p, q, base, seq, n, g)
<1>1. n \in Nat /\ DOMAIN seq = 1 .. n
  OBVIOUS
<1>2. IsIter(p, q, base, seq, n, iter)
  BY <1>1, IterExists
<1>3. Fold(p, q, base, seq) = iter[1 .. n]
  BY <1>1 DEF Fold, FoldLeft, MapThenFoldSet, IsIter
<1>. HIDE DEF iter
<1> DEFINE g == [k \in 0 .. n |-> iter[1 .. k]]
<1>4. g[0] = base
  <2>1. 1 .. 0 = {}
    OBVIOUS
  <2>2. iter[{}] = base
    BY <1>2 DEF IsIter
  <2>. QED BY <1>1, <2>1, <2>2
<1>5. ASSUME NEW k \in 1 .. n PROVE g[k] = Op(p, g[k - 1], seq[k], q)
  <2> DEFINE s == 1 .. k
  <2>. k \in Nat /\ k >= 1 /\ k <= n
    BY <1>1
  <2>1. s \in SUBSET (1 .. n) /\ k \in s
    BY <1>1
  <2>2. Max(s) = k
    <3>1. s \in SUBSET (1 .. k)
      OBVIOUS
    <3>. HIDE DEF s
    <3>. QED BY <2>1, <3>1, MaxIs
  <2>3. s \ {k} = 1 .. k - 1
    BY <1>1
  <2>4. iter[s] = Op(p, iter[1 .. k - 1], seq[k], q)
    BY <1>2, <2>1, <2>2, <2>3 DEF IsIter
  <2>5. k - 1 \in 0 .. n /\ k \in 0 .. n
    BY <1>1
  <2>. QED BY <2>4, <2>5
<1>6. g[n] = iter[1 .. n]
  BY <1>1
<1>. QED BY <1>3, <1>4, <1>5, <1>6
=============================================================================
