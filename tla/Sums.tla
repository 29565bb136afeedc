-------------------------------- MODULE Sums --------------------------------
(***************************************************************************)
(* Sums over finite sets, as the reports add up the results of all tests   *)
(* and all processes.  The provers have no induction over data, so it is   *)
(* done by hand, from the least-number principle: a claim about all sets   *)
(* of at most n elements has no smallest n at which it is wrong.           *)
(***************************************************************************)
EXTENDS Integers, FiniteSetsExt, FiniteSetTheorems, WellFoundedInduction, TLAPS

\* the sum of f over S
SumOver(f, S) == MapThenSumSet(LAMBDA x : f[x], S)

\* the least-number principle, for sets of naturals
LEMMA LeastNumber ==
  ASSUME NEW S \in SUBSET Nat, S # {}
  PROVE  \E m \in S : \A k \in S : m <= k
<1>1. \E m \in S : \A k \in S : ~(<<k, m>> \in OpToRel(<, Nat))
  BY WFMin, NatLessThanWellFounded, Zenon
<1>2. PICK m \in S : \A k \in S : ~(<<k, m>> \in OpToRel(<, Nat))
  BY <1>1
<1>3. \A k \in S : ~(k < m)
  BY <1>2 DEF OpToRel
<1> QED
  BY <1>3

\* the recursion that MapThenSumSet goes through
Chosen(s) == CHOOSE x \in s : TRUE
SumStep(f, g, s) == IF s = {} THEN 0 ELSE f[Chosen(s)] + g[s \ {Chosen(s)}]
Sums(f, S, g) == g = [s \in SUBSET S |-> SumStep(f, g, s)]
Partial(f, S) == CHOOSE g : Sums(f, S, g)

LEMMA SumOverDef ==
  ASSUME NEW f, NEW S
  PROVE  SumOver(f, S) = Partial(f, S)[S]
BY DEF SumOver, MapThenSumSet, MapThenFoldSet, Partial, Sums, SumStep, Chosen

LEMMA Smaller ==
  ASSUME NEW S, IsFiniteSet(S), NEW s \in SUBSET S, s # {}
  PROVE  /\ Chosen(s) \in s /\ Chosen(s) \in S
         /\ s \ {Chosen(s)} \in SUBSET S
         /\ Cardinality(s) \in Nat /\ Cardinality(s \ {Chosen(s)}) \in Nat
         /\ Cardinality(s \ {Chosen(s)}) < Cardinality(s)
<1>1. Chosen(s) \in s
  BY DEF Chosen
<1>2. IsFiniteSet(s)
  BY FS_Subset
<1>3. Cardinality(s \ {Chosen(s)}) = Cardinality(s) - 1 /\ Cardinality(s) \in Nat
      /\ IsFiniteSet(s \ {Chosen(s)})
  BY <1>1, <1>2, FS_RemoveElement, FS_CardinalityType
<1>4. Cardinality(s \ {Chosen(s)}) \in Nat
  BY <1>3, FS_CardinalityType
<1> QED
  BY <1>1, <1>3, <1>4

\* g is a solution of it for the sets of at most n elements
Solves(f, S, g, n) ==
  \A s \in SUBSET S : Cardinality(s) <= n => g[s] = SumStep(f, g, s)

LEMMA SumsUpTo ==
  ASSUME NEW S, IsFiniteSet(S), NEW f \in [S -> Int], NEW n \in Nat
  PROVE  \E g \in [SUBSET S -> Int] : Solves(f, S, g, n)
<1> DEFINE Bad == {k \in Nat : ~\E g \in [SUBSET S -> Int] : Solves(f, S, g, k)}
<1>0. SUFFICES ASSUME Bad # {} PROVE FALSE
  OBVIOUS
<1>1. PICK m \in Bad : \A k \in Bad : m <= k
  <2>1. Bad \in SUBSET Nat
    OBVIOUS
  <2> QED
    BY <1>0, <2>1, LeastNumber
<1>2. CASE m = 0
  <2> DEFINE g == [s \in SUBSET S |-> 0]
  <2>1. ASSUME NEW s \in SUBSET S, Cardinality(s) <= 0, s # {} PROVE FALSE
    <3>1. /\ Cardinality(s) \in Nat /\ Cardinality(s \ {Chosen(s)}) \in Nat
          /\ Cardinality(s \ {Chosen(s)}) < Cardinality(s)
      BY <2>1, Smaller
    <3> QED
      BY <2>1, <3>1
  <2>2. g \in [SUBSET S -> Int] /\ Solves(f, S, g, 0)
    BY <2>1 DEF SumStep, Solves
  <2> QED
    BY <1>1, <1>2, <2>2
<1>3. CASE m # 0
  <2>1. m \in Nat /\ m - 1 \in Nat /\ ~(m <= m - 1)
    BY <1>3
  <2>2. m - 1 \notin Bad
    BY <1>1, <2>1
  <2>3. PICK g \in [SUBSET S -> Int] : Solves(f, S, g, m - 1)
    BY <2>1, <2>2
  <2> DEFINE h == [s \in SUBSET S |-> SumStep(f, g, s)]
  <2>4. ASSUME NEW s \in SUBSET S PROVE SumStep(f, g, s) \in Int
    <3>1. CASE s = {}
      BY <3>1 DEF SumStep
    <3>2. CASE s # {}
      <4>1. Chosen(s) \in S /\ s \ {Chosen(s)} \in SUBSET S
        BY <3>2, Smaller
      <4> QED
        BY <3>2, <4>1 DEF SumStep
    <3> QED
      BY <3>1, <3>2
  <2>5. h \in [SUBSET S -> Int]
    BY <2>4
  <2>6. ASSUME NEW s \in SUBSET S, Cardinality(s) <= m
        PROVE  h[s] = SumStep(f, h, s)
    <3>1. CASE s = {}
      BY <3>1 DEF SumStep
    <3>2. CASE s # {}
      <4> DEFINE r == s \ {Chosen(s)}
      <4>1. /\ Cardinality(s) \in Nat /\ Cardinality(r) \in Nat
            /\ Cardinality(r) < Cardinality(s) /\ r \in SUBSET S
        BY <3>2, Smaller
      <4>2. Cardinality(r) <= m - 1
        BY <2>1, <2>6, <4>1
      <4>3. g[r] = h[r]
        BY <4>1, <4>2, <2>3 DEF Solves
      <4> QED
        BY <4>3, <4>1, <3>2 DEF SumStep
    <3> QED
      BY <3>1, <3>2
  <2>7. Solves(f, S, h, m)
    BY <2>6 DEF Solves
  <2> QED
    BY <1>1, <2>5, <2>7
<1> QED
  BY <1>2, <1>3

LEMMA PartialSums ==
  ASSUME NEW S, IsFiniteSet(S), NEW f \in [S -> Int]
  PROVE  Sums(f, S, Partial(f, S))
<1>1. Cardinality(S) \in Nat
      /\ \A s \in SUBSET S : Cardinality(s) <= Cardinality(S)
  BY FS_Subset, FS_CardinalityType
<1>2. PICK g \in [SUBSET S -> Int] : Solves(f, S, g, Cardinality(S))
  BY <1>1, SumsUpTo
<1>3. \A s \in SUBSET S : g[s] = SumStep(f, g, s)
  BY <1>1, <1>2 DEF Solves
<1>4. Sums(f, S, g)
  BY <1>3 DEF Sums
<1> QED
  BY <1>4 DEF Partial


LEMMA PartialStep ==
  ASSUME NEW S, IsFiniteSet(S), NEW f \in [S -> Int]
  PROVE  \A s \in SUBSET S : Partial(f, S)[s] = SumStep(f, Partial(f, S), s)
<1> DEFINE g == Partial(f, S)
<1>1. g = [s \in SUBSET S |-> SumStep(f, g, s)]
  BY PartialSums DEF Sums
<1> HIDE DEF g
<1>2. \A s \in SUBSET S : g[s] = SumStep(f, g, s)
  BY <1>1
<1> QED
  BY <1>2 DEF g

\* A sum of naturals is a natural, at least each summand, and zero exactly if all are.
LEMMA SumOfNaturals ==
  ASSUME NEW S, IsFiniteSet(S), NEW f \in [S -> Nat]
  PROVE  /\ SumOver(f, S) \in Nat
         /\ \A x \in S : f[x] <= SumOver(f, S)
         /\ SumOver(f, S) = 0 <=> \A x \in S : f[x] = 0
<1> DEFINE g == Partial(f, S)
           Right(s) == /\ g[s] \in Nat /\ (\A x \in s : f[x] <= g[s])
                       /\ (g[s] = 0 <=> \A x \in s : f[x] = 0)
           Bad == {k \in Nat : \E s \in SUBSET S : Cardinality(s) = k /\ ~Right(s)}
<1>1. \A s \in SUBSET S : g[s] = SumStep(f, g, s)
  <2>1. f \in [S -> Int]
    OBVIOUS
  <2> QED
    BY <2>1, PartialStep
<1> HIDE DEF g
<1>2. Bad = {}
  <2> SUFFICES ASSUME Bad # {} PROVE FALSE
    OBVIOUS
  <2>1. PICK m \in Bad : \A k \in Bad : m <= k
    BY LeastNumber
  <2>2. PICK s \in SUBSET S : Cardinality(s) = m /\ ~Right(s)
    BY <2>1
  <2>3. CASE s = {}
    <3>1. g[s] = 0
      BY <1>1, <2>3 DEF SumStep
    <3> QED
      BY <2>2, <2>3, <3>1
  <2>4. CASE s # {}
    <3> DEFINE r == s \ {Chosen(s)}
    <3>1. /\ Chosen(s) \in s /\ r \in SUBSET S
          /\ Cardinality(r) \in Nat /\ Cardinality(r) < m
      BY <2>2, <2>4, Smaller
    <3>2. Right(r)
      <4>1. m \in Nat /\ ~(m <= Cardinality(r))
        BY <3>1
      <4>2. Cardinality(r) \notin Bad
        BY <2>1, <4>1
      <4> HIDE DEF Right, r
      <4> QED
        BY <3>1, <4>2
    <3>3. g[s] = f[Chosen(s)] + g[r]
      BY <1>1, <2>4 DEF SumStep
    <3>4. f[Chosen(s)] \in Nat /\ \A x \in s : f[x] \in Nat
      BY <3>1
    <3>5. g[s] \in Nat
      BY <3>2, <3>3, <3>4
    <3>6. ASSUME NEW x \in s PROVE f[x] <= g[s]
      <4>1. CASE x = Chosen(s)
        BY <4>1, <3>2, <3>3, <3>4
      <4>2. CASE x # Chosen(s)
        <5>1. x \in r
          BY <4>2
        <5> QED
          BY <5>1, <3>2, <3>3, <3>4
      <4> QED
        BY <4>1, <4>2
    <3>7. g[s] = 0 <=> \A x \in s : f[x] = 0
      BY <3>1, <3>2, <3>3, <3>4
    <3> QED
      BY <2>2, <3>5, <3>6, <3>7
  <2> QED
    BY <2>3, <2>4
<1>3. Cardinality(S) \in Nat
  BY FS_CardinalityType
<1>4. Right(S)
  BY <1>2, <1>3
<1> QED
  BY <1>4, SumOverDef DEF g

\* A sum changes by as much as the summand that is changed.
LEMMA SumAfterUpdate ==
  ASSUME NEW S, IsFiniteSet(S), NEW f \in [S -> Int], NEW x \in S, NEW v \in Int
  PROVE  /\ SumOver(f, S) \in Int
         /\ SumOver([f EXCEPT ![x] = v], S) = SumOver(f, S) + v - f[x]
<1> DEFINE e == [f EXCEPT ![x] = v]
           g == Partial(f, S)
           h == Partial(e, S)
           Right(s) == g[s] \in Int /\ h[s] = g[s] + IF x \in s THEN v - f[x] ELSE 0
           Bad == {k \in Nat : \E s \in SUBSET S : Cardinality(s) = k /\ ~Right(s)}
<1>1. \A s \in SUBSET S : g[s] = SumStep(f, g, s)
  BY PartialStep
<1>2. e \in [S -> Int] /\ \A y \in S : e[y] = IF y = x THEN v ELSE f[y]
  OBVIOUS
<1> HIDE DEF e
<1>3. \A s \in SUBSET S : h[s] = SumStep(e, h, s)
  BY <1>2, PartialStep
<1> HIDE DEF g, h
<1>4. Bad = {}
  <2> SUFFICES ASSUME Bad # {} PROVE FALSE
    OBVIOUS
  <2>1. PICK m \in Bad : \A k \in Bad : m <= k
    BY LeastNumber
  <2>2. PICK s \in SUBSET S : Cardinality(s) = m /\ ~Right(s)
    BY <2>1
  <2>3. CASE s = {}
    <3>1. g[s] = 0 /\ h[s] = 0
      BY <1>1, <1>3, <2>3 DEF SumStep
    <3> QED
      BY <2>2, <2>3, <3>1
  <2>4. CASE s # {}
    <3> DEFINE c == Chosen(s)
               r == s \ {c}
    <3>1. c \in s /\ c \in S /\ r \in SUBSET S /\ Cardinality(r) \in Nat /\ Cardinality(r) < m
      BY <2>2, <2>4, Smaller
    <3>2. Right(r)
      BY <2>1, <3>1
    <3>3. g[s] = f[c] + g[r] /\ h[s] = e[c] + h[r]
      BY <1>1, <1>3, <2>4 DEF SumStep
    <3>4. f[c] \in Int /\ f[x] \in Int /\ e[c] = IF c = x THEN v ELSE f[c]
      BY <1>2, <3>1
    <3> HIDE DEF c
    <3>5. x \in s <=> x = c \/ x \in r
      BY <3>1
    <3>6. x = c => x \notin r
      OBVIOUS
    <3> HIDE DEF r
    <3>7. Right(s)
      BY <3>2, <3>3, <3>4, <3>5, <3>6
    <3> QED
      BY <2>2, <3>7
  <2> QED
    BY <2>3, <2>4
<1>5. Cardinality(S) \in Nat
  BY FS_CardinalityType
<1>6. Right(S)
  BY <1>4, <1>5
<1>7. f[x] \in Int
  OBVIOUS
<1> QED
  BY <1>6, <1>7, SumOverDef DEF g, h, e

\* c on Q and 0 elsewhere
Part(S, Q, c) == [x \in S |-> IF x \in Q THEN c ELSE 0]

\* A sum in which every element of R counts c and no other counts: the files of
\* the threads that have returned a row.
LEMMA SumOverPart ==
  ASSUME NEW S, IsFiniteSet(S), NEW R \in SUBSET S, NEW c \in Nat
  PROVE  SumOver(Part(S, R, c), S) = Cardinality(R) * c
<1> DEFINE Right(Q) == SumOver(Part(S, Q, c), S) = Cardinality(Q) * c
           Bad == {k \in Nat : \E Q \in SUBSET S : Cardinality(Q) = k /\ ~Right(Q)}
<1>0. SUFFICES ASSUME ~Right(R) PROVE FALSE
  OBVIOUS
<1>1. \A Q \in SUBSET S : IsFiniteSet(Q) /\ Cardinality(Q) \in Nat
  BY FS_Subset, FS_CardinalityType
<1>2. Bad # {} /\ Bad \in SUBSET Nat
  BY <1>0, <1>1
<1>3. PICK m \in Bad : \A k \in Bad : m <= k
  BY <1>2, LeastNumber
<1>4. PICK Q \in SUBSET S : Cardinality(Q) = m /\ ~Right(Q)
  BY <1>3
<1>5. \A P \in SUBSET S : Part(S, P, c) \in [S -> Nat] /\ Part(S, P, c) \in [S -> Int]
  BY DEF Part
<1>6. CASE Q = {}
  <2>1. \A x \in S : Part(S, Q, c)[x] = 0
    BY <1>6 DEF Part
  <2>2. SumOver(Part(S, Q, c), S) = 0
    BY <1>5, <2>1, SumOfNaturals
  <2>3. Cardinality(Q) * c = 0
    BY <1>6, FS_EmptySet
  <2> QED
    BY <1>4, <2>2, <2>3
<1>7. CASE Q # {}
  <2>1. PICK x \in Q : TRUE
    BY <1>7
  <2> DEFINE P == Q \ {x}
             f == Part(S, P, c)
  <2>2. P \in SUBSET S /\ Cardinality(P) = m - 1 /\ Cardinality(P) \in Nat /\ m \in Nat
    BY <1>1, <1>4, <2>1, FS_RemoveElement
  <2>3. Right(P)
    <3> DEFINE k == Cardinality(P)
    <3>1. k \in Nat /\ ~(m <= k)
      BY <2>2
    <3>2. k \notin Bad
      BY <1>3, <3>1
    <3> HIDE DEF Right
    <3> QED
      BY <2>2, <3>1, <3>2
  <2>4. Part(S, Q, c) = [f EXCEPT ![x] = c] /\ f[x] = 0
    BY <2>1 DEF Part
  <2>5. f \in [S -> Int] /\ x \in S /\ c \in Int
    BY <1>5, <2>1, <2>2
  <2> HIDE DEF f, P
  <2>6. /\ SumOver(f, S) \in Int
        /\ SumOver([f EXCEPT ![x] = c], S) = SumOver(f, S) + c - f[x]
    BY <2>5, SumAfterUpdate
  <2>7. SumOver(Part(S, Q, c), S) = SumOver(f, S) + c
    BY <2>4, <2>6
  <2>8. SumOver(f, S) = (m - 1) * c
    BY <2>2, <2>3 DEF f
  <2>9. (m - 1) * c + c = m * c
    BY <2>2
  <2> QED
    BY <1>4, <2>7, <2>8, <2>9
<1> QED
  BY <1>6, <1>7
=============================================================================
