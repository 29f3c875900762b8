---------------------------- MODULE SumTheorems ----------------------------
(***************************************************************************)
(* What the proofs about balances need of the sums of FiniteSetsExt over   *)
(* finite sets.  The sum is a recursive function that removes one element  *)
(* after the other, in the order of CHOOSE; the lemmas are shown by taking *)
(* a smallest set they would fail for (Least).                             *)
(***************************************************************************)
EXTENDS FiniteSetsExt, FiniteSetTheorems, WellFoundedInduction, TLAPS

\* A set of natural numbers has a least one.
LEMMA Least ==
  ASSUME NEW T \in SUBSET Nat, T # {}
  PROVE  \E m \in T : \A n \in T : m <= n
<1> DEFINE R == OpToRel(<, Nat)
<1>1. \E m \in T : \A n \in T : ~(<<n, m>> \in R)
  BY WFMin, NatLessThanWellFounded, Zenon
<1>2. \A n, m \in Nat : <<n, m>> \in R <=> n < m
  BY Zenon DEF OpToRel
<1> HIDE DEF R
<1>3. PICK m \in T : \A n \in T : ~(<<n, m>> \in R)
  BY <1>1
<1>4. ASSUME NEW n \in T PROVE m <= n
  <2>1. m \in Nat /\ n \in Nat
    OBVIOUS
  <2>2. ~(n < m)
    BY <1>2, <1>3, <2>1
  <2> QED BY <2>1, <2>2
<1> QED BY <1>4

\* A set of finite sets has one with the fewest elements.
LEMMA Smallest ==
  ASSUME NEW D, D # {}, \A s \in D : IsFiniteSet(s)
  PROVE  \E s \in D : \A t \in D : Cardinality(s) <= Cardinality(t)
<1> DEFINE T == {Cardinality(s) : s \in D}
<1>1. \A s \in D : Cardinality(s) \in Nat
  BY FS_CardinalityType
<1>2. T \in SUBSET Nat /\ T # {}
  BY <1>1
<1>3. PICK m \in T : \A k \in T : m <= k
  BY <1>2, Least
<1> QED BY <1>3

----------------------------------------------------------------------------
First(s) == CHOOSE x \in s : TRUE

\* h is the recursive function that SumFunctionOnSet(f, S) defines.
Sums(h, f, S) ==
  h = [s \in SUBSET S |-> IF s = {} THEN 0 ELSE f[First(s)] + h[s \ {First(s)}]]

LEMMA Fewer ==
  ASSUME NEW s, IsFiniteSet(s), s # {}
  PROVE  /\ First(s) \in s /\ IsFiniteSet(s \ {First(s)})
         /\ Cardinality(s) \in Nat /\ Cardinality(s \ {First(s)}) = Cardinality(s) - 1
<1>1. First(s) \in s
  BY DEF First
<1> QED BY <1>1, FS_RemoveElement, FS_CardinalityType

\* The recursive function exists: it is built up from the smaller sets.
LEMMA SumsExist ==
  ASSUME NEW f, NEW S, IsFiniteSet(S)
  PROVE  \E h : Sums(h, f, S)
<1> DEFINE Upto(k) == {s \in SUBSET S : Cardinality(s) <= k}
           Next(g, s) == IF s = {} THEN 0 ELSE f[First(s)] + g[s \ {First(s)}]
           Built(k) == \E g : g = [s \in Upto(k) |-> Next(g, s)]
           T == {k \in Nat : ~Built(k)}
<1>1. \A s \in SUBSET S : IsFiniteSet(s) /\ Cardinality(s) \in Nat /\ Cardinality(s) <= Cardinality(S)
  BY FS_Subset, FS_CardinalityType
<1>2. T = {}
  <2> SUFFICES ASSUME T # {} PROVE FALSE
    OBVIOUS
  <2>1. PICK k \in T : \A j \in T : k <= j
    BY Least
  <2>2. CASE k = 0
    <3> DEFINE g == [s \in Upto(0) |-> 0]
    <3>1. \A s \in Upto(0) : s = {}
      BY <1>1, FS_EmptySet
    <3>2. g = [s \in Upto(0) |-> Next(g, s)]
      BY <3>1
    <3>3. Built(0)
      BY <3>2
    <3> QED BY <3>3, <2>2
  <2>3. CASE k # 0
    <3>1. k - 1 \in Nat /\ k - 1 \notin T
      <4>1. k \in Nat
        OBVIOUS
      <4> HIDE DEF T
      <4> QED BY <4>1, <2>1, <2>3
    <3>2. PICK g : g = [s \in Upto(k - 1) |-> Next(g, s)]
      BY <3>1
    <3> DEFINE h == [s \in Upto(k) |-> Next(g, s)]
    <3>3. ASSUME NEW s \in Upto(k) PROVE Next(g, s) = Next(h, s)
      <4>1. CASE s = {}
        BY <4>1
      <4>2. CASE s # {}
        <5> DEFINE r == s \ {First(s)}
        <5>1. r \in Upto(k - 1) /\ r \in Upto(k)
          BY <4>2, <1>1, <2>1, Fewer
        <5>2. g[r] = Next(g, r)
          BY <5>1, <3>2
        <5>3. h[r] = Next(g, r)
          BY <5>1
        <5> QED BY <5>2, <5>3, <4>2
      <4> QED BY <4>1, <4>2
    <3>4. h = [s \in Upto(k) |-> Next(h, s)]
      BY <3>3
    <3>5. Built(k)
      BY <3>4
    <3> QED BY <3>5
  <2> QED BY <2>2, <2>3
<1>3. Built(Cardinality(S))
  BY <1>1, <1>2
<1>4. Upto(Cardinality(S)) = SUBSET S
  BY <1>1
<1> QED BY <1>3, <1>4 DEF Sums

LEMMA SumsAre ==
  ASSUME NEW f, NEW S, NEW h, Sums(h, f, S), NEW s \in SUBSET S
  PROVE  h[s] = IF s = {} THEN 0 ELSE f[First(s)] + h[s \ {First(s)}]
BY DEF Sums

\* It depends on nothing but the values of f on the set.
LEMMA SumsAgree ==
  ASSUME NEW f, NEW g, NEW S, NEW T, IsFiniteSet(S), NEW h, NEW i, Sums(h, f, S), Sums(i, g, T)
  PROVE  \A U \in SUBSET (S \cap T) : (\A x \in U : f[x] = g[x]) => h[U] = i[U]
<1> SUFFICES ASSUME NEW U \in SUBSET (S \cap T), \A x \in U : f[x] = g[x]
             PROVE  h[U] = i[U]
  OBVIOUS
<1> DEFINE D == {s \in SUBSET U : h[s] # i[s]}
<1> SUFFICES ASSUME D # {} PROVE FALSE
  OBVIOUS
<1>1. \A s \in D : IsFiniteSet(s)
  BY FS_Subset
<1>2. PICK s \in D : \A t \in D : Cardinality(s) <= Cardinality(t)
  BY <1>1, Smallest
<1>3. h[s] # i[s] /\ s \in SUBSET U /\ IsFiniteSet(s)
  BY <1>1
<1>4. CASE s = {}
  <2>1. h[s] = 0
    BY <1>3, <1>4 DEF Sums
  <2>2. i[s] = 0
    BY <1>3, <1>4 DEF Sums
  <2> QED BY <2>1, <2>2, <1>3
<1>5. CASE s # {}
  <2> DEFINE r == s \ {First(s)}
  <2>1. /\ First(s) \in s /\ r \in SUBSET U /\ Cardinality(s) \in Nat
        /\ Cardinality(r) = Cardinality(s) - 1
    BY <1>3, <1>5, Fewer
  <2>2. r \notin D
    <3> HIDE DEF D, r
    <3> QED BY <1>2, <2>1
  <2>3. h[r] = i[r]
    BY <2>1, <2>2
  <2>4. h[s] = f[First(s)] + h[r] /\ i[s] = g[First(s)] + i[r]
    BY <1>3, <1>5, SumsAre
  <2> QED BY <2>1, <2>3, <2>4, <1>3
<1> QED BY <1>4, <1>5

LEMMA SumIs ==
  ASSUME NEW f, NEW S, IsFiniteSet(S)
  PROVE  \E h : Sums(h, f, S) /\ SumFunctionOnSet(f, S) = h[S]
<1> DEFINE h == CHOOSE h : Sums(h, f, S)
<1>1. Sums(h, f, S)
  BY SumsExist
<1>2. SumFunctionOnSet(f, S) = h[S]
  BY Zenon DEF SumFunctionOnSet, FoldFunctionOnSet, MapThenFoldSet, Sums, First
<1> QED BY <1>1, <1>2

\* The sum over a set depends on nothing but the values there.
LEMMA SumSame ==
  ASSUME NEW f, NEW g, NEW S, IsFiniteSet(S), \A x \in S : f[x] = g[x]
  PROVE  SumFunctionOnSet(f, S) = SumFunctionOnSet(g, S)
<1>1. PICK h : Sums(h, f, S) /\ SumFunctionOnSet(f, S) = h[S]
  BY SumIs
<1>2. PICK i : Sums(i, g, S) /\ SumFunctionOnSet(g, S) = i[S]
  BY SumIs
<1>3. h[S] = i[S]
  <2>1. S \in SUBSET (S \cap S)
    OBVIOUS
  <2>2. \A U \in SUBSET (S \cap S) : (\A x \in U : f[x] = g[x]) => h[U] = i[U]
    BY <1>1, <1>2, SumsAgree
  <2> QED BY <2>1, <2>2
<1> QED BY <1>1, <1>2, <1>3

LEMMA SumEmpty ==
  ASSUME NEW f
  PROVE  SumFunctionOnSet(f, {}) = 0
<1>1. PICK h : Sums(h, f, {}) /\ SumFunctionOnSet(f, {}) = h[{}]
  BY SumIs, FS_EmptySet
<1> QED BY <1>1, SumsAre

LEMMA SumFirst ==
  ASSUME NEW f, NEW S, IsFiniteSet(S), S # {}
  PROVE  SumFunctionOnSet(f, S) = f[First(S)] + SumFunctionOnSet(f, S \ {First(S)})
<1> DEFINE r == S \ {First(S)}
<1>1. PICK h : Sums(h, f, S) /\ SumFunctionOnSet(f, S) = h[S]
  BY SumIs
<1>2. IsFiniteSet(r)
  BY Fewer
<1>3. PICK i : Sums(i, f, r) /\ SumFunctionOnSet(f, r) = i[r]
  BY <1>2, SumIs
<1>4. i[r] = h[r]
  <2>1. r \in SUBSET (r \cap S)
    OBVIOUS
  <2> QED BY <1>1, <1>2, <1>3, <2>1, SumsAgree
<1>5. h[S] = f[First(S)] + h[r]
  BY <1>1, SumsAre
<1> QED BY <1>1, <1>3, <1>4, <1>5

LEMMA SumInt ==
  ASSUME NEW S, IsFiniteSet(S), NEW f, \A x \in S : f[x] \in Int
  PROVE  SumFunctionOnSet(f, S) \in Int
<1> DEFINE D == {s \in SUBSET S : SumFunctionOnSet(f, s) \notin Int}
<1> SUFFICES ASSUME D # {} PROVE FALSE
  OBVIOUS
<1>1. \A s \in D : IsFiniteSet(s)
  BY FS_Subset
<1>2. PICK s \in D : \A t \in D : Cardinality(s) <= Cardinality(t)
  BY <1>1, Smallest
<1>3. SumFunctionOnSet(f, s) \notin Int /\ s \in SUBSET S /\ IsFiniteSet(s)
  BY <1>1
<1>4. s # {}
  BY <1>3, SumEmpty
<1> DEFINE r == s \ {First(s)}
<1>5. /\ First(s) \in s /\ r \in SUBSET S /\ Cardinality(s) \in Nat
      /\ Cardinality(r) = Cardinality(s) - 1
  BY <1>3, <1>4, Fewer
<1>6. r \notin D
  <2> HIDE DEF D, r
  <2> QED BY <1>2, <1>5
<1>7. SumFunctionOnSet(f, r) \in Int /\ f[First(s)] \in Int
  BY <1>5, <1>6
<1>8. SumFunctionOnSet(f, s) = f[First(s)] + SumFunctionOnSet(f, r)
  BY <1>3, <1>4, SumFirst
<1> QED BY <1>3, <1>7, <1>8

\* Any element may be taken out first.
LEMMA SumRemove ==
  ASSUME NEW S, IsFiniteSet(S), NEW f, \A x \in S : f[x] \in Int, NEW y \in S
  PROVE  SumFunctionOnSet(f, S) = f[y] + SumFunctionOnSet(f, S \ {y})
<1> DEFINE Sum(s) == SumFunctionOnSet(f, s)
           D == {s \in SUBSET S : \E x \in s : Sum(s) # f[x] + Sum(s \ {x})}
<1> SUFFICES ASSUME D # {} PROVE FALSE
  OBVIOUS
<1>1. \A s \in D : IsFiniteSet(s)
  BY FS_Subset
<1>2. PICK s \in D : \A t \in D : Cardinality(s) <= Cardinality(t)
  BY <1>1, Smallest
<1>3. s \in SUBSET S /\ IsFiniteSet(s)
  BY <1>1
<1>4. PICK x \in s : Sum(s) # f[x] + Sum(s \ {x})
  OBVIOUS
<1> DEFINE z == First(s)
           r == s \ {z}
           q == s \ {x}
           p == s \ {x, z}
<1>5. /\ z \in s /\ IsFiniteSet(r) /\ IsFiniteSet(q) /\ Cardinality(s) \in Nat
      /\ Cardinality(r) = Cardinality(s) - 1 /\ Cardinality(q) = Cardinality(s) - 1
  BY <1>3, <1>4, Fewer, FS_RemoveElement
<1>6. r \notin D /\ q \notin D
  <2> HIDE DEF D, r, q, z
  <2> QED BY <1>2, <1>5
<1>7. Sum(s) = f[z] + Sum(r)
  BY <1>3, <1>4, SumFirst
<1>8. x # z
  BY <1>4, <1>7
<1>9. r \ {x} = p /\ q \ {z} = p /\ x \in r /\ z \in q /\ r \in SUBSET S /\ q \in SUBSET S
  BY <1>3, <1>4, <1>5, <1>8
<1>10. Sum(r) = f[x] + Sum(p) /\ Sum(q) = f[z] + Sum(p)
  BY <1>6, <1>9
<1>11. f[x] \in Int /\ f[z] \in Int /\ Sum(p) \in Int
  <2>1. IsFiniteSet(p) /\ p \in SUBSET S
    BY <1>3, FS_Subset
  <2>2. Sum(p) \in Int
    BY <2>1, SumInt
  <2> QED BY <2>2, <1>3, <1>4, <1>5
<1> HIDE DEF Sum, z, r, q, p
<1> QED BY <1>4, <1>7, <1>10, <1>11 DEF q

\* One value changes.
LEMMA SumChange ==
  ASSUME NEW S, IsFiniteSet(S), NEW f, NEW g, NEW y \in S,
         \A x \in S : f[x] \in Int /\ g[x] \in Int, \A x \in S \ {y} : g[x] = f[x]
  PROVE  SumFunctionOnSet(g, S) = SumFunctionOnSet(f, S) + (g[y] - f[y])
<1> DEFINE r == S \ {y}
<1>1. SumFunctionOnSet(f, S) = f[y] + SumFunctionOnSet(f, r)
  BY SumRemove
<1>2. SumFunctionOnSet(g, S) = g[y] + SumFunctionOnSet(g, r)
  BY SumRemove
<1>3. IsFiniteSet(r)
  BY FS_RemoveElement
<1>4. SumFunctionOnSet(f, r) = SumFunctionOnSet(g, r)
  BY <1>3, SumSame
<1>5. SumFunctionOnSet(f, r) \in Int /\ f[y] \in Int /\ g[y] \in Int
  BY <1>3, SumInt
<1> QED BY <1>1, <1>2, <1>4, <1>5

\* Something moves from one place to another.
LEMMA SumMove ==
  ASSUME NEW S, IsFiniteSet(S), NEW f, NEW g, NEW y \in S, NEW z \in S, y # z,
         \A x \in S : f[x] \in Int /\ g[x] \in Int, \A x \in S \ {y, z} : g[x] = f[x],
         g[y] + g[z] = f[y] + f[z]
  PROVE  SumFunctionOnSet(g, S) = SumFunctionOnSet(f, S)
<1> DEFINE r == S \ {y}
<1>1. SumFunctionOnSet(f, S) = f[y] + SumFunctionOnSet(f, r)
  BY SumRemove
<1>2. SumFunctionOnSet(g, S) = g[y] + SumFunctionOnSet(g, r)
  BY SumRemove
<1>3. IsFiniteSet(r) /\ z \in r
  BY FS_RemoveElement
<1>4. SumFunctionOnSet(g, r) = SumFunctionOnSet(f, r) + (g[z] - f[z])
  BY <1>3, SumChange
<1>5. /\ SumFunctionOnSet(f, r) \in Int
      /\ f[y] \in Int /\ g[y] \in Int /\ f[z] \in Int /\ g[z] \in Int
  BY <1>3, SumInt
<1> QED BY <1>1, <1>2, <1>4, <1>5

\* Of natural numbers, none is larger than the sum.
LEMMA SumNat ==
  ASSUME NEW S, IsFiniteSet(S), NEW f, \A x \in S : f[x] \in Nat
  PROVE  /\ SumFunctionOnSet(f, S) \in Nat
         /\ \A y \in S : f[y] <= SumFunctionOnSet(f, S)
<1> DEFINE D == {s \in SUBSET S : SumFunctionOnSet(f, s) \notin Nat}
<1>1. D = {}
  <2> SUFFICES ASSUME D # {} PROVE FALSE
    OBVIOUS
  <2>1. \A s \in D : IsFiniteSet(s)
    BY FS_Subset
  <2>2. PICK s \in D : \A t \in D : Cardinality(s) <= Cardinality(t)
    BY <2>1, Smallest
  <2>3. SumFunctionOnSet(f, s) \notin Nat /\ s \in SUBSET S /\ IsFiniteSet(s)
    BY <2>1
  <2>4. s # {}
    BY <2>3, SumEmpty
  <2> DEFINE r == s \ {First(s)}
  <2>5. /\ First(s) \in s /\ r \in SUBSET S /\ Cardinality(s) \in Nat
        /\ Cardinality(r) = Cardinality(s) - 1
    BY <2>3, <2>4, Fewer
  <2>6. r \notin D
    <3> HIDE DEF D, r
    <3> QED BY <2>2, <2>5
  <2>7. SumFunctionOnSet(f, r) \in Nat /\ f[First(s)] \in Nat
    BY <2>5, <2>6
  <2>8. SumFunctionOnSet(f, s) = f[First(s)] + SumFunctionOnSet(f, r)
    BY <2>3, <2>4, SumFirst
  <2> QED BY <2>3, <2>7, <2>8
<1>2. ASSUME NEW y \in S PROVE f[y] <= SumFunctionOnSet(f, S)
  <2>1. SumFunctionOnSet(f, S) = f[y] + SumFunctionOnSet(f, S \ {y})
    BY SumRemove
  <2>2. SumFunctionOnSet(f, S \ {y}) \in Nat /\ f[y] \in Nat
    BY <1>1
  <2> QED BY <2>1, <2>2
<1> QED BY <1>1, <1>2

LEMMA SumZero ==
  ASSUME NEW S, IsFiniteSet(S), NEW f, \A x \in S : f[x] = 0
  PROVE  SumFunctionOnSet(f, S) = 0
<1> DEFINE D == {s \in SUBSET S : SumFunctionOnSet(f, s) # 0}
<1> SUFFICES ASSUME D # {} PROVE FALSE
  OBVIOUS
<1>1. \A s \in D : IsFiniteSet(s)
  BY FS_Subset
<1>2. PICK s \in D : \A t \in D : Cardinality(s) <= Cardinality(t)
  BY <1>1, Smallest
<1>3. SumFunctionOnSet(f, s) # 0 /\ s \in SUBSET S /\ IsFiniteSet(s)
  BY <1>1
<1>4. s # {}
  BY <1>3, SumEmpty
<1> DEFINE r == s \ {First(s)}
<1>5. /\ First(s) \in s /\ r \in SUBSET S /\ Cardinality(s) \in Nat
      /\ Cardinality(r) = Cardinality(s) - 1
  BY <1>3, <1>4, Fewer
<1>6. r \notin D
  <2> HIDE DEF D, r
  <2> QED BY <1>2, <1>5
<1>7. SumFunctionOnSet(f, r) = 0 /\ f[First(s)] = 0
  BY <1>5, <1>6
<1>8. SumFunctionOnSet(f, s) = f[First(s)] + SumFunctionOnSet(f, r)
  BY <1>3, <1>4, SumFirst
<1> QED BY <1>3, <1>7, <1>8
=============================================================================
