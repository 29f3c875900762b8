---------------------------- MODULE WalletProofs ----------------------------
(***************************************************************************)
(* Proofs about Wallet, for any number of processes on the mnemonic file,  *)
(* any widths of bytes and words and any hash.  The first part shows that  *)
(* bits and the numbers they make invert each other, hence that packing an *)
(* entropy into words and unpacking words into an entropy do.  A run of    *)
(* the processes only copies files, entropies and seeds around: the second *)
(* part uses just those two facts of the first, Inverts and Reexports.     *)
(***************************************************************************)
EXTENDS Wallet, SumTheorems, SequenceTheorems, TLAPS
(* Numbers and their bits.                                                 *)

\* The powers exist: the recursive function is built up one number at a time.
LEMMA PowersAre == Pow2 = [k \in Nat |-> IF k = 0 THEN 1 ELSE 2 * Pow2[k - 1]]
<1> DEFINE Doubles(g, n) == g = [k \in 0 .. n |-> IF k = 0 THEN 1 ELSE 2 * g[k - 1]]
           T == {n \in Nat : ~ \E g : Doubles(g, n)}
           At(n) == CHOOSE g : Doubles(g, n)
           h == [n \in Nat |-> At(n)[n]]
<1>1. ASSUME NEW n \in Nat \ {0}, NEW g, Doubles(g, n - 1)
      PROVE  Doubles([k \in 0 .. n |-> IF k = n THEN 2 * g[n - 1] ELSE g[k]], n)
  <2> DEFINE f == [k \in 0 .. n |-> IF k = n THEN 2 * g[n - 1] ELSE g[k]]
  <2>1. \A k \in 0 .. n - 1 : g[k] = IF k = 0 THEN 1 ELSE 2 * g[k - 1]
    BY <1>1
  <2>2. \A k \in 0 .. n : f[k] = IF k = 0 THEN 1 ELSE 2 * f[k - 1]
    BY <2>1
  <2>3. f = [k \in 0 .. n |-> f[k]]
    OBVIOUS
  <2> HIDE DEF f
  <2>4. f = [k \in 0 .. n |-> IF k = 0 THEN 1 ELSE 2 * f[k - 1]]
    BY <2>2, <2>3
  <2> QED BY <2>4 DEF f
<1>2. T = {}
  <2> SUFFICES ASSUME T # {} PROVE FALSE
    OBVIOUS
  <2>1. PICK n \in T : \A k \in T : n <= k
    BY Least
  <2>2. n # 0
    <3>1. Doubles([k \in 0 .. 0 |-> 1], 0)
      OBVIOUS
    <3> QED BY <3>1
  <2>3. n \in Nat /\ n - 1 \in Nat /\ n - 1 \notin T
    <3>1. n \in Nat
      OBVIOUS
    <3> HIDE DEF T
    <3> QED BY <3>1, <2>1, <2>2
  <2>4. PICK g : Doubles(g, n - 1)
    BY <2>3
  <2> HIDE DEF Doubles
  <2>5. \E f : Doubles(f, n)
    BY <1>1, <2>2, <2>3, <2>4
  <2> QED BY <2>5
<1>3. \A n \in Nat : Doubles(At(n), n)
  <2> HIDE DEF Doubles
  <2> QED BY <1>2
<1>4. ASSUME NEW n \in Nat, NEW f, NEW g, Doubles(f, n), Doubles(g, n + 1)
      PROVE  f[n] = g[n]
  <2> DEFINE D == {k \in 0 .. n : f[k] # g[k]}
  <2>1. /\ \A k \in 0 .. n : f[k] = IF k = 0 THEN 1 ELSE 2 * f[k - 1]
        /\ \A k \in 0 .. n : g[k] = IF k = 0 THEN 1 ELSE 2 * g[k - 1]
    BY <1>4
  <2>2. D = {}
    <3> SUFFICES ASSUME D # {} PROVE FALSE
      OBVIOUS
    <3>1. PICK k \in D : \A j \in D : k <= j
      <4>1. D \in SUBSET Nat
        OBVIOUS
      <4> QED BY <4>1, Least
    <3>2. k \in 0 .. n /\ f[k] # g[k]
      OBVIOUS
    <3>3. k # 0
      BY <2>1, <3>2
    <3>4. k - 1 \in 0 .. n /\ k - 1 \notin D
      <4> HIDE DEF D
      <4> QED BY <3>1, <3>2, <3>3
    <3>5. f[k - 1] = g[k - 1]
      BY <3>4
    <3> QED BY <2>1, <3>2, <3>3, <3>5
  <2> QED BY <2>2
<1>5. ASSUME NEW n \in Nat PROVE h[n] = IF n = 0 THEN 1 ELSE 2 * h[n - 1]
  <2>1. Doubles(At(n), n) /\ h[n] = At(n)[n]
    BY <1>3
  <2>2. CASE n = 0
    BY <2>1, <2>2
  <2>3. CASE n # 0
    <3>1. n - 1 \in Nat
      BY <2>3
    <3>2. Doubles(At(n - 1), n - 1) /\ h[n - 1] = At(n - 1)[n - 1]
      BY <1>3, <3>1
    <3>3. At(n)[n] = 2 * At(n)[n - 1]
      <4> HIDE DEF At
      <4> QED BY <2>1, <2>3
    <3>4. At(n - 1)[n - 1] = At(n)[n - 1]
      <4> HIDE DEF At, Doubles
      <4>1. Doubles(At(n), (n - 1) + 1)
        BY <2>1, n = (n - 1) + 1
      <4> QED BY <1>4, <3>1, <3>2, <4>1
    <3> QED BY <2>1, <2>3, <3>2, <3>3, <3>4
  <2> QED BY <2>2, <2>3
<1>6. h = [k \in Nat |-> IF k = 0 THEN 1 ELSE 2 * h[k - 1]]
  <2>1. h = [k \in Nat |-> h[k]]
    OBVIOUS
  <2> HIDE DEF h
  <2> QED BY <1>5, <2>1
<1> HIDE DEF h
<1> QED BY <1>6 DEF Pow2

LEMMA Powers ==
  /\ Pow2[0] = 1
  /\ \A k \in Nat : Pow2[k] \in Nat \ {0} /\ Pow2[k + 1] = 2 * Pow2[k]
<1>1. Pow2[0] = 1
  BY PowersAre
<1>2. \A k \in Nat : Pow2[k + 1] = 2 * Pow2[k]
  BY PowersAre
<1>3. \A k \in Nat : Pow2[k] \in Nat \ {0}
  <2> DEFINE T == {k \in Nat : Pow2[k] \notin Nat \ {0}}
  <2> SUFFICES ASSUME T # {} PROVE FALSE
    OBVIOUS
  <2>1. PICK k \in T : \A j \in T : k <= j
    BY Least
  <2>2. k \in Nat /\ Pow2[k] \notin Nat \ {0}
    OBVIOUS
  <2>3. k # 0
    BY <1>1, <2>2
  <2>4. k - 1 \in Nat /\ k - 1 \notin T
    <3> HIDE DEF T
    <3> QED BY <2>1, <2>2, <2>3
  <2>5. Pow2[k - 1] \in Nat \ {0}
    BY <2>4
  <2>6. Pow2[(k - 1) + 1] = 2 * Pow2[k - 1]
    BY <1>2, <2>4
  <2>7. (k - 1) + 1 = k
    BY <2>2
  <2> QED BY <2>2, <2>5, <2>6, <2>7
<1> QED BY <1>1, <1>2, <1>3

LEMMA SumDouble ==
  ASSUME NEW S, IsFiniteSet(S), NEW f, NEW g, \A x \in S : f[x] \in Int /\ g[x] = 2 * f[x]
  PROVE  SumFunctionOnSet(g, S) = 2 * SumFunctionOnSet(f, S)
<1> DEFINE D == {s \in SUBSET S : SumFunctionOnSet(g, s) # 2 * SumFunctionOnSet(f, s)}
<1> SUFFICES ASSUME D # {} PROVE FALSE
  OBVIOUS
<1>1. \A s \in D : IsFiniteSet(s)
  BY FS_Subset
<1>2. PICK s \in D : \A t \in D : Cardinality(s) <= Cardinality(t)
  BY <1>1, Smallest
<1>3. /\ s \in SUBSET S /\ IsFiniteSet(s)
      /\ SumFunctionOnSet(g, s) # 2 * SumFunctionOnSet(f, s)
  BY <1>1
<1>4. s # {}
  BY <1>3, SumEmpty
<1>5. PICK y \in s : TRUE
  BY <1>4
<1> DEFINE r == s \ {y}
<1>6. IsFiniteSet(r) /\ r \in SUBSET S /\ Cardinality(r) < Cardinality(s)
  <2>1. IsFiniteSet(r) /\ Cardinality(r) = Cardinality(s) - 1 /\ Cardinality(s) \in Nat
    BY <1>3, <1>5, FS_RemoveElement, FS_CardinalityType
  <2> QED BY <1>3, <2>1
<1>7. r \notin D
  <2> HIDE DEF D
  <2> QED BY <1>2, <1>3, <1>6, FS_CardinalityType
<1>8. SumFunctionOnSet(g, r) = 2 * SumFunctionOnSet(f, r)
  BY <1>6, <1>7
<1>9. /\ SumFunctionOnSet(f, s) = f[y] + SumFunctionOnSet(f, r)
      /\ SumFunctionOnSet(g, s) = g[y] + SumFunctionOnSet(g, r)
  BY <1>3, <1>5, SumRemove
<1>10. SumFunctionOnSet(f, r) \in Int /\ f[y] \in Int /\ g[y] = 2 * f[y]
  BY <1>3, <1>5, <1>6, SumInt
<1> HIDE DEF r, D
<1> QED BY <1>3, <1>8, <1>9, <1>10

\* What w bits are worth, the first of them most.
Weighted(b, w) == [i \in 0 .. w - 1 |-> b[i] * Pow2[w - 1 - i]]
Value(b, w)    == SumFunctionOnSet(Weighted(b, w), 0 .. w - 1)
AreBits(b, w)  == \A i \in 0 .. w - 1 : b[i] \in {0, 1}

LEMMA ValueSame ==
  ASSUME NEW w \in Nat, NEW b, NEW c, \A i \in 0 .. w - 1 : b[i] = c[i]
  PROVE  Value(b, w) = Value(c, w)
<1>1. \A i \in 0 .. w - 1 : Weighted(b, w)[i] = Weighted(c, w)[i]
  BY DEF Weighted
<1>2. IsFiniteSet(0 .. w - 1)
  BY FS_Interval
<1> QED BY <1>1, <1>2, SumSame DEF Value

\* One bit more doubles the value.
LEMMA Horner ==
  ASSUME NEW w \in Nat, NEW b, AreBits(b, w + 1)
  PROVE  /\ Value(b, w) \in Int
         /\ Value(b, w + 1) = 2 * Value(b, w) + b[w]
<1> DEFINE f == Weighted(b, w)
           g == Weighted(b, w + 1)
           S == 0 .. w - 1
<1>1. IsFiniteSet(S) /\ IsFiniteSet(0 .. w)
  BY FS_Interval
<1>2. \A i \in 0 .. w : b[i] \in {0, 1}
  BY DEF AreBits
<1>3. ASSUME NEW i \in S PROVE f[i] \in Int /\ g[i] = 2 * f[i]
  <2>1. f[i] = b[i] * Pow2[w - 1 - i] /\ g[i] = b[i] * Pow2[w - i]
    BY DEF Weighted
  <2>2. w - 1 - i \in Nat /\ w - i = (w - 1 - i) + 1
    OBVIOUS
  <2>3. Pow2[w - i] = 2 * Pow2[w - 1 - i] /\ Pow2[w - 1 - i] \in Nat
    BY <2>2, Powers
  <2>4. b[i] = 0 \/ b[i] = 1
    BY <1>2
  <2> HIDE DEF f, g
  <2> QED BY <2>1, <2>3, <2>4
<1>4. g[w] = b[w] /\ b[w] \in Int
  <2>1. g[w] = b[w] * Pow2[0]
    BY (w + 1) - 1 - w = 0 DEF Weighted
  <2>2. b[w] = 0 \/ b[w] = 1
    BY <1>2
  <2> HIDE DEF g
  <2> QED BY <2>1, <2>2, Powers
<1>5. \A i \in 0 .. w : g[i] \in Int
  BY <1>3, <1>4
<1>6. 0 .. (w + 1) - 1 = 0 .. w /\ (0 .. w) \ {w} = S /\ w \in 0 .. w
  OBVIOUS
<1> HIDE DEF f, g
<1>7. SumFunctionOnSet(g, 0 .. w) = g[w] + SumFunctionOnSet(g, (0 .. w) \ {w})
  BY <1>1, <1>5, <1>6, SumRemove
<1> HIDE DEF S
<1>8. SumFunctionOnSet(g, S) = 2 * SumFunctionOnSet(f, S) /\ SumFunctionOnSet(f, S) \in Int
  BY <1>1, <1>3, SumDouble, SumInt
<1>9. SumFunctionOnSet(g, 0 .. w) = b[w] + 2 * SumFunctionOnSet(f, S)
  BY <1>4, <1>6, <1>7, <1>8
<1>10. Value(b, w) = SumFunctionOnSet(f, S)
  BY DEF Value, S, f
<1>11. Value(b, w + 1) = SumFunctionOnSet(g, 0 .. w)
  BY <1>6 DEF Value, g
<1> QED BY <1>4, <1>8, <1>9, <1>10, <1>11

LEMMA DivIs ==
  ASSUME NEW n \in Nat, NEW p \in Nat \ {0}, NEW q \in Nat, q * p <= n, n < q * p + p
  PROVE  n \div p = q /\ n % p = n - q * p
<1> DEFINE d == n \div p
<1>1. d \in Nat /\ d * p <= n /\ n < d * p + p /\ n % p = n - d * p
  OBVIOUS
<1> HIDE DEF d
<1>2. ~(d < q)
  <2> SUFFICES ASSUME d + 1 <= q PROVE FALSE
    BY <1>1
  <2>1. (d + 1) * p <= q * p /\ (d + 1) * p = d * p + p
    BY <1>1
  <2> QED BY <2>1, <1>1
<1>3. ~(q < d)
  <2> SUFFICES ASSUME q + 1 <= d PROVE FALSE
    BY <1>1
  <2>1. (q + 1) * p <= d * p /\ (q + 1) * p = q * p + p
    BY <1>1
  <2> QED BY <2>1, <1>1
<1>4. d = q
  BY <1>1, <1>2, <1>3
<1> QED BY <1>1, <1>4 DEF d

LEMMA DivTwice ==
  ASSUME NEW n \in Nat, NEW p \in Nat \ {0}
  PROVE  n \div (2 * p) = (n \div 2) \div p
<1> DEFINE m == n \div 2
           q == m \div p
<1>1. m \in Nat /\ 2 * m <= n /\ n < 2 * m + 2
  OBVIOUS
<1>2. q \in Nat /\ q * p <= m /\ m < q * p + p
  OBVIOUS
<1> HIDE DEF m, q
<1>3. q * p \in Nat /\ q * (2 * p) = 2 * (q * p)
  BY <1>2
<1>4. q * (2 * p) <= n /\ n < q * (2 * p) + 2 * p
  BY <1>1, <1>2, <1>3
<1>5. 2 * p \in Nat \ {0}
  OBVIOUS
<1>6. n \div (2 * p) = q
  BY <1>2, <1>4, <1>5, DivIs
<1> QED BY <1>6 DEF q, m

\* A bit of a number but the last is a bit of its half.
LEMMA BitOfHalf ==
  ASSUME NEW w \in Nat, NEW n \in Nat
  PROVE  /\ \A i \in 0 .. w - 1 : Bit(n, i, w + 1) = Bit(n \div 2, i, w)
         /\ Bit(n, w, w + 1) = n % 2
<1>1. ASSUME NEW i \in 0 .. w - 1 PROVE Bit(n, i, w + 1) = Bit(n \div 2, i, w)
  <2>1. w - 1 - i \in Nat /\ w + 1 - 1 - i = (w - 1 - i) + 1
    OBVIOUS
  <2>2. Pow2[w + 1 - 1 - i] = 2 * Pow2[w - 1 - i] /\ Pow2[w - 1 - i] \in Nat \ {0}
    BY <2>1, Powers
  <2>3. n \div Pow2[w + 1 - 1 - i] = (n \div 2) \div Pow2[w - 1 - i]
    BY <2>2, DivTwice
  <2> QED BY <2>3 DEF Bit
<1>2. Bit(n, w, w + 1) = n % 2
  BY Powers, w + 1 - 1 - w = 0, n \div 1 = n DEF Bit
<1> QED BY <1>1, <1>2

\* The bits of a number make it up again.
LEMMA BitsOfNumber ==
  \A w \in Nat : \A n \in 0 .. Pow2[w] - 1 : Value([i \in 0 .. w - 1 |-> Bit(n, i, w)], w) = n
<1> DEFINE B(n, w) == [i \in 0 .. w - 1 |-> Bit(n, i, w)]
           T == {w \in Nat : \E n \in 0 .. Pow2[w] - 1 : Value(B(n, w), w) # n}
<1> SUFFICES ASSUME T # {} PROVE FALSE
  OBVIOUS
<1>1. PICK w \in T : \A v \in T : w <= v
  BY Least
<1>2. PICK n \in 0 .. Pow2[w] - 1 : Value(B(n, w), w) # n
  OBVIOUS
<1>3. w \in Nat /\ Pow2[w] \in Nat /\ n \in Nat
  <2>1. w \in Nat
    OBVIOUS
  <2>2. Pow2[w] \in Nat
    BY <2>1, Powers
  <2> QED BY <1>2, <2>1, <2>2
<1>4. w # 0
  <2> SUFFICES ASSUME w = 0 PROVE FALSE
    OBVIOUS
  <2>1. n = 0
    BY Powers, <1>2
  <2>2. 0 .. w - 1 = {}
    OBVIOUS
  <2>3. Value(B(n, w), w) = 0
    BY <2>2, SumEmpty DEF Value
  <2> QED BY <1>2, <2>1, <2>3
<1> DEFINE v == w - 1
           m == n \div 2
<1>5. v \in Nat /\ v \notin T /\ w = v + 1
  <2> HIDE DEF T
  <2> QED BY <1>1, <1>3, <1>4
<1>6. Pow2[w] = 2 * Pow2[v]
  BY <1>5, Powers
<1>7. m \in Nat /\ m < Pow2[v] /\ Pow2[v] \in Nat /\ n = 2 * m + (n % 2) /\ n % 2 \in {0, 1}
  <2>1. Pow2[v] \in Nat
    BY <1>5, Powers
  <2> HIDE DEF v
  <2> QED BY <1>2, <1>3, <1>6, <2>1
<1> HIDE DEF v
<1>8. Value(B(m, v), v) = m
  <2>1. m \in 0 .. Pow2[v] - 1
    BY <1>7
  <2>2. \A k \in 0 .. Pow2[v] - 1 : Value(B(k, v), v) = k
    BY <1>5
  <2> HIDE DEF m, B
  <2> QED BY <2>1, <2>2
<1> DEFINE b == B(n, w)
<1>9. /\ \A i \in 0 .. v - 1 : b[i] = Bit(m, i, v)
      /\ b[v] = n % 2
  <2>1. /\ \A i \in 0 .. v - 1 : Bit(n, i, v + 1) = Bit(m, i, v)
        /\ Bit(n, v, v + 1) = n % 2
    BY <1>3, <1>5, BitOfHalf
  <2>2. \A i \in 0 .. v : b[i] = Bit(n, i, v + 1)
    BY <1>3, <1>5
  <2> QED BY <1>5, <2>1, <2>2
<1>10. Value(b, v) = Value(B(m, v), v)
  <2>1. \A i \in 0 .. v - 1 : b[i] = B(m, v)[i]
    BY <1>9
  <2> HIDE DEF b, B, m
  <2> QED BY <1>5, <2>1, ValueSame
<1>11. AreBits(b, v + 1)
  <2>1. \A i \in 0 .. v : b[i] = Bit(n, i, w)
    BY <1>5
  <2>2. ASSUME NEW i \in 0 .. v PROVE Bit(n, i, w) \in {0, 1}
    <3>1. w - 1 - i \in Nat
      BY <1>3, <1>5
    <3>2. Pow2[w - 1 - i] \in Nat \ {0}
      BY <3>1, Powers
    <3> QED BY <1>3, <3>2 DEF Bit
  <2> QED BY <1>5, <2>1, <2>2 DEF AreBits
<1> HIDE DEF b, m, B
<1>12. Value(b, w) = 2 * Value(b, v) + b[v]
  BY <1>5, <1>11, Horner
<1>13. Value(b, w) = 2 * m + (n % 2)
  BY <1>8, <1>9, <1>10, <1>12
<1> QED BY <1>2, <1>7, <1>13 DEF b

\* A number has the bits that make it up.
LEMMA NumberOfBits ==
  \A w \in Nat : \A b : AreBits(b, w) =>
    /\ Value(b, w) \in 0 .. Pow2[w] - 1
    /\ \A i \in 0 .. w - 1 : Bit(Value(b, w), i, w) = b[i]
<1> DEFINE P(b, w) == /\ Value(b, w) \in 0 .. Pow2[w] - 1
                      /\ \A i \in 0 .. w - 1 : Bit(Value(b, w), i, w) = b[i]
           T == {w \in Nat : ~ \A b : AreBits(b, w) => P(b, w)}
<1> SUFFICES ASSUME T # {} PROVE FALSE
  OBVIOUS
<1>1. PICK w \in T : \A v \in T : w <= v
  BY Least
<1>2. PICK b : AreBits(b, w) /\ ~P(b, w)
  OBVIOUS
<1>3. w \in Nat
  OBVIOUS
<1>4. w # 0
  <2> SUFFICES ASSUME w = 0 PROVE FALSE
    OBVIOUS
  <2>1. 0 .. w - 1 = {}
    OBVIOUS
  <2>2. Value(b, w) = 0
    BY <2>1, SumEmpty DEF Value
  <2>3. P(b, w)
    BY <2>1, <2>2, Powers
  <2> QED BY <1>2, <2>3
<1> DEFINE v == w - 1
           N == Value(b, w)
           M == Value(b, v)
<1>5. v \in Nat /\ v \notin T /\ w = v + 1
  <2> HIDE DEF T
  <2> QED BY <1>1, <1>3, <1>4
<1>6. AreBits(b, v)
  BY <1>2, <1>5 DEF AreBits
<1>7. P(b, v)
  BY <1>5, <1>6
<1>8. N = 2 * M + b[v] /\ b[v] \in {0, 1}
  <2> HIDE DEF v
  <2>1. b[v] \in {0, 1}
    BY <1>2, <1>5 DEF AreBits
  <2> QED BY <1>2, <1>5, <2>1, Horner
<1>9. Pow2[w] = 2 * Pow2[v] /\ Pow2[v] \in Nat
  BY <1>5, Powers
<1> HIDE DEF v, N, M
<1>10. M \in 0 .. Pow2[v] - 1 /\ \A i \in 0 .. v - 1 : Bit(M, i, v) = b[i]
  BY <1>7 DEF M
<1>11. N \in 0 .. Pow2[w] - 1 /\ N \div 2 = M /\ N % 2 = b[v] /\ N \in Nat
  BY <1>8, <1>9, <1>10
<1>12. \A i \in 0 .. w - 1 : Bit(N, i, w) = b[i]
  <2>1. ASSUME NEW i \in 0 .. w - 1 PROVE Bit(N, i, w) = b[i]
    <3>1. CASE i = v
      BY <1>5, <1>11, <3>1, BitOfHalf
    <3>2. CASE i # v
      <4>1. i \in 0 .. v - 1
        BY <1>5, <3>2
      <4> QED BY <1>5, <1>10, <1>11, <4>1, BitOfHalf
    <3> QED BY <3>1, <3>2
  <2> QED BY <2>1
<1> QED BY <1>2, <1>11, <1>12 DEF N

(* Strings of bits that are read in groups of one width and of another.    *)

LEMMA BitIsBit ==
  ASSUME NEW n \in Nat, NEW w \in Nat, NEW i \in 0 .. w - 1
  PROVE  Bit(n, i, w) \in {0, 1}
<1>1. w - 1 - i \in Nat
  OBVIOUS
<1>2. Pow2[w - 1 - i] \in Nat \ {0}
  BY <1>1, Powers
<1> QED BY <1>2 DEF Bit

Widths == {w \in Nat \ {0} : TotalBits % w = 0}

LEMMA WidthsAre ==
  /\ ByteBits \in Widths /\ WordBits \in Widths /\ EntropyBytes \in Nat \ {0}
  /\ TotalBits \in Nat /\ TotalBits \div ByteBits = EntropyBytes + 1
  /\ Full = TotalBits \div WordBits /\ Full \in Nat
<1>1. ByteBits \in Nat \ {0} /\ WordBits \in Nat \ {0} /\ EntropyBytes \in Nat \ {0}
  BY WalletAssumption
<1>2. TotalBits \in Nat /\ TotalBits = (EntropyBytes + 1) * ByteBits
  BY <1>1 DEF TotalBits
<1>3. TotalBits \div ByteBits = EntropyBytes + 1 /\ TotalBits % ByteBits = 0
  <2>1. EntropyBytes + 1 \in Nat
    BY <1>1
  <2>2. TotalBits < (EntropyBytes + 1) * ByteBits + ByteBits
    BY <1>1, <1>2
  <2>3. TotalBits - (EntropyBytes + 1) * ByteBits = 0
    BY <1>2
  <2> QED BY <1>1, <1>2, <2>1, <2>2, <2>3, DivIs
<1>4. TotalBits % WordBits = 0
  BY WalletAssumption
<1> QED BY <1>1, <1>2, <1>3, <1>4 DEF Widths, Full

\* A bit i is in the group i \div w, at the place i % w of it.
LEMMA Places ==
  ASSUME NEW w \in Widths, NEW i \in 0 .. TotalBits - 1
  PROVE  /\ i \div w + 1 \in 1 .. TotalBits \div w /\ i % w \in 0 .. w - 1
         /\ i = ((i \div w + 1) - 1) * w + (i % w)
<1> DEFINE q == i \div w
           d == TotalBits \div w
<1>0. TotalBits \in Nat /\ w \in Nat \ {0} /\ TotalBits % w = 0
  BY WidthsAre DEF Widths
<1>1. q \in Nat /\ i % w \in 0 .. w - 1 /\ i = q * w + (i % w)
  BY <1>0
<1>2. d \in Nat /\ TotalBits = d * w
  BY <1>0
<1> HIDE DEF q, d
<1>3. q < d
  <2> SUFFICES ASSUME d <= q PROVE FALSE
    BY <1>1, <1>2
  <2>1. d * w <= q * w
    BY <1>0, <1>1, <1>2
  <2> QED BY <2>1, <1>0, <1>1, <1>2
<1> QED BY <1>1, <1>2, <1>3 DEF q, d

LEMMA Place ==
  ASSUME NEW w \in Widths, NEW k \in 1 .. TotalBits \div w, NEW j \in 0 .. w - 1
  PROVE  LET i == (k - 1) * w + j
         IN  i \in 0 .. TotalBits - 1 /\ i \div w + 1 = k /\ i % w = j
<1> DEFINE i == (k - 1) * w + j
           d == TotalBits \div w
           a == (k - 1) * w
<1>0. TotalBits \in Nat /\ w \in Nat \ {0} /\ TotalBits % w = 0
  BY WidthsAre DEF Widths
<1>1. d \in Nat /\ TotalBits = d * w /\ k \in 1 .. d
  BY <1>0
<1>2. a \in Nat /\ a + w = k * w
  BY <1>0, <1>1
<1> HIDE DEF d, a
<1>3. k * w <= d * w
  BY <1>0, <1>1
<1>4. i = a + j
  BY DEF a
<1> HIDE DEF i
<1>5. i \in 0 .. TotalBits - 1
  <2>1. k * w \in Nat /\ d * w \in Nat
    BY <1>0, <1>1
  <2> HIDE DEF Widths
  <2> QED BY <1>0, <1>1, <1>2, <1>3, <1>4, <2>1
<1>6. i \div w = k - 1 /\ i % w = i - a
  <2>1. i \in Nat /\ k - 1 \in Nat /\ a <= i /\ i < a + w
    BY <1>0, <1>1, <1>2, <1>4, <1>5
  <2> QED BY <1>0, <2>1, DivIs DEF a
<1>7. i \div w + 1 = k /\ i % w = j
  BY <1>0, <1>1, <1>2, <1>4, <1>6
<1> QED BY <1>5, <1>7 DEF i

LEMMA GroupIs ==
  ASSUME NEW bits, NEW w \in Widths, NEW k \in 1 .. TotalBits \div w, NEW b,
         \A j \in 0 .. w - 1 : b[j] = bits[(k - 1) * w + j]
  PROVE  Group(bits, w)[k] = Value(b, w)
<1> DEFINE f == [i \in 0 .. w - 1 |-> bits[(k - 1) * w + i] * Pow2[w - 1 - i]]
<1>1. Group(bits, w)[k] = SumFunctionOnSet(f, 0 .. w - 1)
  BY DEF Group
<1>2. \A j \in 0 .. w - 1 : f[j] = Weighted(b, w)[j]
  BY DEF Weighted
<1>3. IsFiniteSet(0 .. w - 1)
  BY FS_Interval DEF Widths
<1> DEFINE g == Weighted(b, w)
<1> HIDE DEF f
<1>4. SumFunctionOnSet(f, 0 .. w - 1) = SumFunctionOnSet(g, 0 .. w - 1)
  <2> HIDE DEF g
  <2> QED BY <1>2, <1>3, SumSame DEF g
<1> QED BY <1>1, <1>4 DEF Value

\* Groups of bits are numbers of so many bits, and have the bits of the string.
LEMMA GroupBits ==
  ASSUME NEW bits, AreBits(bits, TotalBits), NEW w \in Widths
  PROVE  /\ \A k \in 1 .. TotalBits \div w : Group(bits, w)[k] \in 0 .. Pow2[w] - 1
         /\ \A i \in 0 .. TotalBits - 1 :
              Bit(Group(bits, w)[i \div w + 1], i % w, w) = bits[i]
<1>1. ASSUME NEW k \in 1 .. TotalBits \div w
      PROVE  /\ Group(bits, w)[k] \in 0 .. Pow2[w] - 1
             /\ \A j \in 0 .. w - 1 : Bit(Group(bits, w)[k], j, w) = bits[(k - 1) * w + j]
  <2> DEFINE b == [j \in 0 .. w - 1 |-> bits[(k - 1) * w + j]]
  <2>1. \A j \in 0 .. w - 1 : (k - 1) * w + j \in 0 .. TotalBits - 1
    BY Place
  <2>2. AreBits(b, w)
    BY <2>1 DEF AreBits
  <2>4. \A j \in 0 .. w - 1 : b[j] = bits[(k - 1) * w + j]
    OBVIOUS
  <2> HIDE DEF b
  <2>3. Group(bits, w)[k] = Value(b, w)
    BY <2>4, GroupIs
  <2>5. w \in Nat
    BY DEF Widths
  <2> QED BY <2>2, <2>3, <2>4, <2>5, NumberOfBits
<1>2. ASSUME NEW i \in 0 .. TotalBits - 1
      PROVE  Bit(Group(bits, w)[i \div w + 1], i % w, w) = bits[i]
  <2> DEFINE k == i \div w + 1
             j == i % w
  <2>1. k \in 1 .. TotalBits \div w /\ j \in 0 .. w - 1 /\ i = (k - 1) * w + j
    BY Places
  <2> HIDE DEF k, j
  <2>2. Bit(Group(bits, w)[k], j, w) = bits[(k - 1) * w + j]
    BY <1>1, <2>1
  <2> QED BY <2>1, <2>2 DEF k, j
<1> QED BY <1>1, <1>2

\* A group of the bits of a number is the number.
LEMMA BitsGroup ==
  ASSUME NEW bits, NEW w \in Widths, NEW k \in 1 .. TotalBits \div w,
         NEW x \in 0 .. Pow2[w] - 1,
         \A j \in 0 .. w - 1 : bits[(k - 1) * w + j] = Bit(x, j, w)
  PROVE  Group(bits, w)[k] = x
<1> DEFINE b == [j \in 0 .. w - 1 |-> Bit(x, j, w)]
<1>1. \A j \in 0 .. w - 1 : b[j] = bits[(k - 1) * w + j]
  OBVIOUS
<1>2. Value(b, w) = x
  BY BitsOfNumber DEF Widths
<1> HIDE DEF b
<1> QED BY <1>1, <1>2, GroupIs

LEMMA GroupShape ==
  ASSUME NEW bits, NEW w
  PROVE  Group(bits, w) = [k \in 1 .. TotalBits \div w |-> Group(bits, w)[k]]
BY DEF Group

----------------------------------------------------------------------------
(* The packing of a wallet.                                                *)

BitsOf(x) == [i \in 0 .. TotalBits - 1 |-> Bit(x[i \div ByteBits + 1], i % ByteBits, ByteBits)]
BitsIn(m) == [i \in 0 .. TotalBits - 1 |->
                IF i \div WordBits < Len(m)
                THEN Bit(Found(m[i \div WordBits + 1]), i % WordBits, WordBits)
                ELSE 0]

\* An entropy with its checksum byte.
LEMMA HashedIs ==
  ASSUME NEW e \in Entropy
  PROVE  LET x == Append(e, Hash[e])
         IN  /\ \A k \in 1 .. EntropyBytes : x[k] = e[k]
             /\ x[EntropyBytes + 1] = Hash[e]
             /\ \A k \in 1 .. EntropyBytes + 1 : x[k] \in 0 .. Pow2[ByteBits] - 1
<1>1. e \in Seq(Byte) /\ Len(e) = EntropyBytes /\ EntropyBytes \in Nat
  <2>1. EntropyBytes \in Nat
    BY WidthsAre
  <2>2. e \in UNION {[1 .. n -> Byte] : n \in Nat}
    BY <2>1 DEF Entropy
  <2>3. e \in Seq(Byte)
    BY <2>2, SeqDef
  <2>4. DOMAIN e = 1 .. EntropyBytes
    BY DEF Entropy
  <2> QED BY <2>1, <2>3, <2>4
<1>2. Hash[e] \in Byte
  BY WalletAssumption
<1> HIDE DEF Byte
<1>3. /\ \A k \in 1 .. EntropyBytes : Append(e, Hash[e])[k] = e[k]
      /\ Append(e, Hash[e])[EntropyBytes + 1] = Hash[e]
  BY <1>1, <1>2
<1>4. ASSUME NEW k \in 1 .. EntropyBytes + 1 PROVE Append(e, Hash[e])[k] \in Byte
  <2>1. CASE k = EntropyBytes + 1
    BY <1>2, <1>3, <2>1
  <2>2. CASE k # EntropyBytes + 1
    <3>1. k \in 1 .. EntropyBytes
      BY <1>1, <2>2
    <3>2. e[k] \in Byte
      BY <3>1 DEF Entropy
    <3> QED BY <1>3, <3>1, <3>2
  <2> QED BY <2>1, <2>2
<1> QED BY <1>3, <1>4 DEF Byte

LEMMA BitsOfAre ==
  ASSUME NEW x, \A k \in 1 .. EntropyBytes + 1 : x[k] \in 0 .. Pow2[ByteBits] - 1
  PROVE  AreBits(BitsOf(x), TotalBits)
<1> SUFFICES ASSUME NEW i \in 0 .. TotalBits - 1 PROVE BitsOf(x)[i] \in {0, 1}
  BY DEF AreBits
<1>1. i \div ByteBits + 1 \in 1 .. EntropyBytes + 1 /\ i % ByteBits \in 0 .. ByteBits - 1
  BY Places, WidthsAre
<1>2. ByteBits \in Nat /\ Pow2[ByteBits] \in Nat
  BY WidthsAre, Powers DEF Widths
<1>3. x[i \div ByteBits + 1] \in Nat
  BY <1>1, <1>2
<1> QED BY <1>1, <1>2, <1>3, BitIsBit DEF BitsOf

\* What export_mnemonic spells generate_from_mnemonic reads as it was, the
\* checksum included: 33 bytes in 24 words, for any widths that fit.
LEMMA Inverts == PackingInverts
<1> SUFFICES ASSUME NEW e \in Entropy
             PROVE  Accepted(Spelt(e)) /\ EntropyOf(Spelt(e)) = e
  BY DEF PackingInverts
<1> DEFINE x == Append(e, Hash[e])
           bits == BitsOf(x)
           y == Group(bits, WordBits)
           m == Spelt(e)
           z == Group(BitsIn(m), ByteBits)
<1>w. ByteBits \in Widths /\ WordBits \in Widths /\ Full = TotalBits \div WordBits
      /\ Full \in Nat /\ TotalBits \div ByteBits = EntropyBytes + 1
      /\ EntropyBytes \in Nat \ {0} /\ TotalBits \in Nat
  BY WidthsAre
<1>1. /\ \A k \in 1 .. EntropyBytes : x[k] = e[k]
      /\ x[EntropyBytes + 1] = Hash[e]
      /\ \A k \in 1 .. EntropyBytes + 1 : x[k] \in 0 .. Pow2[ByteBits] - 1
  BY HashedIs
<1>2. export_mnemonic(e) = y
  BY DEF export_mnemonic, BitsOf
<1>3. m = [k \in 1 .. Full |-> 2 * y[k]]
  BY <1>2 DEF Spelt
<1> HIDE DEF x
<1>4. AreBits(bits, TotalBits)
  BY <1>1, BitsOfAre
<1> HIDE DEF bits
<1>5. /\ \A k \in 1 .. Full : y[k] \in 0 .. Pow2[WordBits] - 1
      /\ \A i \in 0 .. TotalBits - 1 : Bit(y[i \div WordBits + 1], i % WordBits, WordBits) = bits[i]
  BY <1>4, <1>w, GroupBits
<1> HIDE DEF y, m
<1>6. Len(m) = Full /\ DOMAIN m = 1 .. Full
  BY <1>3, <1>w
<1>7. ASSUME NEW k \in 1 .. Full PROVE Found(m[k]) = y[k] /\ y[k] \in Word
  <2>1. y[k] \in 0 .. Pow2[WordBits] - 1 /\ m[k] = 2 * y[k]
    BY <1>3, <1>5
  <2>2. Pow2[WordBits] \in Nat
    BY <1>w, Powers DEF Widths
  <2>3. (2 * y[k] + 1) \div 2 = y[k]
    BY <2>1, <2>2
  <2> QED BY <2>1, <2>3 DEF Found, Word
<1>8. ASSUME NEW i \in 0 .. TotalBits - 1 PROVE BitsIn(m)[i] = bits[i]
  <2>1. i \div WordBits + 1 \in 1 .. Full
    BY <1>w, Places
  <2>2. i \div WordBits \in Int
    BY <1>w DEF Widths
  <2>3. i \div WordBits < Len(m)
    BY <1>w, <1>6, <2>1, <2>2
  <2>4. Found(m[i \div WordBits + 1]) = y[i \div WordBits + 1]
    BY <1>7, <2>1
  <2>5. BitsIn(m)[i] = Bit(y[i \div WordBits + 1], i % WordBits, WordBits)
    BY <2>3, <2>4 DEF BitsIn
  <2> QED BY <1>5, <2>5
<1>9. ASSUME NEW k \in 1 .. EntropyBytes + 1 PROVE z[k] = x[k]
  <2>1. ASSUME NEW j \in 0 .. ByteBits - 1
        PROVE  BitsIn(m)[(k - 1) * ByteBits + j] = Bit(x[k], j, ByteBits)
    <3> DEFINE i == (k - 1) * ByteBits + j
    <3>1. i \in 0 .. TotalBits - 1 /\ i \div ByteBits + 1 = k /\ i % ByteBits = j
      BY <1>w, Place
    <3> HIDE DEF i
    <3>2. bits[i] = Bit(x[k], j, ByteBits)
      BY <3>1 DEF bits, BitsOf
    <3>3. BitsIn(m)[i] = bits[i]
      BY <1>8, <3>1
    <3> QED BY <3>2, <3>3 DEF i
  <2>2. x[k] \in 0 .. Pow2[ByteBits] - 1
    BY <1>1
  <2> QED BY <1>w, <2>1, <2>2, BitsGroup
<1>10. Bytes(m) = z
  BY DEF Bytes, BitsIn
<1> HIDE DEF z
<1>11. EntropyOf(m) = e
  <2> DEFINE s == SubSeq(z, 1, EntropyBytes)
  <2>1. \A k \in 1 .. EntropyBytes : z[k] \in Byte
    BY <1>1, <1>9, <1>w DEF Byte
  <2>2. s \in Seq(Byte) /\ Len(s) = EntropyBytes /\ \A k \in 1 .. EntropyBytes : s[k] = z[k]
    <3>1. /\ s \in Seq(Byte)
          /\ Len(s) = IF 1 <= EntropyBytes THEN EntropyBytes - 1 + 1 ELSE 0
          /\ \A k \in 1 .. EntropyBytes - 1 + 1 : s[k] = z[1 + k - 1]
      <4> HIDE DEF s
      <4>1. EntropyBytes \in Int /\ 1 \in Int
        BY <1>w
      <4> QED BY <2>1, <4>1, SubSeqProperties DEF s
    <3> HIDE DEF s
    <3>2. EntropyBytes - 1 + 1 = EntropyBytes /\ 1 <= EntropyBytes
      BY <1>w
    <3>3. ASSUME NEW k \in 1 .. EntropyBytes PROVE s[k] = z[k]
      <4>1. 1 + k - 1 = k /\ k \in 1 .. EntropyBytes - 1 + 1
        BY <1>w
      <4> QED BY <3>1, <4>1
    <3> QED BY <3>1, <3>2, <3>3
  <2> HIDE DEF s
  <2>3. DOMAIN s = 1 .. EntropyBytes /\ DOMAIN e = 1 .. EntropyBytes
    BY <2>2, <1>w DEF Entropy
  <2>4. \A k \in 1 .. EntropyBytes : s[k] = e[k]
    BY <1>1, <1>9, <1>w, <2>2
  <2>5. s = e
    <3>1. s = [k \in 1 .. EntropyBytes |-> s[k]]
      BY <2>2, <2>3
    <3>2. e = [k \in 1 .. EntropyBytes |-> e[k]]
      BY DEF Entropy
    <3> QED BY <2>4, <3>1, <3>2
  <2> QED BY <1>10, <2>5 DEF EntropyOf, s
<1>12. Accepted(m)
  <2>1. Len(m) \in Counts
    BY <1>6, WalletAssumption
  <2>2. \A k \in DOMAIN m : Found(m[k]) \in Word
    BY <1>6, <1>7
  <2>3. Bytes(m)[EntropyBytes + 1] = Hash[EntropyOf(m)]
    BY <1>1, <1>9, <1>10, <1>11, <1>w
  <2> QED BY <2>1, <2>2, <2>3 DEF Accepted
<1> QED BY <1>11, <1>12 DEF m

\* The bits of the words of a mnemonic, and zeros for those it lacks.
LEMMA BitsInAre ==
  ASSUME NEW m, DOMAIN m = 1 .. Len(m), Len(m) \in Nat,
         \A k \in DOMAIN m : Found(m[k]) \in Word
  PROVE  AreBits(BitsIn(m), TotalBits)
<1> SUFFICES ASSUME NEW i \in 0 .. TotalBits - 1 PROVE BitsIn(m)[i] \in {0, 1}
  BY DEF AreBits
<1>1. i \div WordBits + 1 \in 1 .. TotalBits \div WordBits /\ i % WordBits \in 0 .. WordBits - 1
  BY Places, WidthsAre
<1>2. WordBits \in Nat \ {0} /\ Pow2[WordBits] \in Nat /\ i \div WordBits \in Nat
  <2>1. WordBits \in Nat \ {0} /\ TotalBits \in Nat
    BY WidthsAre DEF Widths
  <2>2. Pow2[WordBits] \in Nat
    BY <2>1, Powers
  <2>3. i \in Nat
    BY <2>1
  <2>4. i \div WordBits \in Nat
    BY <2>1, <2>3, DivIs
  <2> QED BY <2>1, <2>2, <2>4
<1>3. CASE i \div WordBits < Len(m)
  <2>1. i \div WordBits + 1 \in DOMAIN m
    BY <1>2, <1>3
  <2>2. Found(m[i \div WordBits + 1]) \in Nat
    BY <1>2, <2>1 DEF Word
  <2> QED BY <1>1, <1>2, <1>3, <2>2, BitIsBit DEF BitsIn
<1>4. CASE ~(i \div WordBits < Len(m))
  BY <1>4 DEF BitsIn
<1> QED BY <1>3, <1>4

\* The words that generate_from_mnemonic accepted are exported again, followed
\* by the first word of the list where the mnemonic was a short one.
LEMMA Reexports ==
  ASSUME NEW m, DOMAIN m = 1 .. Len(m), Accepted(m)
  PROVE  export_mnemonic(EntropyOf(m)) =
           [k \in 1 .. Full |-> IF k <= Len(m) THEN Found(m[k]) ELSE 0]
<1> DEFINE bits == BitsIn(m)
           z == Group(bits, ByteBits)
           e == SubSeq(z, 1, EntropyBytes)
           x == Append(e, Hash[e])
           y == Group(BitsOf(x), WordBits)
           c == [k \in 1 .. Full |-> IF k <= Len(m) THEN Found(m[k]) ELSE 0]
<1>w. ByteBits \in Widths /\ WordBits \in Widths /\ Full = TotalBits \div WordBits
      /\ Full \in Nat /\ TotalBits \div ByteBits = EntropyBytes + 1
      /\ EntropyBytes \in Nat \ {0} /\ TotalBits \in Nat
  BY WidthsAre
<1>1. Bytes(m) = z /\ EntropyOf(m) = e
  BY DEF Bytes, BitsIn, EntropyOf
<1>2. /\ Len(m) \in 1 .. Full /\ Len(m) \in Nat
      /\ \A k \in DOMAIN m : Found(m[k]) \in Word
      /\ z[EntropyBytes + 1] = Hash[e]
  BY <1>1, <1>w, WalletAssumption DEF Accepted
<1>3. AreBits(bits, TotalBits)
  BY <1>2, BitsInAre
<1> HIDE DEF bits
<1>4. /\ \A k \in 1 .. EntropyBytes + 1 : z[k] \in 0 .. Pow2[ByteBits] - 1
      /\ \A i \in 0 .. TotalBits - 1 : Bit(z[i \div ByteBits + 1], i % ByteBits, ByteBits) = bits[i]
  BY <1>3, <1>w, GroupBits
<1> HIDE DEF z
<1>5. e \in Entropy /\ \A k \in 1 .. EntropyBytes : e[k] = z[k]
  <2>1. \A k \in 1 .. EntropyBytes : z[k] \in Byte
    BY <1>4, <1>w DEF Byte
  <2>2. /\ e \in Seq(Byte)
        /\ Len(e) = IF 1 <= EntropyBytes THEN EntropyBytes - 1 + 1 ELSE 0
        /\ \A k \in 1 .. EntropyBytes - 1 + 1 : e[k] = z[1 + k - 1]
    <3> HIDE DEF e
    <3>1. EntropyBytes \in Int /\ 1 \in Int
      BY <1>w
    <3> QED BY <2>1, <3>1, SubSeqProperties DEF e
  <2> HIDE DEF e
  <2>3. EntropyBytes - 1 + 1 = EntropyBytes /\ 1 <= EntropyBytes
    BY <1>w
  <2>4. Len(e) = EntropyBytes /\ DOMAIN e = 1 .. EntropyBytes
    BY <2>2, <2>3
  <2>5. ASSUME NEW k \in 1 .. EntropyBytes PROVE e[k] = z[k]
    <3>1. 1 + k - 1 = k /\ k \in 1 .. EntropyBytes - 1 + 1
      BY <1>w
    <3> QED BY <2>2, <3>1
  <2>6. e = [k \in 1 .. EntropyBytes |-> e[k]]
    BY <2>2, <2>4
  <2>7. \A k \in 1 .. EntropyBytes : e[k] \in Byte
    BY <2>1, <2>5
  <2>8. e \in Entropy
    BY <2>6, <2>7 DEF Entropy
  <2> QED BY <2>5, <2>8
<1> HIDE DEF e
<1>6. /\ \A k \in 1 .. EntropyBytes : x[k] = e[k]
      /\ x[EntropyBytes + 1] = Hash[e]
  BY <1>5, HashedIs
<1> HIDE DEF x
<1>7. ASSUME NEW k \in 1 .. EntropyBytes + 1 PROVE x[k] = z[k]
  <2>1. CASE k = EntropyBytes + 1
    BY <1>2, <1>6, <2>1
  <2>2. CASE k # EntropyBytes + 1
    <3>1. k \in 1 .. EntropyBytes
      BY <1>w, <2>2
    <3> QED BY <1>5, <1>6, <3>1
  <2> QED BY <2>1, <2>2
<1>8. ASSUME NEW i \in 0 .. TotalBits - 1 PROVE BitsOf(x)[i] = bits[i]
  <2>1. i \div ByteBits + 1 \in 1 .. EntropyBytes + 1
    BY <1>w, Places
  <2>2. x[i \div ByteBits + 1] = z[i \div ByteBits + 1]
    BY <1>7, <2>1
  <2>3. BitsOf(x)[i] = Bit(x[i \div ByteBits + 1], i % ByteBits, ByteBits)
    BY DEF BitsOf
  <2> QED BY <1>4, <2>2, <2>3
<1>9. ASSUME NEW k \in 1 .. Full PROVE y[k] = c[k]
  <2> DEFINE n == IF k <= Len(m) THEN Found(m[k]) ELSE 0
  <2>1. n \in 0 .. Pow2[WordBits] - 1
    <3>1. Pow2[WordBits] \in Nat \ {0}
      BY <1>w, Powers DEF Widths
    <3>2. k <= Len(m) => Found(m[k]) \in Word
      BY <1>2, <1>w
    <3> QED BY <3>1, <3>2 DEF Word
  <2>2. ASSUME NEW j \in 0 .. WordBits - 1
        PROVE  BitsOf(x)[(k - 1) * WordBits + j] = Bit(n, j, WordBits)
    <3> DEFINE i == (k - 1) * WordBits + j
    <3>1. i \in 0 .. TotalBits - 1 /\ i \div WordBits + 1 = k /\ i % WordBits = j
      BY <1>w, Place
    <3> HIDE DEF i
    <3>2. i \div WordBits \in Int
      BY <1>w, <3>1 DEF Widths
    <3>3. CASE k <= Len(m)
      <4>1. i \div WordBits < Len(m)
        BY <1>2, <3>1, <3>2, <3>3
      <4> QED BY <1>8, <3>1, <3>3, <4>1 DEF bits, BitsIn, i
    <3>4. CASE ~(k <= Len(m))
      <4>1. ~(i \div WordBits < Len(m))
        BY <1>2, <3>1, <3>2, <3>4
      <4>2. bits[i] = 0
        BY <3>1, <4>1 DEF bits, BitsIn
      <4>3. Bit(0, j, WordBits) = 0
        <5>1. WordBits - 1 - j \in Nat
          BY <1>w DEF Widths
        <5>2. Pow2[WordBits - 1 - j] \in Nat \ {0}
          BY <5>1, Powers
        <5>3. 0 \div Pow2[WordBits - 1 - j] = 0
          BY <5>2
        <5> QED BY <5>3 DEF Bit
      <4> QED BY <1>8, <3>1, <3>4, <4>2, <4>3 DEF i
    <3> QED BY <3>3, <3>4
  <2>3. y[k] = n
    <3> HIDE DEF n
    <3> QED BY <1>w, <2>1, <2>2, BitsGroup
  <2> QED BY <2>3
<1>10. y = c
  <2>1. y = [k \in 1 .. Full |-> y[k]]
    BY <1>w, GroupShape
  <2>2. c = [k \in 1 .. Full |-> c[k]]
    OBVIOUS
  <2> HIDE DEF y, c
  <2> QED BY <1>9, <2>1, <2>2
<1>11. export_mnemonic(EntropyOf(m)) = y
  BY <1>1 DEF export_mnemonic, BitsOf, x
<1> QED BY <1>10, <1>11

----------------------------------------------------------------------------
(* The processes on the mnemonic file.                                      *)


Words     == Typed \cup {<<>>} \cup {Spelt(e) : e \in Entropy}
Entropies == Entropy \cup {<<>>} \cup {EntropyOf(w) : w \in Words}
Seeds     == {<<>>} \cup UninitializedSeed \cup {generate_seed(e) : e \in Entropies}
Files     == [exists : BOOLEAN, words : Words, of : Entropy \cup {<<>>}]
States    == {"ended", "reading", "making", "writing", "running", "refused"}
Processes == [at : States, read : Files,
              entropy : Entropies, seed : Seeds, keys : Nat]

Typing == file \in Files /\ proc \in [Procs -> Processes]

\* A process that is about to write its mnemonic has an entropy.
Drawn(r) == r.at = "writing" => r.entropy \in Entropy

\* A session has the entropy of the words that it read, if it read any.
Holds(r) ==
  /\ r.at = "writing" => ~r.read.exists
  /\ r.at = "running" /\ r.read.exists =>
       Accepted(r.read.words) /\ r.entropy = EntropyOf(r.read.words)

\* A file that a wallet has written, and a session that has read one.
Written(f) == f.of # <<>> => f.words = Spelt(f.of)
Opened ==
  /\ Written(file)
  /\ \A p \in Procs :
       /\ proc[p].read.of # <<>> => InAt(p, "running") /\ proc[p].entropy = proc[p].read.of
       /\ Holds(proc[p])

Inv == Typing /\ \A p \in Procs : Drawn(proc[p])

----------------------------------------------------------------------------
LEMMA EndedTyped ==
  /\ Absent \in Files /\ Ended \in Processes /\ Ended.read.of = <<>>
  /\ Ended.at = "ended" /\ Ended.read.exists = FALSE
<1>1. Absent \in Files /\ Absent.of = <<>> /\ Absent.exists = FALSE
  BY DEF Absent, Files, Words
<1> QED BY <1>1 DEF Ended, Processes, States, Entropies, Seeds

\* What a file holds is a sequence.
LEMMA WordsAreLists ==
  ASSUME NEW m \in Words
  PROVE  DOMAIN m = 1 .. Len(m)
<1>1. CASE m \in Typed
  BY <1>1, WalletAssumption
<1>2. CASE m = <<>>
  BY <1>2
<1>3. CASE \E e \in Entropy : m = Spelt(e)
  <2>1. Full \in Nat /\ m = [k \in 1 .. Full |-> m[k]]
    BY <1>3, WidthsAre DEF Spelt
  <2>2. m \in Seq(Range(m))
    BY <2>1 DEF Range
  <2> QED BY <2>2
<1> QED BY <1>1, <1>2, <1>3 DEF Words

\* What a process becomes.
LEMMA OneProcess ==
  ASSUME Typing, NEW p \in Procs, NEW r \in Processes, Become(p, r)
  PROVE  /\ proc' \in [Procs -> Processes] /\ proc'[p] = r
         /\ \A q \in Procs : q # p => proc'[q] = proc[q]
BY DEF Typing, Become

LEMMA InitInv == Init => Inv /\ Opened
<1> SUFFICES ASSUME Init PROVE Inv /\ Opened
  OBVIOUS
<1>1. file \in Files /\ file.of = <<>>
  <2>1. ASSUME NEW m \in Typed PROVE Text(m, <<>>) \in Files /\ Text(m, <<>>).of = <<>>
    BY DEF Files, Text, Words
  <2>2. Absent.of = <<>>
    BY DEF Absent
  <2> QED BY <2>1, <2>2, EndedTyped DEF Init
<1>2. proc \in [Procs -> Processes] /\ \A p \in Procs : proc[p] = Ended
  BY EndedTyped DEF Init
<1>3. \A p \in Procs : Drawn(proc[p])
  BY <1>2, EndedTyped DEF Drawn
<1>4. Opened
  BY <1>1, <1>2, EndedTyped DEF Opened, Written, Holds
<1> QED BY <1>1, <1>2, <1>3, <1>4 DEF Inv, Typing

----------------------------------------------------------------------------
\* The records that the steps of a process make.
LEMMA Started ==
  ASSUME NEW w \in Processes, NEW x \in States
  PROVE  LET r == [w EXCEPT !.at = x]
         IN  /\ r \in Processes /\ r.at = x
             /\ r.read = w.read /\ r.entropy = w.entropy /\ r.seed = w.seed
BY DEF Processes

LEMMA Made ==
  ASSUME NEW e \in Entropies, NEW s \in Seeds
  PROVE  LET r == [Ended EXCEPT !.at = "writing", !.entropy = e, !.seed = s]
         IN  /\ r \in Processes /\ r.at = "writing" /\ r.entropy = e
             /\ r.read = Ended.read
BY EndedTyped DEF Processes, States

LEMMA Loaded ==
  ASSUME NEW f \in Files, NEW e \in Entropies
  PROVE  LET r == [Ended EXCEPT !.at = "running", !.read = f, !.seed = generate_seed(e), !.entropy = e]
         IN  /\ r \in Processes /\ r.at = "running" /\ r.read = f
             /\ r.entropy = e /\ r.seed = generate_seed(e)
<1>1. generate_seed(e) \in Seeds
  BY DEF Seeds
<1> QED BY <1>1, EndedTyped DEF Processes, States

LEMMA Refused ==
  ASSUME NEW w \in Processes, NEW f \in Files
  PROVE  LET r == [w EXCEPT !.at = "refused", !.read = f]
         IN  r \in Processes /\ r.at = "refused" /\ r.read = f
BY DEF Processes, States

LEMMA Counted ==
  ASSUME NEW w \in Processes
  PROVE  LET r == [w EXCEPT !.keys = @ + 1]
         IN  /\ r \in Processes /\ r.at = w.at
             /\ r.read = w.read /\ r.entropy = w.entropy /\ r.seed = w.seed
BY DEF Processes

\* A step of process p keeps Inv.
LEMMA InvKept ==
  ASSUME Inv, NEW p \in Procs, NEW r \in Processes, Become(p, r), file' \in Files, Drawn(r)
  PROVE  Inv'
<1>1. /\ proc' \in [Procs -> Processes] /\ proc'[p] = r
      /\ \A q \in Procs : q # p => proc'[q] = proc[q]
  BY OneProcess DEF Inv
<1> QED BY <1>1 DEF Inv, Typing, Drawn

LEMMA OpenedKept ==
  ASSUME Inv, Opened, NEW p \in Procs, NEW r \in Processes, Become(p, r), Written(file'),
         r.read.of # <<>> => r.at = "running" /\ r.entropy = r.read.of, Holds(r)
  PROVE  Opened'
<1>1. /\ proc'[p] = r /\ \A q \in Procs : q # p => proc'[q] = proc[q]
  BY OneProcess DEF Inv
<1> QED BY <1>1 DEF Opened, InAt, Written

\* Every step of a process keeps Inv, and Opened too, since packing inverts.
LEMMA ProcessStep ==
  ASSUME Inv, NEW p \in Procs,
         Start(p) \/ Make(p) \/ Write(p) \/ Read(p) \/ create_next_account(p) \/ End(p)
  PROVE  Inv' /\ (Opened => Opened')
<1>t. /\ file \in Files /\ proc[p] \in Processes /\ proc[p].read \in Files
      /\ proc[p].entropy \in Entropies
  <2>1. file \in Files /\ proc[p] \in Processes
    BY DEF Inv, Typing
  <2> QED BY <2>1 DEF Processes
<1>1. CASE Start(p)
  <2>1. PICK x \in {"reading", "making"} : Become(p, [Ended EXCEPT !.at = x])
    BY <1>1 DEF Start
  <2> DEFINE r == [Ended EXCEPT !.at = x]
  <2>2. r \in Processes /\ r.at = x /\ r.read.of = <<>>
    <3>1. x \in States
      BY DEF States
    <3>2. r \in Processes /\ r.at = x /\ r.read = Ended.read
      BY <3>1, Started, EndedTyped, Zenon
    <3> HIDE DEF r
    <3> QED BY <3>2, EndedTyped
  <2>3. Become(p, r) /\ file' = file
    BY <2>1, <1>1 DEF Start
  <2> HIDE DEF r
  <2>4. Inv'
    BY <2>2, <2>3, <1>t, InvKept DEF Drawn
  <2>5. Opened => Opened'
    <3>1. x \in {"reading", "making"} /\ Holds(r)
      BY <2>2 DEF Holds
    <3> QED BY <2>2, <2>3, <3>1, OpenedKept DEF Opened
  <2> QED BY <2>4, <2>5
<1>2. CASE Make(p)
  <2>1. PICK e \in Entropy, s \in UninitializedSeed :
          Become(p, [Ended EXCEPT !.at = "writing", !.entropy = e, !.seed = s])
    BY <1>2 DEF Make
  <2> DEFINE r == [Ended EXCEPT !.at = "writing", !.entropy = e, !.seed = s]
  <2>2. /\ r \in Processes /\ r.at = "writing" /\ r.entropy = e
        /\ r.read.of = <<>> /\ ~r.read.exists
    <3>1. e \in Entropies /\ s \in Seeds
      BY DEF Entropies, Seeds
    <3>2. r \in Processes /\ r.at = "writing" /\ r.entropy = e /\ r.read = Ended.read
      BY <3>1, Made, EndedTyped, Zenon
    <3> HIDE DEF r
    <3> QED BY <3>2, EndedTyped
  <2>3. Become(p, r) /\ file' = Text(<<>>, <<>>)
    BY <2>1, <1>2 DEF Make
  <2> HIDE DEF r
  <2>4. file' \in Files /\ Written(file')
    BY <2>3 DEF Text, Files, Words, Written
  <2>5. Inv'
    BY <2>2, <2>3, <2>4, InvKept DEF Drawn
  <2>6. Opened => Opened'
    <3>1. Holds(r)
      BY <2>2 DEF Holds
    <3> QED BY <2>2, <2>3, <2>4, <3>1, OpenedKept
  <2> QED BY <2>5, <2>6
<1>3. CASE Write(p)
  <2> DEFINE w == proc[p]
             r == [w EXCEPT !.at = "running"]
  <2>1. /\ w.at = "writing" /\ Become(p, r) /\ file' = Text(Spelt(w.entropy), w.entropy)
       
    BY <1>3 DEF Write, InAt
  <2>2. /\ r \in Processes /\ r.at = "running"
        /\ r.read = w.read /\ r.entropy = w.entropy
    <3>1. "running" \in States
      BY DEF States
    <3> QED BY <3>1, <1>t, Started, Zenon
  <2>3. w.entropy \in Entropy
    BY <2>1 DEF Inv, Drawn
  <2>4. Opened => w.read.of = <<>> /\ ~w.read.exists
    BY <2>1 DEF Opened, InAt, Holds
  <2> HIDE DEF r, w
  <2>5. file' \in Files /\ Written(file')
    BY <2>1, <2>3 DEF Text, Files, Words, Written
  <2>6. Inv'
    BY <2>1, <2>2, <2>3, <2>5, InvKept DEF Drawn
  <2>7. Opened => Opened'
    <3>1. Opened => Holds(r)
      BY <2>2, <2>4 DEF Holds
    <3> QED BY <2>1, <2>2, <2>4, <2>5, <3>1, OpenedKept
  <2> QED BY <2>6, <2>7
<1>4. CASE Read(p)
  <2>1. file' = file
    BY <1>4 DEF Read
  <2>2. CASE Accepted(file.words)
    <3> DEFINE e == EntropyOf(file.words)
               r == [Ended EXCEPT !.at = "running", !.read = file, !.seed = generate_seed(e), !.entropy = e]
    <3>1. Become(p, r)
      BY <1>4, <2>2 DEF Read
    <3>2. e \in Entropies
      <4>1. file.words \in Words
        BY <1>t DEF Files
      <4> QED BY <4>1 DEF Entropies
    <3>8. e = EntropyOf(file.words)
      OBVIOUS
    <3> HIDE DEF e
    <3>3. /\ r \in Processes /\ r.at = "running" /\ r.read = file
          /\ r.entropy = e /\ r.seed = generate_seed(e)
      <4>1. file \in Files
        BY <1>t
      <4> QED BY <4>1, <3>2, Loaded, Zenon
    <3>4. Opened /\ file.of # <<>> => e = file.of
      <4>1. file.of \in Entropy \cup {<<>>}
        BY <1>t DEF Files
      <4> QED BY <4>1, Inverts DEF e, PackingInverts, Opened, Written
    <3> HIDE DEF r
    <3>5. Inv'
      BY <2>1, <3>1, <3>3, <1>t, InvKept DEF Drawn
    <3>6. Opened => Opened'
      <4>1. Holds(r)
        BY <2>2, <3>3, <3>8 DEF Holds
      <4> QED BY <2>1, <3>1, <3>3, <3>4, <4>1, OpenedKept DEF Opened
    <3> QED BY <3>5, <3>6
  <2>3. CASE ~Accepted(file.words)
    <3> DEFINE r == [Ended EXCEPT !.at = "refused", !.read = file]
    <3>1. Become(p, r)
      BY <1>4, <2>3 DEF Read
    <3>2. r \in Processes /\ r.at = "refused" /\ r.read = file
      BY <1>t, Refused, EndedTyped, Zenon
    <3>3. Opened => file.of = <<>>
      <4>1. file.of \in Entropy \cup {<<>>}
        BY <1>t DEF Files
      <4> QED BY <4>1, <2>3, Inverts DEF PackingInverts, Opened, Written
    <3> HIDE DEF r
    <3>4. Inv'
      BY <2>1, <3>1, <3>2, <1>t, InvKept DEF Drawn
    <3>5. Opened => Opened'
      <4>1. Holds(r)
        BY <3>2 DEF Holds
      <4> QED BY <2>1, <3>1, <3>2, <3>3, <4>1, OpenedKept DEF Opened
    <3> QED BY <3>4, <3>5
  <2> QED BY <2>2, <2>3
<1>5. CASE create_next_account(p)
  <2> DEFINE w == proc[p]
             r == [w EXCEPT !.keys = @ + 1]
  <2>1. w.at = "running" /\ Become(p, r) /\ file' = file
    BY <1>5 DEF create_next_account, InAt
  <2>2. /\ r \in Processes /\ r.at = w.at
        /\ r.read = w.read /\ r.entropy = w.entropy /\ r.seed = w.seed
    BY <1>t, Counted, Zenon
  <2>3. Opened => (w.read.of # <<>> => w.entropy = w.read.of) /\ Holds(r)
    BY <2>1, <2>2 DEF Opened, Holds
  <2> HIDE DEF r
  <2>4. Inv'
    BY <2>1, <2>2, <1>t, InvKept DEF Drawn
  <2>5. Opened => Opened'
    BY <2>1, <2>2, <2>3, OpenedKept DEF Opened
  <2> QED BY <2>4, <2>5
<1>6. CASE End(p)
  <2>1. Become(p, Ended) /\ file' = file
    BY <1>6 DEF End
  <2>2. Inv'
    BY <2>1, <1>t, EndedTyped, InvKept DEF Drawn
  <2>3. Opened => Opened'
    <3>1. Holds(Ended)
      BY EndedTyped DEF Holds
    <3> QED BY <2>1, <3>1, EndedTyped, OpenedKept DEF Opened
  <2> QED BY <2>2, <2>3
<1> QED BY <1>1, <1>2, <1>3, <1>4, <1>5, <1>6

LEMMA Step ==
  ASSUME Inv, [Next]_vars
  PROVE  Inv' /\ (Opened => Opened')
<1>1. CASE Next
  BY <1>1, ProcessStep DEF Next
<1>2. CASE UNCHANGED vars
  BY <1>2 DEF vars, Inv, Typing, Drawn, InAt, Opened, Written, Holds
<1> QED BY <1>1, <1>2

\* Every reachable state has a file and sessions as described.
LEMMA AlwaysOpened == Spec => [](Inv /\ Opened)
<1>1. Init => Inv /\ Opened
  BY InitInv
<1>2. (Inv /\ Opened) /\ [Next]_vars => (Inv /\ Opened)'
  BY Step
<1> QED BY <1>1, <1>2, PTL DEF Spec

\* Client2Imp and generate_from_mnemonic: a file that a client has written in
\* full opens the wallet that wrote it, however many processes truncate, write
\* and read it at a time and wherever they are killed.
THEOREM OwnFileIsOpened == Spec => []OwnFileOpens
<1>1. Inv /\ Opened => OwnFileOpens
  BY DEF Opened, OwnFileOpens
<1> QED BY <1>1, AlwaysOpened, PTL

\* A word of the list is found at its own place.
LEMMA ListedFound == ASSUME NEW t \in Nat, Listed(t) PROVE Found(t) = t \div 2
BY DEF Listed, Found

\* export_mnemonic spells numbers.
LEMMA ExportIsWords ==
  ASSUME NEW e \in Entropy, NEW k \in 1 .. Full
  PROVE  export_mnemonic(e)[k] \in Nat
<1> DEFINE x == Append(e, Hash[e])
           bits == BitsOf(x)
<1>w. WordBits \in Widths /\ Full = TotalBits \div WordBits
  BY WidthsAre
<1>1. export_mnemonic(e) = Group(bits, WordBits)
  BY DEF export_mnemonic, BitsOf
<1>2. \A j \in 1 .. EntropyBytes + 1 : x[j] \in 0 .. Pow2[ByteBits] - 1
  BY HashedIs
<1> HIDE DEF x
<1>3. AreBits(bits, TotalBits)
  BY <1>2, BitsOfAre
<1> HIDE DEF bits
<1>4. Group(bits, WordBits)[k] \in 0 .. Pow2[WordBits] - 1
  BY <1>3, <1>w, GroupBits
<1> QED BY <1>1, <1>4

\* A file has tokens only.
LEMMA WordsAreTokens ==
  ASSUME NEW m \in Words, NEW k \in DOMAIN m
  PROVE  m[k] \in Nat
<1>1. CASE m \in Typed
  <2>1. m \in Seq(Token) /\ Token \subseteq Nat
    BY <1>1, WalletAssumption DEF Token
  <2>2. m[k] \in Token
    BY <2>1
  <2> QED BY <2>1, <2>2
<1>2. CASE m = <<>>
  BY <1>2
<1>3. CASE \E e \in Entropy : m = Spelt(e)
  <2>1. PICK e \in Entropy : m = Spelt(e)
    BY <1>3
  <2>2. k \in 1 .. Full /\ m[k] = 2 * export_mnemonic(e)[k]
    BY <2>1 DEF Spelt
  <2>3. export_mnemonic(e)[k] \in Nat
    BY <2>2, ExportIsWords
  <2> QED BY <2>2, <2>3
<1> QED BY <1>1, <1>2, <1>3 DEF Words

\* export_mnemonic and generate_from_mnemonic: whatever mnemonic of words of the
\* list a user typed, a wallet that accepted it exports the words that were
\* typed, followed by the first word of the list where it was a short one.
THEOREM WordsAreExported == Spec => []ExportsWhatWasRead
<1>1. ASSUME Inv, Opened PROVE ExportsWhatWasRead
  <2> SUFFICES ASSUME NEW p \in Procs, InAt(p, "running"), proc[p].read.exists,
                      \A k \in DOMAIN proc[p].read.words : Listed(proc[p].read.words[k])
               PROVE  LET words == proc[p].read.words IN
                      export_mnemonic(proc[p].entropy) =
                        [k \in 1 .. Full |-> IF k <= Len(words) THEN words[k] \div 2 ELSE 0]
    BY DEF ExportsWhatWasRead
  <2> DEFINE m == proc[p].read.words
  <2>1. Accepted(m) /\ proc[p].entropy = EntropyOf(m) /\ \A k \in DOMAIN m : Listed(m[k])
    BY <1>1 DEF Opened, Holds, InAt
  <2>2. m \in Words
    BY <1>1 DEF Inv, Typing, Processes, Files
  <2>3. DOMAIN m = 1 .. Len(m) /\ Len(m) \in Nat
    BY <2>1, <2>2, WordsAreLists, WalletAssumption, WidthsAre DEF Accepted
  <2> HIDE DEF m
  <2>4. export_mnemonic(EntropyOf(m)) =
          [k \in 1 .. Full |-> IF k <= Len(m) THEN Found(m[k]) ELSE 0]
    BY <2>1, <2>3, Reexports
  <2>5. ASSUME NEW k \in DOMAIN m PROVE Found(m[k]) = m[k] \div 2
    BY <2>1, <2>2, WordsAreTokens, ListedFound
  <2>6. ASSUME NEW k \in 1 .. Full
        PROVE  (IF k <= Len(m) THEN Found(m[k]) ELSE 0) = (IF k <= Len(m) THEN m[k] \div 2 ELSE 0)
    <3>1. k <= Len(m) => k \in DOMAIN m
      BY <2>3, WidthsAre
    <3> QED BY <2>5, <3>1
  <2>7. [k \in 1 .. Full |-> IF k <= Len(m) THEN Found(m[k]) ELSE 0] =
          [k \in 1 .. Full |-> IF k <= Len(m) THEN m[k] \div 2 ELSE 0]
    BY <2>6
  <2> QED BY <2>1, <2>4, <2>7 DEF m
<1> QED BY <1>1, AlwaysOpened, PTL

=============================================================================
