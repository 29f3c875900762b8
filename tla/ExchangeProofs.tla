--------------------------- MODULE ExchangeProofs ---------------------------
(***************************************************************************)
(* Proofs about Exchange, for any users, currencies, fees, periods,        *)
(* amounts and paths of swaps.                                             *)
(*                                                                         *)
(* A call works on a transaction record and commits it, so the invariant   *)
(* is one of the record a call begins with, Inv == Typing /\ Safe(Begin)   *)
(* /\ Closed, and each lemma takes a record that is Sound through a part   *)
(* of the code.  None of the theorems' invariants is inductive by itself:  *)
(*  - a payment out of rewards.balance or of a reserve is only covered     *)
(*    while the other pools' reserves are, so Slack is followed for every  *)
(*    currency at once, through every payment;                             *)
(*  - lp_supply is divided by and subtracted from, so that it counts what  *)
(*    is recorded with the users (Counted) is needed for it to be natural; *)
(*  - an entry is found by the number of its pool, so the sums only move   *)
(*    together because a user has one entry for a pool (Linked).           *)
(* In between, a call may break what it is to keep: mint adds shares to    *)
(* the user's entry before it adds them to the supply.  So the reward code *)
(* is shown to touch neither side (Settles: Gap stays, Slack does not      *)
(* fall), and a deposit, a withdrawal and a hop to move both (IsGrown,     *)
(* IsShrunk, Travels).  The rounding of get_amount_out, of sqrt and of the *)
(* shares is the rest, and gives Valued.                                   *)
(***************************************************************************)
EXTENDS Exchange, SumTheorems, TLAPS

Pools   == [a : Nat, b : Nat, supply : Nat, ra : Nat, rb : Nat,
            lp_supply : Nat, alloc : Nat, acc : Nat]
Entries == [pool : Nat, value : Nat, amount : Nat, reward_debt : Nat]
Rewards == [open : BOOLEAN, end : Nat, last : Nat, balance : Nat, rate : Nat, total_alloc : Nat]
Owns    == [Users -> Seq(Entries)]
Purses  == [Addr -> [Coins -> Nat]]
Txs     == [ok : BOOLEAN, pools : Seq(Pools), rewards : Rewards, own : Owns, coin : Purses]
Fields  == {"value", "amount"}

----------------------------------------------------------------------------
(* Sums over pools, entries and users.                                     *)

\* The places of a sequence are finitely many.
LEMMA DomainFinite ==
  ASSUME NEW S, NEW s \in Seq(S)
  PROVE  IsFiniteSet(DOMAIN s) /\ DOMAIN s = 1 .. Len(s) /\ Len(s) \in Nat
<1>1. Len(s) \in Nat /\ DOMAIN s = 1 .. Len(s)
  OBVIOUS
<1> QED BY <1>1, FS_Interval

\* One more place, where the function is g[n + 1].
LEMMA SumOneMore ==
  ASSUME NEW n \in Nat, NEW f, NEW g, \A k \in 1 .. n + 1 : g[k] \in Int,
         \A k \in 1 .. n : f[k] = g[k]
  PROVE  SumFunctionOnSet(g, 1 .. n + 1) = SumFunctionOnSet(f, 1 .. n) + g[n + 1]
<1>1. IsFiniteSet(1 .. n + 1) /\ IsFiniteSet(1 .. n) /\ n + 1 \in 1 .. n + 1
  BY FS_Interval
<1>2. (1 .. n + 1) \ {n + 1} = 1 .. n
  OBVIOUS
<1>3. SumFunctionOnSet(g, 1 .. n + 1) = g[n + 1] + SumFunctionOnSet(g, 1 .. n)
  BY <1>1, <1>2, SumRemove
<1>4. SumFunctionOnSet(g, 1 .. n) = SumFunctionOnSet(f, 1 .. n)
  BY <1>1, SumSame
<1>5. SumFunctionOnSet(g, 1 .. n) \in Int
  BY <1>1, SumInt
<1> QED BY <1>1, <1>3, <1>4, <1>5

\* What an entry adds to the sum for pool i.
LEMMA FieldNat ==
  ASSUME NEW o \in Owns, NEW u \in Users, NEW k \in DOMAIN o[u], NEW n \in Fields
  PROVE  o[u] \in Seq(Entries) /\ o[u][k] \in Entries /\ o[u][k][n] \in Nat
<1>1. o[u] \in Seq(Entries)
  BY DEF Owns
<1>2. o[u][k] \in Entries
  BY <1>1
<1>3. n = "value" \/ n = "amount"
  BY DEF Fields
<1> QED BY <1>1, <1>2, <1>3 DEF Entries

\* A user's sum is a natural number.
LEMMA EnteredNat ==
  ASSUME NEW o \in Owns, NEW u \in Users, NEW i, NEW n \in Fields
  PROVE  Entered(o, u, i, n) \in Nat
<1> DEFINE f == [k \in DOMAIN o[u] |-> IF o[u][k].pool = i THEN o[u][k][n] ELSE 0]
<1>1. \A k \in DOMAIN o[u] : f[k] \in Nat
  BY FieldNat
<1>2. IsFiniteSet(DOMAIN o[u])
  BY DomainFinite DEF Owns
<1> HIDE DEF f
<1>3. SumFunctionOnSet(f, DOMAIN o[u]) \in Nat
  BY <1>1, <1>2, SumNat
<1> QED BY <1>3 DEF Entered, f

\* So is the sum of all users.
LEMMA OfPoolNat ==
  ASSUME NEW o \in Owns, NEW i, NEW n \in Fields
  PROVE  OfPool(o, i, n) \in Nat
<1> DEFINE f == [u \in Users |-> Entered(o, u, i, n)]
<1>1. \A u \in Users : f[u] \in Nat
  BY EnteredNat
<1> HIDE DEF f
<1>2. SumFunctionOnSet(f, Users) \in Nat
  BY <1>1, ExchangeAssumption, SumNat
<1> QED BY <1>2 DEF OfPool, f

\* The entries of a user: unchanged, changed at k, or one more that is zero.
LEMMA EnteredSame ==
  ASSUME NEW o, NEW r, NEW u, NEW i, NEW n, DOMAIN r[u] = DOMAIN o[u],
         \A k \in DOMAIN o[u] : r[u][k].pool = o[u][k].pool /\ r[u][k][n] = o[u][k][n]
  PROVE  Entered(r, u, i, n) = Entered(o, u, i, n)
<1>1. [k \in DOMAIN r[u] |-> IF r[u][k].pool = i THEN r[u][k][n] ELSE 0]
      = [k \in DOMAIN o[u] |-> IF o[u][k].pool = i THEN o[u][k][n] ELSE 0]
  OBVIOUS
<1> QED BY <1>1 DEF Entered

\* One entry of the user changes, and stays with its pool.
LEMMA EnteredChange ==
  ASSUME NEW o \in Owns, NEW r \in Owns, NEW u \in Users, NEW i, NEW n \in Fields,
         NEW k \in DOMAIN o[u], DOMAIN r[u] = DOMAIN o[u],
         \A l \in DOMAIN o[u] : /\ r[u][l].pool = o[u][l].pool
                                /\ l # k => r[u][l][n] = o[u][l][n]
  PROVE  Entered(r, u, i, n) = Entered(o, u, i, n)
           + (IF o[u][k].pool = i THEN r[u][k][n] - o[u][k][n] ELSE 0)
<1> DEFINE D == DOMAIN o[u]
           f == [l \in D |-> IF o[u][l].pool = i THEN o[u][l][n] ELSE 0]
           g == [l \in D |-> IF r[u][l].pool = i THEN r[u][l][n] ELSE 0]
<1>1. IsFiniteSet(D)
  BY DomainFinite DEF Owns
<1>2. \A l \in D : f[l] \in Int /\ g[l] \in Int
  BY FieldNat
<1>3. \A l \in D \ {k} : g[l] = f[l]
  OBVIOUS
<1>4. Entered(o, u, i, n) = SumFunctionOnSet(f, D) /\ Entered(r, u, i, n) = SumFunctionOnSet(g, D)
  BY DEF Entered
<1>5. g[k] - f[k] = IF o[u][k].pool = i THEN r[u][k][n] - o[u][k][n] ELSE 0
  BY FieldNat
<1> HIDE DEF f, g, D
<1>6. SumFunctionOnSet(g, D) = SumFunctionOnSet(f, D) + (g[k] - f[k])
  <2>1. k \in D /\ (\A l \in D : f[l] \in Int) /\ (\A l \in D : g[l] \in Int)
    BY <1>2 DEF D
  <2> QED BY <1>1, <1>3, <2>1, SumChange
<1> QED BY <1>4, <1>5, <1>6

\* One entry without shares is appended.
LEMMA EnteredAppend ==
  ASSUME NEW o \in Owns, NEW r, NEW u \in Users, NEW i, NEW n \in Fields, NEW e \in Entries,
         e[n] = 0, r[u] = Append(o[u], e)
  PROVE  Entered(r, u, i, n) = Entered(o, u, i, n)
<1> DEFINE m == Len(o[u])
           f == [l \in 1 .. m |-> IF o[u][l].pool = i THEN o[u][l][n] ELSE 0]
           g == [l \in 1 .. m + 1 |-> IF r[u][l].pool = i THEN r[u][l][n] ELSE 0]
<1>1. /\ o[u] \in Seq(Entries) /\ m \in Nat /\ DOMAIN o[u] = 1 .. m /\ DOMAIN r[u] = 1 .. m + 1
      /\ \A l \in 1 .. m : r[u][l] = o[u][l]
      /\ r[u][m + 1] = e
  BY DEF Owns
<1>2. \A l \in 1 .. m + 1 : g[l] \in Int
  <2>1. \A l \in 1 .. m : o[u][l][n] \in Nat
    BY <1>1, FieldNat
  <2> QED BY <1>1, <2>1
<1>3. \A l \in 1 .. m : f[l] = g[l]
  BY <1>1
<1>4. g[m + 1] = 0
  BY <1>1
<1>5. Entered(o, u, i, n) = SumFunctionOnSet(f, 1 .. m)
      /\ Entered(r, u, i, n) = SumFunctionOnSet(g, 1 .. m + 1)
  BY <1>1 DEF Entered
<1>6. Entered(o, u, i, n) \in Nat
  BY EnteredNat
<1> HIDE DEF f, g, m
<1>7. SumFunctionOnSet(g, 1 .. m + 1) = SumFunctionOnSet(f, 1 .. m) + g[m + 1]
  BY <1>1, <1>2, <1>3, SumOneMore
<1> QED BY <1>4, <1>5, <1>6, <1>7

\* Users whose entries keep their pools and the field keep the sum.
LEMMA OfPoolSame ==
  ASSUME NEW o, NEW r, NEW i, NEW n,
         \A u \in Users : /\ DOMAIN r[u] = DOMAIN o[u]
                          /\ \A k \in DOMAIN o[u] : /\ r[u][k].pool = o[u][k].pool
                                                    /\ r[u][k][n] = o[u][k][n]
  PROVE  OfPool(r, i, n) = OfPool(o, i, n)
<1>1. \A u \in Users : Entered(r, u, i, n) = Entered(o, u, i, n)
  BY EnteredSame
<1>2. [u \in Users |-> Entered(r, u, i, n)] = [u \in Users |-> Entered(o, u, i, n)]
  BY <1>1
<1> QED BY <1>2 DEF OfPool

\* The entries of one user change what is entered for pool i by d.
LEMMA OfPoolOne ==
  ASSUME NEW o \in Owns, NEW r \in Owns, NEW u \in Users, NEW i, NEW n \in Fields, NEW d \in Int,
         \A w \in Users \ {u} : r[w] = o[w],
         Entered(r, u, i, n) = Entered(o, u, i, n) + d
  PROVE  OfPool(r, i, n) = OfPool(o, i, n) + d
<1> DEFINE f == [w \in Users |-> Entered(o, w, i, n)]
           g == [w \in Users |-> Entered(r, w, i, n)]
<1>1. \A w \in Users : f[w] \in Int /\ g[w] \in Int
  BY EnteredNat
<1>2. \A w \in Users \ {u} : g[w] = f[w]
  BY DEF Entered
<1>3. g[u] - f[u] = d
  BY EnteredNat
<1>4. OfPool(o, i, n) = SumFunctionOnSet(f, Users) /\ OfPool(r, i, n) = SumFunctionOnSet(g, Users)
  BY DEF OfPool
<1> HIDE DEF f, g
<1>5. SumFunctionOnSet(g, Users) = SumFunctionOnSet(f, Users) + (g[u] - f[u])
  <2>1. IsFiniteSet(Users)
    BY ExchangeAssumption
  <2>2. (\A w \in Users : f[w] \in Int) /\ (\A w \in Users : g[w] \in Int)
    BY <1>1
  <2> QED BY <1>2, <2>1, <2>2, SumChange
<1> QED BY <1>3, <1>4, <1>5

\* The entry of one user changes: the sum of its pool changes as much.
LEMMA OfPoolChange ==
  ASSUME NEW o \in Owns, NEW r \in Owns, NEW u \in Users, NEW i, NEW n \in Fields,
         NEW k \in DOMAIN o[u], DOMAIN r[u] = DOMAIN o[u],
         \A l \in DOMAIN o[u] : /\ r[u][l].pool = o[u][l].pool
                                /\ l # k => r[u][l][n] = o[u][l][n],
         \A w \in Users \ {u} : r[w] = o[w]
  PROVE  OfPool(r, i, n) = OfPool(o, i, n)
           + (IF o[u][k].pool = i THEN r[u][k][n] - o[u][k][n] ELSE 0)
<1> DEFINE d == IF o[u][k].pool = i THEN r[u][k][n] - o[u][k][n] ELSE 0
<1>1. d \in Int
  BY FieldNat
<1>2. Entered(r, u, i, n) = Entered(o, u, i, n) + d
  BY EnteredChange
<1> HIDE DEF d
<1>3. OfPool(r, i, n) = OfPool(o, i, n) + d
  BY <1>1, <1>2, OfPoolOne
<1> QED BY <1>3 DEF d

\* An appended entry without shares changes no sum.
LEMMA OfPoolAppend ==
  ASSUME NEW o \in Owns, NEW r \in Owns, NEW u \in Users, NEW i, NEW n \in Fields,
         NEW e \in Entries, e[n] = 0, r[u] = Append(o[u], e), \A w \in Users \ {u} : r[w] = o[w]
  PROVE  OfPool(r, i, n) = OfPool(o, i, n)
<1>1. Entered(r, u, i, n) = Entered(o, u, i, n) + 0
  BY EnteredAppend, EnteredNat
<1>2. OfPool(r, i, n) = OfPool(o, i, n) + 0
  BY <1>1, OfPoolOne
<1> QED BY <1>2, OfPoolNat

\* What is held of a currency and allocated to rewards in all pools.
LEMMA PoolNat ==
  ASSUME NEW ps \in Seq(Pools), NEW i \in DOMAIN ps
  PROVE  ps[i] \in Pools /\ ps[i].alloc \in Nat
<1>1. ps[i] \in Pools
  OBVIOUS
<1> QED BY <1>1 DEF Pools

\* What one pool holds of a currency is a natural number.
LEMMA HoldingNat ==
  ASSUME NEW p \in Pools, NEW c
  PROVE  Holding(p, c) \in Nat
BY DEF Holding, Pools

\* So is what all pools hold.
LEMMA ReservedNat ==
  ASSUME NEW ps \in Seq(Pools), NEW c
  PROVE  Reserved(ps, c) \in Nat /\ \A i \in DOMAIN ps : Holding(ps[i], c) <= Reserved(ps, c)
<1> DEFINE D == DOMAIN ps
           f == [i \in D |-> Holding(ps[i], c)]
<1>1. \A i \in D : f[i] \in Nat
  BY HoldingNat
<1>2. IsFiniteSet(D)
  BY DomainFinite
<1>3. \A i \in D : f[i] = Holding(ps[i], c)
  OBVIOUS
<1>4. Reserved(ps, c) = SumFunctionOnSet(f, D)
  BY DEF Reserved
<1> HIDE DEF f
<1>5. SumFunctionOnSet(f, D) \in Nat /\ \A i \in D : f[i] <= SumFunctionOnSet(f, D)
  BY <1>1, <1>2, SumNat
<1> QED BY <1>3, <1>4, <1>5

\* Pools that keep their currencies and reserves hold the same.
LEMMA ReservedSame ==
  ASSUME NEW ps, NEW qs, NEW c, DOMAIN qs = DOMAIN ps,
         \A i \in DOMAIN ps : Holding(qs[i], c) = Holding(ps[i], c)
  PROVE  Reserved(qs, c) = Reserved(ps, c)
<1>1. [i \in DOMAIN qs |-> Holding(qs[i], c)] = [i \in DOMAIN ps |-> Holding(ps[i], c)]
  OBVIOUS
<1> QED BY <1>1 DEF Reserved

\* The holdings of one pool change: those of all change as much.
LEMMA ReservedChange ==
  ASSUME NEW ps \in Seq(Pools), NEW qs \in Seq(Pools), NEW c, NEW i \in DOMAIN ps,
         DOMAIN qs = DOMAIN ps, \A j \in DOMAIN ps \ {i} : qs[j] = ps[j]
  PROVE  Reserved(qs, c) = Reserved(ps, c) + (Holding(qs[i], c) - Holding(ps[i], c))
<1> DEFINE D == DOMAIN ps
           f == [j \in D |-> Holding(ps[j], c)]
           g == [j \in D |-> Holding(qs[j], c)]
<1>1. \A j \in D : f[j] \in Int /\ g[j] \in Int
  BY HoldingNat
<1>2. (\A j \in D \ {i} : g[j] = f[j]) /\ g[i] = Holding(qs[i], c) /\ f[i] = Holding(ps[i], c)
  OBVIOUS
<1>3. Reserved(ps, c) = SumFunctionOnSet(f, D) /\ Reserved(qs, c) = SumFunctionOnSet(g, D)
  BY DEF Reserved
<1>4. IsFiniteSet(D) /\ i \in D
  BY DomainFinite
<1> HIDE DEF f, g, D
<1>5. SumFunctionOnSet(g, D) = SumFunctionOnSet(f, D) + (g[i] - f[i])
  <2> DEFINE y == i
  <2>1. y \in D /\ \A j \in D \ {y} : g[j] = f[j]
    BY <1>2, <1>4
  <2> HIDE DEF y
  <2>2. SumFunctionOnSet(g, D) = SumFunctionOnSet(f, D) + (g[y] - f[y])
    BY <1>1, <1>4, <2>1, SumChange
  <2> QED BY <2>2 DEF y
<1> QED BY <1>2, <1>3, <1>5

\* The points of all pools are a natural number.
LEMMA AllocatedNat ==
  ASSUME NEW ps \in Seq(Pools)
  PROVE  Allocated(ps) \in Nat /\ \A i \in DOMAIN ps : ps[i].alloc <= Allocated(ps)
<1> DEFINE D == DOMAIN ps
           f == [i \in D |-> ps[i].alloc]
<1>1. \A i \in D : f[i] \in Nat
  BY PoolNat
<1>2. IsFiniteSet(D)
  BY DomainFinite
<1>3. \A i \in D : f[i] = ps[i].alloc
  OBVIOUS
<1>4. Allocated(ps) = SumFunctionOnSet(f, D)
  BY DEF Allocated
<1> HIDE DEF f
<1>5. SumFunctionOnSet(f, D) \in Nat /\ \A i \in D : f[i] <= SumFunctionOnSet(f, D)
  BY <1>1, <1>2, SumNat
<1> QED BY <1>3, <1>4, <1>5

\* Pools that keep their points keep the total.
LEMMA AllocatedSame ==
  ASSUME NEW ps, NEW qs, DOMAIN qs = DOMAIN ps, \A i \in DOMAIN ps : qs[i].alloc = ps[i].alloc
  PROVE  Allocated(qs) = Allocated(ps)
<1>1. [i \in DOMAIN qs |-> qs[i].alloc] = [i \in DOMAIN ps |-> ps[i].alloc]
  OBVIOUS
<1> QED BY <1>1 DEF Allocated

\* The points of one pool change: the total changes as much.
LEMMA AllocatedChange ==
  ASSUME NEW ps \in Seq(Pools), NEW qs \in Seq(Pools), NEW i \in DOMAIN ps,
         DOMAIN qs = DOMAIN ps, \A j \in DOMAIN ps \ {i} : qs[j] = ps[j]
  PROVE  Allocated(qs) = Allocated(ps) + (qs[i].alloc - ps[i].alloc)
<1> DEFINE D == DOMAIN ps
           f == [j \in D |-> ps[j].alloc]
           g == [j \in D |-> qs[j].alloc]
<1>1. \A j \in D : f[j] \in Int /\ g[j] \in Int
  BY PoolNat
<1>2. (\A j \in D \ {i} : g[j] = f[j]) /\ g[i] = qs[i].alloc /\ f[i] = ps[i].alloc
  OBVIOUS
<1>3. Allocated(ps) = SumFunctionOnSet(f, D) /\ Allocated(qs) = SumFunctionOnSet(g, D)
  BY DEF Allocated
<1>4. IsFiniteSet(D) /\ i \in D
  BY DomainFinite
<1> HIDE DEF f, g, D
<1>5. SumFunctionOnSet(g, D) = SumFunctionOnSet(f, D) + (g[i] - f[i])
  <2> DEFINE y == i
  <2>1. y \in D /\ \A j \in D \ {y} : g[j] = f[j]
    BY <1>2, <1>4
  <2> HIDE DEF y
  <2>2. SumFunctionOnSet(g, D) = SumFunctionOnSet(f, D) + (g[y] - f[y])
    BY <1>1, <1>4, <2>1, SumChange
  <2> QED BY <2>2 DEF y
<1> QED BY <1>2, <1>3, <1>5

\* A new pool.
LEMMA PoolAppend ==
  ASSUME NEW ps \in Seq(Pools), NEW q \in Pools, NEW c
  PROVE  LET qs == Append(ps, q)
         IN  /\ Reserved(qs, c) = Reserved(ps, c) + Holding(q, c)
             /\ Allocated(qs) = Allocated(ps) + q.alloc
<1> DEFINE qs == Append(ps, q)
           m == Len(ps)
           f == [j \in 1 .. m |-> Holding(ps[j], c)]
           g == [j \in 1 .. m + 1 |-> Holding(qs[j], c)]
           h == [j \in 1 .. m |-> ps[j].alloc]
           k == [j \in 1 .. m + 1 |-> qs[j].alloc]
<1>1. /\ m \in Nat /\ DOMAIN ps = 1 .. m /\ DOMAIN qs = 1 .. m + 1
      /\ \A j \in 1 .. m : qs[j] = ps[j]
      /\ qs[m + 1] = q /\ \A j \in 1 .. m + 1 : qs[j] \in Pools
  OBVIOUS
<1>2. /\ Reserved(ps, c) = SumFunctionOnSet(f, 1 .. m)
      /\ Reserved(qs, c) = SumFunctionOnSet(g, 1 .. m + 1)
  BY <1>1, Zenon DEF Reserved
<1>3. /\ Allocated(ps) = SumFunctionOnSet(h, 1 .. m)
      /\ Allocated(qs) = SumFunctionOnSet(k, 1 .. m + 1)
  BY <1>1, Zenon DEF Allocated
<1> HIDE DEF qs, m
<1>4. /\ \A j \in 1 .. m + 1 : g[j] \in Int
      /\ \A j \in 1 .. m : f[j] = g[j]
      /\ g[m + 1] = Holding(q, c)
  BY <1>1, HoldingNat
<1>5. /\ \A j \in 1 .. m + 1 : k[j] \in Int
      /\ \A j \in 1 .. m : h[j] = k[j]
      /\ k[m + 1] = q.alloc
  <2>1. \A p \in Pools : p.alloc \in Int
    BY DEF Pools
  <2>2. m + 1 \in 1 .. m + 1 /\ \A j \in 1 .. m : j \in 1 .. m + 1
    BY <1>1
  <2>3. \A j \in 1 .. m + 1 : k[j] = qs[j].alloc
    OBVIOUS
  <2>4. \A j \in 1 .. m : h[j] = ps[j].alloc
    OBVIOUS
  <2> HIDE DEF h, k
  <2> QED BY <1>1, <2>1, <2>2, <2>3, <2>4
<1> HIDE DEF f, g, h, k
<1>6. SumFunctionOnSet(g, 1 .. m + 1) = SumFunctionOnSet(f, 1 .. m) + g[m + 1]
  BY <1>1, <1>4, SumOneMore
<1>7. SumFunctionOnSet(k, 1 .. m + 1) = SumFunctionOnSet(h, 1 .. m) + k[m + 1]
  BY <1>1, <1>5, SumOneMore
<1> QED BY <1>2, <1>3, <1>4, <1>5, <1>6, <1>7 DEF qs
----------------------------------------------------------------------------
(* What a transaction is to keep.                                          *)

\* Pools name registered currencies, in order; a user has one entry for a pool.
Linked(t) ==
  /\ \A i \in DOMAIN t.pools : t.pools[i].a < t.pools[i].b /\ t.pools[i].b < Len(codes)
  /\ \A u \in Users : \A k \in DOMAIN t.own[u] :
       /\ t.own[u][k].pool \in DOMAIN t.pools
       /\ \A l \in DOMAIN t.own[u] : t.own[u][l].pool = t.own[u][k].pool => l = k

\* The totals that the rewards are divided by.
Counted(t) ==
  /\ \A i \in DOMAIN t.pools : t.pools[i].lp_supply = OfPool(t.own, i, "amount")
  /\ t.rewards.total_alloc = Allocated(t.pools)

Sound(t) == t \in Txs /\ Linked(t) /\ Counted(t)

\* The shares users have above the supply of a pool, and the coins the contract
\* has above what it owes.
Gap(t, i)   == OfPool(t.own, i, "value") - t.pools[i].supply
Owed(t, c)  == Reserved(t.pools, c) + (IF c = VLS THEN t.rewards.balance ELSE 0)
Slack(t, c) == t.coin[Admin][c] - Owed(t, c)

\* Nothing but rewards is touched from t to r.
Settles(t, r) ==
  /\ Sound(r) /\ (r.ok => t.ok) /\ r.rewards.open = t.rewards.open
  /\ DOMAIN r.pools = DOMAIN t.pools
  /\ \A i \in DOMAIN t.pools :
       /\ r.pools[i].a = t.pools[i].a /\ r.pools[i].b = t.pools[i].b
       /\ r.pools[i].supply = t.pools[i].supply
       /\ r.pools[i].ra = t.pools[i].ra /\ r.pools[i].rb = t.pools[i].rb
  /\ \A u \in Users :
       /\ DOMAIN r.own[u] = DOMAIN t.own[u]
       /\ \A k \in DOMAIN t.own[u] : /\ r.own[u][k].pool = t.own[u][k].pool
                                     /\ r.own[u][k].value = t.own[u][k].value
  /\ \A c \in Coins : Slack(r, c) >= Slack(t, c)

\* The contract's account is not a user's.
LEMMA Addresses == Admin \in Addr /\ Users \subseteq Addr /\ \A u \in Users : u # Admin
BY ExchangeAssumption DEF Addr

\* The parts of a transaction have their types.
LEMMA TxParts ==
  ASSUME NEW t \in Txs
  PROVE  /\ t.ok \in BOOLEAN /\ t.pools \in Seq(Pools) /\ t.rewards \in Rewards
         /\ t.own \in Owns /\ t.coin \in Purses
BY DEF Txs

\* What is owed and what is above it are numbers.
LEMMA SlackInt ==
  ASSUME NEW t \in Txs, NEW c \in Coins
  PROVE  /\ Slack(t, c) \in Int /\ Owed(t, c) \in Nat /\ t.coin[Admin][c] \in Nat
         /\ Slack(t, c) = t.coin[Admin][c] - Owed(t, c)
<1>1. Reserved(t.pools, c) \in Nat
  BY TxParts, ReservedNat
<1>2. t.coin[Admin][c] \in Nat
  BY TxParts, Addresses DEF Purses
<1>3. t.rewards.balance \in Nat
  BY TxParts DEF Rewards
<1>4. Owed(t, c) \in Nat
  BY <1>1, <1>3 DEF Owed
<1> QED BY <1>2, <1>4 DEF Slack

\* So is the difference between the shares of users and the supply.
LEMMA GapInt ==
  ASSUME NEW t \in Txs, NEW i \in DOMAIN t.pools
  PROVE  /\ Gap(t, i) \in Int /\ OfPool(t.own, i, "value") \in Nat /\ t.pools[i].supply \in Nat
         /\ Gap(t, i) = OfPool(t.own, i, "value") - t.pools[i].supply
<1>1. OfPool(t.own, i, "value") \in Nat
  BY TxParts, OfPoolNat DEF Fields
<1>2. t.pools[i] \in Pools
  BY TxParts
<1>3. t.pools[i].supply \in Nat
  BY <1>2 DEF Pools
<1> QED BY <1>1, <1>3 DEF Gap

\* Sound looks at pools, entries and the total of the points.
LEMMA SoundSame ==
  ASSUME NEW t, NEW r, Sound(t), r \in Txs, r.pools = t.pools, r.own = t.own,
         r.rewards.total_alloc = t.rewards.total_alloc
  PROVE  Sound(r)
BY DEF Sound, Linked, Counted

\* An assert changes ok and nothing else.
LEMMA Required ==
  ASSUME NEW t \in Txs, NEW c \in BOOLEAN
  PROVE  LET r == Require(t, c)
         IN  /\ r \in Txs /\ (r.ok <=> t.ok /\ c) /\ r.pools = t.pools
             /\ r.rewards = t.rewards /\ r.own = t.own /\ r.coin = t.coin
BY DEF Require, Txs

\* An assert that fails aborts.
LEMMA Aborted ==
  ASSUME NEW t \in Txs
  PROVE  LET r == Require(t, FALSE)
         IN  /\ r \in Txs /\ r.ok = FALSE /\ r.pools = t.pools
             /\ r.rewards = t.rewards /\ r.own = t.own /\ r.coin = t.coin
BY DEF Require, Txs

\* A payment moves coins between two accounts, and is refused without cover.
LEMMA Paid ==
  ASSUME NEW t \in Txs, NEW from \in Addr, NEW to \in Addr, from # to,
         NEW c \in Coins, NEW x \in Nat
  PROVE  LET r == Pay(t, from, to, c, x)
         IN  /\ r \in Txs /\ r.pools = t.pools /\ r.rewards = t.rewards /\ r.own = t.own
             /\ r.ok => /\ t.ok /\ x > 0
                        /\ r.coin[from][c] = t.coin[from][c] - x
                        /\ r.coin[to][c] = t.coin[to][c] + x
                        /\ \A a \in Addr, d \in Coins : d # c => r.coin[a][d] = t.coin[a][d]
             /\ ~r.ok => r.coin = t.coin
<1> DEFINE r == Pay(t, from, to, c, x)
           yes == t.ok /\ x > 0 /\ t.coin[from][c] >= x
           w == [t.coin EXCEPT ![from][c] = @ - x]
           v == [w EXCEPT ![to][c] = @ + x]
<1>1. CASE yes
  <2>1. r = [t EXCEPT !.coin = v]
    <3>1. [t EXCEPT !.coin[from][c] = @ - x, !.coin[to][c] = @ + x] = [t EXCEPT !.coin = v]
      BY DEF Txs
    <3> QED BY <1>1, <3>1 DEF Pay
  <2>2. w \in Purses /\ w[from][c] = t.coin[from][c] - x
        /\ \A a \in Addr, d \in Coins : a # from \/ d # c => w[a][d] = t.coin[a][d]
    BY <1>1, TxParts DEF Purses
  <2> HIDE DEF w
  <2>3. v \in Purses /\ v[to][c] = w[to][c] + x
        /\ \A a \in Addr, d \in Coins : a # to \/ d # c => v[a][d] = w[a][d]
    BY <2>2 DEF Purses
  <2> HIDE DEF v
  <2>4. r \in Txs /\ r.pools = t.pools /\ r.rewards = t.rewards /\ r.own = t.own /\ r.coin = v
        /\ r.ok = t.ok
    BY <2>1, <2>3 DEF Txs
  <2>5. /\ r.coin[from][c] = t.coin[from][c] - x
        /\ r.coin[to][c] = t.coin[to][c] + x
        /\ \A a \in Addr, d \in Coins : d # c => r.coin[a][d] = t.coin[a][d]
    BY <2>2, <2>3, <2>4
  <2> HIDE DEF r
  <2>6. r.ok /\ t.ok /\ x > 0
    BY <1>1, <2>4
  <2> QED BY <2>4, <2>5, <2>6 DEF r
<1>2. CASE ~yes
  <2>1. r = Require(t, FALSE)
    BY <1>2 DEF Pay
  <2>2. /\ r \in Txs /\ r.ok = FALSE /\ r.pools = t.pools
        /\ r.rewards = t.rewards /\ r.own = t.own /\ r.coin = t.coin
    BY <2>1, Aborted
  <2> HIDE DEF r
  <2> QED BY <2>2 DEF r
<1> QED BY <1>1, <1>2
\* A payment to the contract, and one out of it.
LEMMA PaidIn ==
  ASSUME NEW t, Sound(t), NEW u \in Users, NEW c \in Coins, NEW x \in Nat
  PROVE  LET r == Pay(t, u, Admin, c, x)
         IN  /\ Sound(r) /\ r.pools = t.pools /\ r.own = t.own /\ r.rewards = t.rewards
             /\ r.ok => /\ t.ok /\ x > 0
                        /\ \A d \in Coins : Slack(r, d) = Slack(t, d) + (IF d = c THEN x ELSE 0)
<1> DEFINE r == Pay(t, u, Admin, c, x)
<1>1. /\ r \in Txs /\ r.pools = t.pools /\ r.rewards = t.rewards /\ r.own = t.own
      /\ r.ok => /\ t.ok /\ x > 0
                 /\ r.coin[Admin][c] = t.coin[Admin][c] + x
                 /\ \A a \in Addr, d \in Coins : d # c => r.coin[a][d] = t.coin[a][d]
  <2>1. t \in Txs /\ u \in Addr /\ Admin \in Addr /\ u # Admin
    BY Addresses DEF Sound
  <2> QED BY <2>1, Paid
<1> HIDE DEF r
<1>2. Sound(r)
  BY <1>1, SoundSame
<1>3. ASSUME r.ok, NEW d \in Coins
      PROVE  Slack(r, d) = Slack(t, d) + (IF d = c THEN x ELSE 0)
  <2>1. Owed(r, d) = Owed(t, d)
    BY <1>1 DEF Owed
  <2>2. r.coin[Admin][d] = t.coin[Admin][d] + (IF d = c THEN x ELSE 0)
    <3>1. CASE d = c
      BY <1>1, <1>3, <3>1
    <3>2. CASE d # c
      <4>1. r.coin[Admin][d] = t.coin[Admin][d]
        BY <1>1, <1>3, <3>2, Addresses
      <4> QED BY <4>1, <3>2, SlackInt DEF Sound
    <3> QED BY <3>1, <3>2
  <2>3. /\ Slack(r, d) = r.coin[Admin][d] - Owed(r, d)
        /\ Slack(t, d) = t.coin[Admin][d] - Owed(t, d)
        /\ Owed(t, d) \in Nat /\ t.coin[Admin][d] \in Nat
    BY <1>1, SlackInt DEF Sound
  <2> QED BY <2>1, <2>2, <2>3
<1> QED BY <1>1, <1>2, <1>3 DEF r

\* A payment out of the contract takes as much from its slack.
LEMMA PaidOut ==
  ASSUME NEW t, Sound(t), NEW u \in Users, NEW c \in Coins, NEW x \in Nat
  PROVE  LET r == Pay(t, Admin, u, c, x)
         IN  /\ Sound(r) /\ r.pools = t.pools /\ r.own = t.own /\ r.rewards = t.rewards
             /\ r.ok => /\ t.ok /\ x > 0
                        /\ \A d \in Coins : Slack(r, d) = Slack(t, d) - (IF d = c THEN x ELSE 0)
             /\ ~r.ok => r.coin = t.coin
<1> DEFINE r == Pay(t, Admin, u, c, x)
<1>1. /\ r \in Txs /\ r.pools = t.pools /\ r.rewards = t.rewards /\ r.own = t.own
      /\ r.ok => /\ t.ok /\ x > 0
                 /\ r.coin[Admin][c] = t.coin[Admin][c] - x
                 /\ \A a \in Addr, d \in Coins : d # c => r.coin[a][d] = t.coin[a][d]
      /\ ~r.ok => r.coin = t.coin
  <2>1. t \in Txs /\ u \in Addr /\ Admin \in Addr /\ u # Admin
    BY Addresses DEF Sound
  <2> QED BY <2>1, Paid
<1> HIDE DEF r
<1>2. Sound(r)
  BY <1>1, SoundSame
<1>3. ASSUME r.ok, NEW d \in Coins
      PROVE  Slack(r, d) = Slack(t, d) - (IF d = c THEN x ELSE 0)
  <2>1. Owed(r, d) = Owed(t, d)
    BY <1>1 DEF Owed
  <2>2. r.coin[Admin][d] = t.coin[Admin][d] - (IF d = c THEN x ELSE 0)
    <3>1. CASE d = c
      BY <1>1, <1>3, <3>1
    <3>2. CASE d # c
      <4>1. r.coin[Admin][d] = t.coin[Admin][d]
        BY <1>1, <1>3, <3>2, Addresses
      <4> QED BY <4>1, <3>2, SlackInt DEF Sound
    <3> QED BY <3>1, <3>2
  <2>3. /\ Slack(r, d) = r.coin[Admin][d] - Owed(r, d)
        /\ Slack(t, d) = t.coin[Admin][d] - Owed(t, d)
        /\ Owed(t, d) \in Nat /\ t.coin[Admin][d] \in Nat
    BY <1>1, SlackInt DEF Sound
  <2> QED BY <2>1, <2>2, <2>3
<1> QED BY <1>1, <1>2, <1>3 DEF r

----------------------------------------------------------------------------
(* Rewards.                                                                *)

\* No change settles.
LEMMA SettlesSelf ==
  ASSUME NEW t, Sound(t)
  PROVE  Settles(t, t)
<1>1. \A c \in Coins : Slack(t, c) \in Int
  BY SlackInt DEF Sound
<1> QED BY <1>1 DEF Settles

\* Aborting settles.
LEMMA SettlesAbort ==
  ASSUME NEW t, Sound(t)
  PROVE  Settles(t, Require(t, FALSE))
<1> DEFINE r == Require(t, FALSE)
<1>1. /\ r \in Txs /\ r.ok = FALSE /\ r.pools = t.pools
      /\ r.rewards = t.rewards /\ r.own = t.own /\ r.coin = t.coin
  BY Aborted DEF Sound
<1> HIDE DEF r
<1>2. Sound(r)
  BY <1>1, SoundSame
<1>3. \A c \in Coins : Slack(r, c) = Slack(t, c) /\ Slack(t, c) \in Int
  BY <1>1, SlackInt DEF Slack, Owed, Sound
<1>4. Settles(t, r)
  BY <1>1, <1>2, <1>3 DEF Settles
<1> QED BY <1>4 DEF r

\* Settling is transitive.
LEMMA SettlesTwice ==
  ASSUME NEW t, NEW r, NEW s, Sound(t), Settles(t, r), Settles(r, s)
  PROVE  Settles(t, s)
<1>1. \A c \in Coins : Slack(t, c) \in Int /\ Slack(r, c) \in Int /\ Slack(s, c) \in Int
  BY SlackInt DEF Settles, Sound
<1>2. \A c \in Coins : Slack(s, c) >= Slack(t, c)
  BY <1>1 DEF Settles
<1>3. Sound(s) /\ (s.ok => t.ok)
  BY DEF Settles
<1> QED BY <1>2, <1>3 DEF Settles

\* Division by a positive number stays in Nat.
LEMMA NatDiv ==
  ASSUME NEW x \in Nat, NEW y \in Nat \ {0}
  PROVE  x \div y \in Nat
OBVIOUS

\* Multiplication stays in Nat.
LEMMA NatMul ==
  ASSUME NEW x \in Nat, NEW y \in Nat
  PROVE  x * y \in Nat
OBVIOUS

\* The lesser of two numbers.
LEMMA MinOf ==
  ASSUME NEW x \in Int, NEW y \in Int
  PROVE  Min({x, y}) \in {x, y} /\ Min({x, y}) <= x /\ Min({x, y}) <= y
<1>1. \E z \in {x, y} : \A w \in {x, y} : z <= w
  OBVIOUS
<1> QED BY <1>1 DEF Min

\* The greater of two numbers.
LEMMA MaxOf ==
  ASSUME NEW x \in Int, NEW y \in Int
  PROVE  Max({x, y}) \in {x, y} /\ Max({x, y}) >= x /\ Max({x, y}) >= y
<1>1. \E z \in {x, y} : \A w \in {x, y} : z >= w
  OBVIOUS
<1> QED BY <1>1 DEF Max

\* Numbers of the record that update_pool works with.
LEMMA RewardParts ==
  ASSUME NEW t \in Txs
  PROVE  /\ t.rewards.end \in Nat /\ t.rewards.last \in Nat /\ t.rewards.balance \in Nat
         /\ t.rewards.rate \in Nat /\ t.rewards.total_alloc \in Nat /\ t.rewards.open \in BOOLEAN
BY TxParts DEF Rewards

\* A pool of a transaction, by its fields.
LEMMA PoolParts ==
  ASSUME NEW t \in Txs, NEW i \in DOMAIN t.pools
  PROVE  LET p == t.pools[i]
         IN  /\ p \in Pools /\ p.a \in Nat /\ p.b \in Nat /\ p.supply \in Nat /\ p.ra \in Nat
             /\ p.rb \in Nat /\ p.lp_supply \in Nat /\ p.alloc \in Nat /\ p.acc \in Nat
<1>1. t.pools[i] \in Pools
  BY TxParts
<1> QED BY <1>1 DEF Pools

\* An entry of a transaction, by its fields.
LEMMA EntryParts ==
  ASSUME NEW t \in Txs, NEW u \in Users, NEW k \in DOMAIN t.own[u]
  PROVE  LET e == t.own[u][k]
         IN  /\ t.own[u] \in Seq(Entries) /\ e \in Entries /\ e.pool \in Nat /\ e.value \in Nat
             /\ e.amount \in Nat /\ e.reward_debt \in Nat
<1>1. t.own[u] \in Seq(Entries)
  BY TxParts DEF Owns
<1>2. t.own[u][k] \in Entries
  BY <1>1
<1> QED BY <1>1, <1>2 DEF Entries

\* update_pool changes the accumulators and the time of the last call.
LEMMA PoolUpdated ==
  ASSUME NEW t, Sound(t), now \in Nat
  PROVE  Settles(t, update_pool(t))
<1> DEFINE w == t.rewards
           time == Min({now, w.end})
           part(p) == ((time - w.last) * w.rate * p.alloc) \div w.total_alloc
           acc(p)  == IF p.lp_supply > 0 THEN p.acc + (part(p) * MULT_FACTOR) \div p.lp_supply
                      ELSE p.acc
           divides == w.total_alloc > 0 \/ \A i \in DOMAIN t.pools : t.pools[i].lp_supply = 0
           ps == [i \in DOMAIN t.pools |-> [t.pools[i] EXCEPT !.acc = IF w.balance = 0 THEN 0
                                                                     ELSE acc(t.pools[i])]]
           v == [w EXCEPT !.last = time]
           r == [t EXCEPT !.pools = ps, !.rewards = v]
<1>0. t \in Txs /\ w.end \in Nat /\ w.last \in Nat /\ w.rate \in Nat /\ w.total_alloc \in Nat
      /\ w.balance \in Nat
  BY RewardParts DEF Sound
<1>1. time \in Nat
  <2>1. now \in Int /\ w.end \in Int
    BY <1>0
  <2>2. time \in {now, w.end}
    BY <2>1, MinOf
  <2> QED BY <1>0, <2>2
<1>2. CASE ~t.ok \/ time <= w.last
  <2>1. update_pool(t) = t
    BY <1>2 DEF update_pool
  <2> QED BY <2>1, SettlesSelf
<1>3. CASE ~(~t.ok \/ time <= w.last) /\ ~divides
  <2>1. update_pool(t) = Require(t, FALSE)
    BY <1>3 DEF update_pool
  <2> QED BY <2>1, SettlesAbort
<1>4. CASE ~(~t.ok \/ time <= w.last) /\ divides
  <2>1. update_pool(t) = r
    <3>1. [t EXCEPT !.pools = ps, !.rewards.last = time] = r
      BY <1>0 DEF Txs
    <3> QED BY <1>4, <3>1 DEF update_pool
  <2>2. ASSUME NEW i \in DOMAIN t.pools
        PROVE  (IF w.balance = 0 THEN 0 ELSE acc(t.pools[i])) \in Nat
    <3>1. /\ t.pools[i].alloc \in Nat /\ t.pools[i].acc \in Nat /\ t.pools[i].lp_supply \in Nat
      BY <1>0, PoolParts
    <3>2. CASE t.pools[i].lp_supply > 0
      <4> DEFINE z == (time - w.last) * w.rate * t.pools[i].alloc
      <4>1. time - w.last \in Nat
        BY <1>0, <1>1, <1>4
      <4>2. z \in Nat
        BY <1>0, <3>1, <4>1, NatMul
      <4>3. w.total_alloc \in Nat \ {0}
        BY <1>0, <1>4, <3>2
      <4> HIDE DEF z
      <4>4. z \div w.total_alloc \in Nat
        BY <4>2, <4>3, NatDiv
      <4>5. (z \div w.total_alloc) * MULT_FACTOR \in Nat
        BY <4>4, NatMul, ExchangeAssumption
      <4>6. part(t.pools[i]) = z \div w.total_alloc
        BY DEF z
      <4> HIDE DEF part
      <4>7. (part(t.pools[i]) * MULT_FACTOR) \div t.pools[i].lp_supply \in Nat
        BY <3>1, <3>2, <4>5, <4>6, NatDiv
      <4> QED BY <3>1, <3>2, <4>7
    <3>3. CASE ~(t.pools[i].lp_supply > 0)
      BY <3>1, <3>3
    <3> QED BY <3>2, <3>3
  <2> HIDE DEF acc
  <2>3. /\ ps \in Seq(Pools) /\ DOMAIN ps = DOMAIN t.pools
        /\ \A i \in DOMAIN t.pools :
             /\ ps[i].a = t.pools[i].a /\ ps[i].b = t.pools[i].b /\ ps[i].supply = t.pools[i].supply
             /\ ps[i].ra = t.pools[i].ra /\ ps[i].rb = t.pools[i].rb
             /\ ps[i].lp_supply = t.pools[i].lp_supply /\ ps[i].alloc = t.pools[i].alloc
    <3>1. t.pools \in Seq(Pools) /\ DOMAIN t.pools = 1 .. Len(t.pools) /\ Len(t.pools) \in Nat
      BY <1>0, TxParts
    <3>2. ASSUME NEW i \in DOMAIN t.pools
          PROVE  /\ ps[i] \in Pools
                 /\ ps[i].a = t.pools[i].a /\ ps[i].b = t.pools[i].b /\ ps[i].supply = t.pools[i].supply
                 /\ ps[i].ra = t.pools[i].ra /\ ps[i].rb = t.pools[i].rb
                 /\ ps[i].lp_supply = t.pools[i].lp_supply /\ ps[i].alloc = t.pools[i].alloc
      <4> DEFINE x == IF w.balance = 0 THEN 0 ELSE acc(t.pools[i])
      <4>1. x \in Nat /\ ps[i] = [t.pools[i] EXCEPT !.acc = x] /\ t.pools[i] \in Pools
        BY <2>2, <3>1
      <4> HIDE DEF x, ps
      <4> QED BY <4>1 DEF Pools
    <3>3. ps = [i \in 1 .. Len(t.pools) |-> ps[i]]
      BY <3>1
    <3> HIDE DEF ps
    <3>4. DOMAIN ps = DOMAIN t.pools
      BY <3>1, <3>3
    <3>5. ps \in [1 .. Len(t.pools) -> Pools]
      BY <3>1, <3>2, <3>3
    <3>6. ps \in Seq(Pools)
      BY <3>1, <3>5
    <3> QED BY <3>2, <3>4, <3>6
  <2>4. v \in Rewards /\ v.balance = w.balance /\ v.total_alloc = w.total_alloc /\ v.open = w.open
    BY <1>0, <1>1, TxParts DEF Rewards
  <2> HIDE DEF ps, v
  <2>5. /\ r \in Txs /\ r.pools = ps /\ r.rewards = v /\ r.own = t.own /\ r.coin = t.coin
        /\ r.ok = t.ok
    BY <1>0, <2>3, <2>4 DEF Txs
  <2> HIDE DEF r
  <2>6. Sound(r)
    <3>1. Linked(r)
      BY <2>3, <2>5 DEF Sound, Linked
    <3>2. Counted(r)
      <4>1. Allocated(ps) = Allocated(t.pools)
        BY <2>3, AllocatedSame
      <4> QED BY <2>3, <2>4, <2>5, <4>1 DEF Sound, Counted
    <3> QED BY <2>5, <3>1, <3>2 DEF Sound
  <2>7. ASSUME NEW c \in Coins PROVE Slack(r, c) >= Slack(t, c)
    <3>1. Reserved(ps, c) = Reserved(t.pools, c)
      BY <2>3, ReservedSame DEF Holding
    <3>2. Slack(r, c) = Slack(t, c)
      BY <2>4, <2>5, <3>1 DEF Slack, Owed
    <3> QED BY <3>2, <1>0, SlackInt
  <2>8. Settles(t, r)
    BY <2>3, <2>4, <2>5, <2>6, <2>7 DEF Settles
  <2> QED BY <2>1, <2>8
<1> QED BY <1>2, <1>3, <1>4

\* One entry, or one pool, is replaced.
LEMMA EntryPut ==
  ASSUME NEW o \in Owns, NEW u \in Users, NEW k \in DOMAIN o[u], NEW e \in Entries
  PROVE  LET r == [o EXCEPT ![u] = [o[u] EXCEPT ![k] = e]]
         IN  /\ r \in Owns /\ \A w \in Users : DOMAIN r[w] = DOMAIN o[w]
             /\ r[u][k] = e /\ \A l \in DOMAIN o[u] \ {k} : r[u][l] = o[u][l]
             /\ \A w \in Users \ {u} : r[w] = o[w]
<1> DEFINE x == [o[u] EXCEPT ![k] = e]
           r == [o EXCEPT ![u] = x]
<1>1. o[u] \in Seq(Entries)
  BY DEF Owns
<1>2. x \in Seq(Entries) /\ DOMAIN x = DOMAIN o[u] /\ x[k] = e /\ \A l \in DOMAIN o[u] \ {k} : x[l] = o[u][l]
  BY <1>1
<1> HIDE DEF x
<1>3. r \in Owns /\ r[u] = x /\ \A w \in Users \ {u} : r[w] = o[w]
  BY <1>2 DEF Owns
<1> QED BY <1>2, <1>3 DEF x

\* Replacing a pool by one of the type stays in the type.
LEMMA PoolPut ==
  ASSUME NEW ps \in Seq(Pools), NEW i \in DOMAIN ps, NEW q \in Pools
  PROVE  LET qs == [ps EXCEPT ![i] = q]
         IN  /\ qs \in Seq(Pools) /\ DOMAIN qs = DOMAIN ps /\ qs[i] = q
             /\ \A j \in DOMAIN ps \ {i} : qs[j] = ps[j]
OBVIOUS

\* Recorded changes one entry and the shares its pool divides by alike.
LEMMA IsRecorded ==
  ASSUME NEW t, Sound(t), NEW u \in Users, NEW k \in DOMAIN t.own[u]
  PROVE  Settles(t, Recorded(t, u, k))
<1> DEFINE e == t.own[u][k]
           j == e.pool
           p == t.pools[j]
           x == [e EXCEPT !.amount = e.value, !.reward_debt = (e.value * p.acc) \div MULT_FACTOR]
           q == [p EXCEPT !.lp_supply = p.lp_supply + e.value - e.amount]
           o == [t.own EXCEPT ![u] = [t.own[u] EXCEPT ![k] = x]]
           ps == [t.pools EXCEPT ![j] = q]
           r == [t EXCEPT !.own = o, !.pools = ps]
<1>0. t \in Txs /\ j \in DOMAIN t.pools
  BY DEF Sound, Linked
<1>1. /\ e \in Entries /\ e.value \in Nat /\ e.amount \in Nat
      /\ p \in Pools /\ p.lp_supply \in Nat /\ p.acc \in Nat
  BY <1>0, EntryParts, PoolParts
<1>2. CASE p.lp_supply + e.value < e.amount
  <2>1. Recorded(t, u, k) = Require(t, FALSE)
    BY <1>2 DEF Recorded
  <2> QED BY <2>1, SettlesAbort
<1>3. CASE ~(p.lp_supply + e.value < e.amount)
  <2>1. Recorded(t, u, k) = r
    <3>1. [t EXCEPT !.own[u][k].amount = e.value,
                    !.own[u][k].reward_debt = (e.value * p.acc) \div MULT_FACTOR,
                    !.pools[j].lp_supply = @ + e.value - e.amount] = r
      BY <1>0 DEF Txs, Owns, Entries
    <3> QED BY <1>3, <3>1 DEF Recorded
  <2>2. /\ x \in Entries /\ x.pool = e.pool /\ x.value = e.value /\ x.amount = e.value
    <3>1. (e.value * p.acc) \div MULT_FACTOR \in Nat
      BY <1>1, NatMul, NatDiv, ExchangeAssumption
    <3> QED BY <1>1, <3>1 DEF Entries
  <2>3. /\ q \in Pools /\ q.lp_supply = p.lp_supply + (e.value - e.amount)
        /\ q.a = p.a /\ q.b = p.b /\ q.supply = p.supply /\ q.ra = p.ra /\ q.rb = p.rb
        /\ q.alloc = p.alloc
    <3> DEFINE m == p.lp_supply + e.value - e.amount
    <3>1. m \in Nat /\ m = p.lp_supply + (e.value - e.amount) /\ q = [p EXCEPT !.lp_supply = m]
      BY <1>1, <1>3
    <3> HIDE DEF m, p, e, q
    <3> QED BY <1>1, <3>1 DEF Pools
  <2> HIDE DEF x, q
  <2>4. /\ o \in Owns /\ \A w \in Users : DOMAIN o[w] = DOMAIN t.own[w]
        /\ o[u][k] = x /\ \A l \in DOMAIN t.own[u] \ {k} : o[u][l] = t.own[u][l]
        /\ \A w \in Users \ {u} : o[w] = t.own[w]
    <3> DEFINE z == t.own
               m == k
               y == [z EXCEPT ![u] = [z[u] EXCEPT ![m] = x]]
    <3>1. z \in Owns /\ x \in Entries /\ m \in DOMAIN z[u]
      BY <1>0, <2>2, TxParts
    <3> HIDE DEF z, m
    <3>2. /\ y \in Owns /\ \A w \in Users : DOMAIN y[w] = DOMAIN z[w]
          /\ y[u][m] = x /\ \A l \in DOMAIN z[u] \ {m} : y[u][l] = z[u][l]
          /\ \A w \in Users \ {u} : y[w] = z[w]
      BY <3>1, EntryPut
    <3> QED BY <3>2 DEF z, m
  <2>5. /\ ps \in Seq(Pools) /\ DOMAIN ps = DOMAIN t.pools /\ ps[j] = q
        /\ \A i \in DOMAIN t.pools \ {j} : ps[i] = t.pools[i]
    <3> DEFINE z == t.pools
               m == j
               zs == [z EXCEPT ![m] = q]
    <3>1. z \in Seq(Pools) /\ m \in DOMAIN z /\ q \in Pools
      BY <1>0, <2>3, TxParts
    <3> HIDE DEF z, m
    <3>2. /\ zs \in Seq(Pools) /\ DOMAIN zs = DOMAIN z /\ zs[m] = q
          /\ \A i \in DOMAIN z \ {m} : zs[i] = z[i]
      BY <3>1, PoolPut
    <3> QED BY <3>2 DEF z, m
  <2> HIDE DEF o, ps
  <2>6. /\ r \in Txs /\ r.own = o /\ r.pools = ps /\ r.rewards = t.rewards /\ r.coin = t.coin
        /\ r.ok = t.ok
    BY <1>0, <2>4, <2>5 DEF Txs
  <2> HIDE DEF r
  <2>7. \A w \in Users : \A l \in DOMAIN t.own[w] :
          o[w][l].pool = t.own[w][l].pool /\ o[w][l].value = t.own[w][l].value
    BY <2>2, <2>4
  <2>8. \A i \in DOMAIN t.pools :
          /\ ps[i].a = t.pools[i].a /\ ps[i].b = t.pools[i].b
          /\ ps[i].supply = t.pools[i].supply /\ ps[i].alloc = t.pools[i].alloc
          /\ ps[i].ra = t.pools[i].ra /\ ps[i].rb = t.pools[i].rb
    BY <2>3, <2>5
  <2>9. Linked(r)
    BY <2>4, <2>5, <2>6, <2>7, <2>8 DEF Sound, Linked
  <2>10. Counted(r)
    <3>1. Allocated(ps) = Allocated(t.pools)
      BY <2>5, <2>8, AllocatedSame
    <3>2. ASSUME NEW i \in DOMAIN t.pools
          PROVE  ps[i].lp_supply = OfPool(o, i, "amount")
      <4>1. OfPool(o, i, "amount") = OfPool(t.own, i, "amount")
              + (IF t.own[u][k].pool = i THEN o[u][k]["amount"] - t.own[u][k]["amount"] ELSE 0)
        <5>1. t.own \in Owns /\ "amount" \in Fields
          BY <1>0, TxParts DEF Fields
        <5>2. \A l \in DOMAIN t.own[u] : /\ o[u][l].pool = t.own[u][l].pool
                                         /\ l # k => o[u][l]["amount"] = t.own[u][l]["amount"]
          BY <2>4, <2>7
        <5> QED BY <2>4, <5>1, <5>2, OfPoolChange
      <4>2. o[u][k]["amount"] = e.value /\ t.own[u][k]["amount"] = e.amount
        BY <2>2, <2>4
      <4>3. OfPool(t.own, i, "amount") = t.pools[i].lp_supply
        BY DEF Sound, Counted
      <4>4. CASE i = j
        BY <1>1, <2>3, <2>5, <4>1, <4>2, <4>3, <4>4
      <4>5. CASE i # j
        <5>1. OfPool(t.own, i, "amount") \in Nat
          BY <1>0, TxParts, OfPoolNat DEF Fields
        <5> QED BY <2>5, <4>1, <4>3, <4>5, <5>1
      <4> QED BY <4>4, <4>5
    <3> QED BY <2>5, <2>6, <3>1, <3>2 DEF Sound, Counted
  <2>11. ASSUME NEW c \in Coins PROVE Slack(r, c) >= Slack(t, c)
    <3>1. Reserved(ps, c) = Reserved(t.pools, c)
      BY <2>5, <2>8, ReservedSame DEF Holding
    <3>2. Slack(r, c) = Slack(t, c)
      BY <2>6, <3>1 DEF Slack, Owed
    <3> QED BY <3>2, <1>0, SlackInt
  <2>12. Settles(t, r)
    BY <2>4, <2>5, <2>6, <2>7, <2>8, <2>9, <2>10, <2>11 DEF Settles, Sound
  <2> QED BY <2>1, <2>12
<1> QED BY <1>2, <1>3

\* A reward leaves the balance and the account together.
LEMMA IsRewarded ==
  ASSUME NEW t, Sound(t), NEW u \in Users, NEW due \in Nat, due <= t.rewards.balance
  PROVE  LET r == Rewarded(t, u, due)
         IN  Settles(t, r) /\ r.own = t.own /\ r.pools = t.pools
<1> DEFINE v == [t.rewards EXCEPT !.balance = t.rewards.balance - due]
           s == [t EXCEPT !.rewards = v]
           r == Rewarded(t, u, due)
<1>0. t \in Txs /\ t.rewards.balance \in Nat
  BY RewardParts DEF Sound
<1>1. /\ v \in Rewards /\ v.balance = t.rewards.balance - due /\ v.open = t.rewards.open
      /\ v.total_alloc = t.rewards.total_alloc
  BY <1>0, TxParts DEF Rewards
<1>2. r = Pay(s, Admin, u, VLS, due)
  <2>1. [t EXCEPT !.rewards.balance = @ - due] = s
    BY <1>0 DEF Txs
  <2> QED BY <2>1 DEF Rewarded
<1> HIDE DEF v, r
<1>3. /\ s \in Txs /\ s.rewards = v /\ s.own = t.own /\ s.pools = t.pools /\ s.coin = t.coin
      /\ s.ok = t.ok
  BY <1>0, <1>1 DEF Txs
<1> HIDE DEF s
<1>4. Sound(s)
  BY <1>1, <1>3, SoundSame
<1>5. /\ Sound(r) /\ r.pools = s.pools /\ r.own = s.own /\ r.rewards = s.rewards
      /\ r.ok => /\ s.ok /\ due > 0
                 /\ \A d \in Coins : Slack(r, d) = Slack(s, d) - (IF d = VLS THEN due ELSE 0)
      /\ ~r.ok => r.coin = s.coin
  <2>1. VLS \in Coins
    BY ExchangeAssumption
  <2> DEFINE y == Pay(s, Admin, u, VLS, due)
  <2>2. /\ Sound(y) /\ y.pools = s.pools /\ y.own = s.own /\ y.rewards = s.rewards
        /\ y.ok => /\ s.ok /\ due > 0
                   /\ \A d \in Coins : Slack(y, d) = Slack(s, d) - (IF d = VLS THEN due ELSE 0)
        /\ ~y.ok => y.coin = s.coin
    BY <1>4, <2>1, PaidOut
  <2> HIDE DEF y
  <2>3. r = y
    BY <1>2 DEF y
  <2> QED BY <2>2, <2>3
<1>6. ASSUME NEW c \in Coins
      PROVE  Slack(s, c) = Slack(t, c) + (IF c = VLS THEN due ELSE 0) /\ Slack(t, c) \in Int
  <2>1. Slack(t, c) \in Int /\ t.coin[Admin][c] \in Nat /\ Reserved(t.pools, c) \in Nat
    BY <1>0, SlackInt, TxParts, ReservedNat
  <2> QED BY <1>0, <1>1, <1>3, <2>1 DEF Slack, Owed
<1>7. ASSUME NEW c \in Coins PROVE Slack(r, c) >= Slack(t, c)
  <2>1. CASE r.ok
    BY <1>5, <1>6, <2>1
  <2>2. CASE ~r.ok
    <3>1. Slack(r, c) = Slack(s, c)
      BY <1>5, <2>2 DEF Slack, Owed
    <3> QED BY <3>1, <1>6
  <2> QED BY <2>1, <2>2
<1>8. Settles(t, r)
  BY <1>1, <1>3, <1>5, <1>7 DEF Settles
<1> QED BY <1>3, <1>5, <1>8 DEF r

\* update_user_reward_info, the early return and the payment included, settles.
LEMMA RewardSettles ==
  ASSUME NEW t, Sound(t), NEW u \in Users, NEW k \in DOMAIN t.own[u]
  PROVE  Settles(t, update_user_reward_info(t, u, k))
<1> DEFINE e == t.own[u][k]
           due == IF e.amount > 0
                  THEN (e.amount * t.pools[e.pool].acc) \div MULT_FACTOR - e.reward_debt ELSE 0
           r == update_user_reward_info(t, u, k)
<1>0. t \in Txs /\ e.pool \in DOMAIN t.pools /\ t.rewards.balance \in Nat
  BY RewardParts DEF Sound, Linked
<1>1. due \in Int
  <2>1. e.amount \in Nat /\ e.reward_debt \in Nat /\ t.pools[e.pool].acc \in Nat
    BY <1>0, EntryParts, PoolParts
  <2>2. (e.amount * t.pools[e.pool].acc) \div MULT_FACTOR \in Nat
    BY <2>1, NatMul, NatDiv, ExchangeAssumption
  <2> QED BY <2>1, <2>2
<1>2. CASE ~t.ok \/ due < 0
  <2>1. r = Require(t, FALSE)
    BY <1>2 DEF update_user_reward_info
  <2> QED BY <2>1, SettlesAbort
<1>3. CASE ~(~t.ok \/ due < 0) /\ due = 0
  <2>1. r = Recorded(t, u, k)
    BY <1>3 DEF update_user_reward_info
  <2> QED BY <2>1, IsRecorded
<1>4. CASE ~(~t.ok \/ due < 0) /\ due # 0 /\ t.rewards.balance < due
  <2> DEFINE v == [t.rewards EXCEPT !.balance = 0]
             s == [t EXCEPT !.rewards = v]
  <2>1. r = s
    <3>1. [t EXCEPT !.rewards.balance = 0] = s
      BY <1>0 DEF Txs
    <3> HIDE DEF due
    <3> QED BY <1>4, <3>1 DEF update_user_reward_info, due
  <2>2. /\ v \in Rewards /\ v.balance = 0 /\ v.open = t.rewards.open
        /\ v.total_alloc = t.rewards.total_alloc
    BY <1>0, TxParts DEF Rewards
  <2> HIDE DEF v
  <2>3. /\ s \in Txs /\ s.rewards = v /\ s.own = t.own /\ s.pools = t.pools /\ s.coin = t.coin
        /\ s.ok = t.ok
    BY <1>0, <2>2 DEF Txs
  <2> HIDE DEF s
  <2>4. Sound(s)
    BY <2>2, <2>3, SoundSame
  <2>5. ASSUME NEW c \in Coins PROVE Slack(s, c) >= Slack(t, c)
    <3>1. Slack(t, c) \in Int /\ t.coin[Admin][c] \in Nat /\ Reserved(t.pools, c) \in Nat
      BY <1>0, SlackInt, TxParts, ReservedNat
    <3> QED BY <1>0, <2>2, <2>3, <3>1 DEF Slack, Owed
  <2>6. Settles(t, s)
    BY <2>2, <2>3, <2>4, <2>5 DEF Settles
  <2> QED BY <2>1, <2>6
<1>5. CASE ~(~t.ok \/ due < 0) /\ due # 0 /\ ~(t.rewards.balance < due)
  <2> DEFINE s == Rewarded(t, u, due)
  <2>1. r = Recorded(s, u, k)
    BY <1>5 DEF update_user_reward_info
  <2> HIDE DEF due
  <2>2. due \in Nat /\ due <= t.rewards.balance
    BY <1>0, <1>1, <1>5
  <2>3. Settles(t, s) /\ s.own = t.own
    BY <2>2, IsRewarded
  <2> HIDE DEF s
  <2>4. Sound(s) /\ k \in DOMAIN s.own[u]
    BY <2>3 DEF Settles
  <2>5. Settles(s, Recorded(s, u, k))
    BY <2>4, IsRecorded
  <2> QED BY <2>1, <2>3, <2>5, SettlesTwice
<1> HIDE DEF due
<1> QED BY <1>1, <1>2, <1>3, <1>4, <1>5

----------------------------------------------------------------------------
(* Shares and reserves.                                                    *)

\* The shares of one entry are set.
LEMMA ValuePut ==
  ASSUME NEW t, Sound(t), NEW u \in Users, NEW k \in DOMAIN t.own[u], NEW v \in Nat
  PROVE  LET r == [t EXCEPT !.own[u][k].value = v]
         IN  /\ Sound(r) /\ r.pools = t.pools /\ r.rewards = t.rewards /\ r.coin = t.coin
             /\ r.ok = t.ok /\ DOMAIN r.own[u] = DOMAIN t.own[u]
             /\ \A i \in DOMAIN t.pools :
                  OfPool(r.own, i, "value") = OfPool(t.own, i, "value")
                    + (IF t.own[u][k].pool = i THEN v - t.own[u][k].value ELSE 0)
<1> DEFINE e == t.own[u][k]
           x == [e EXCEPT !.value = v]
           o == [t.own EXCEPT ![u] = [t.own[u] EXCEPT ![k] = x]]
           r == [t EXCEPT !.own = o]
<1>0. t \in Txs /\ e \in Entries /\ t.own \in Owns
  BY EntryParts, TxParts DEF Sound
<1>1. [t EXCEPT !.own[u][k].value = v] = r
  BY <1>0 DEF Txs, Owns, Entries
<1>2. x \in Entries /\ x.pool = e.pool /\ x.value = v /\ x.amount = e.amount
  BY <1>0 DEF Entries
<1> HIDE DEF x
<1>3. /\ o \in Owns /\ \A w \in Users : DOMAIN o[w] = DOMAIN t.own[w]
      /\ o[u][k] = x /\ \A l \in DOMAIN t.own[u] \ {k} : o[u][l] = t.own[u][l]
      /\ \A w \in Users \ {u} : o[w] = t.own[w]
  <2> DEFINE z == t.own
             m == k
             y == [z EXCEPT ![u] = [z[u] EXCEPT ![m] = x]]
  <2>1. z \in Owns /\ x \in Entries /\ m \in DOMAIN z[u]
    BY <1>0, <1>2
  <2> HIDE DEF z, m
  <2>2. /\ y \in Owns /\ \A w \in Users : DOMAIN y[w] = DOMAIN z[w]
        /\ y[u][m] = x /\ \A l \in DOMAIN z[u] \ {m} : y[u][l] = z[u][l]
        /\ \A w \in Users \ {u} : y[w] = z[w]
    BY <2>1, EntryPut
  <2> QED BY <2>2 DEF z, m
<1> HIDE DEF o
<1>4. /\ r \in Txs /\ r.own = o /\ r.pools = t.pools /\ r.rewards = t.rewards
      /\ r.coin = t.coin /\ r.ok = t.ok
  BY <1>0, <1>3 DEF Txs
<1> HIDE DEF r
<1>5. \A w \in Users : \A l \in DOMAIN t.own[w] :
        o[w][l].pool = t.own[w][l].pool /\ o[w][l].amount = t.own[w][l].amount
  BY <1>2, <1>3
<1>6. Sound(r)
  <2>1. Linked(r)
    BY <1>3, <1>4, <1>5 DEF Sound, Linked
  <2>2. \A i \in DOMAIN t.pools : OfPool(o, i, "amount") = OfPool(t.own, i, "amount")
    BY <1>3, <1>5, OfPoolSame
  <2> QED BY <1>4, <2>1, <2>2 DEF Sound, Counted
<1>7. ASSUME NEW i \in DOMAIN t.pools
      PROVE  OfPool(o, i, "value") = OfPool(t.own, i, "value")
               + (IF t.own[u][k].pool = i THEN v - t.own[u][k].value ELSE 0)
  <2>1. "value" \in Fields
    BY DEF Fields
  <2>2. \A l \in DOMAIN t.own[u] : /\ o[u][l].pool = t.own[u][l].pool
                                   /\ l # k => o[u][l]["value"] = t.own[u][l]["value"]
    BY <1>3, <1>5
  <2>3. OfPool(o, i, "value") = OfPool(t.own, i, "value")
          + (IF t.own[u][k].pool = i THEN o[u][k]["value"] - t.own[u][k]["value"] ELSE 0)
    BY <1>0, <1>3, <2>1, <2>2, OfPoolChange
  <2>4. o[u][k]["value"] = v
    BY <1>2, <1>3
  <2> QED BY <2>3, <2>4
<1>8. /\ Sound(r) /\ r.pools = t.pools /\ r.rewards = t.rewards /\ r.coin = t.coin
      /\ r.ok = t.ok /\ DOMAIN r.own[u] = DOMAIN t.own[u]
      /\ \A i \in DOMAIN t.pools :
           OfPool(r.own, i, "value") = OfPool(t.own, i, "value")
             + (IF t.own[u][k].pool = i THEN v - t.own[u][k].value ELSE 0)
  BY <1>3, <1>4, <1>6, <1>7
<1> QED BY <1>1, <1>8

\* The supply and the reserves of one pool are set.
PoolTo(t, i, s, x, y) ==
  [t EXCEPT !.pools[i].supply = s, !.pools[i].ra = x, !.pools[i].rb = y]

PoolIn(ps, i, s, x, y) == [ps EXCEPT ![i] = [ps[i] EXCEPT !.supply = s, !.ra = x, !.rb = y]]

PoolsTo(t, ps) == [t EXCEPT !.pools = ps]

Lowered(t, i, l, e, f) ==
  [t EXCEPT !.pools[i].supply = @ - l, !.pools[i].ra = @ - e, !.pools[i].rb = @ - f]

\* Setting three fields of a pool, by the pool it gives.
LEMMA PoolToIs ==
  ASSUME NEW t \in Txs, NEW i, i \in DOMAIN t.pools, NEW s, NEW x, NEW y
  PROVE  PoolTo(t, i, s, x, y) = PoolsTo(t, PoolIn(t.pools, i, s, x, y))
<1>1. t.pools \in Seq(Pools) /\ t.pools[i] \in Pools
  BY PoolParts, TxParts
<1> QED BY <1>1 DEF PoolTo, PoolsTo, PoolIn, Txs, Pools

\* remove_liquidity's first assignments, as two replacements.
LEMMA PoolLowered ==
  ASSUME NEW t \in Txs, NEW i, i \in DOMAIN t.pools, NEW l, NEW e, NEW f
  PROVE  Lowered(t, i, l, e, f)
         = PoolTo(t, i, t.pools[i].supply - l, t.pools[i].ra - e, t.pools[i].rb - f)
<1> DEFINE s == t.pools[i].supply - l
           x == t.pools[i].ra - e
           y == t.pools[i].rb - f
<1>0. s = t.pools[i].supply - l /\ x = t.pools[i].ra - e /\ y = t.pools[i].rb - f
  OBVIOUS
<1>1. t.pools \in Seq(Pools) /\ t.pools[i] \in Pools
  BY PoolParts, TxParts
<1> HIDE DEF s, x, y
<1>2. Lowered(t, i, l, e, f) = PoolTo(t, i, s, x, y)
  BY <1>0, <1>1 DEF Lowered, PoolTo, Txs, Pools
<1> QED BY <1>0, <1>2

\* A pool gets another supply and other reserves: what changes and what does not.
LEMMA PoolSet ==
  ASSUME NEW t, Sound(t), NEW i, i \in DOMAIN t.pools, NEW s \in Nat, NEW x \in Nat, NEW y \in Nat
  PROVE  LET r == PoolTo(t, i, s, x, y)
         IN  /\ Sound(r) /\ r.own = t.own /\ r.rewards = t.rewards /\ r.coin = t.coin
             /\ r.ok = t.ok /\ DOMAIN r.pools = DOMAIN t.pools
             /\ \A j \in DOMAIN t.pools \ {i} : r.pools[j] = t.pools[j]
             /\ r.pools[i].supply = s /\ r.pools[i].ra = x /\ r.pools[i].rb = y
             /\ r.pools[i].a = t.pools[i].a /\ r.pools[i].b = t.pools[i].b
             /\ \A c \in Coins : Slack(r, c) = Slack(t, c)
                  - (IF Code(t.pools[i].a) = c THEN x - t.pools[i].ra ELSE 0)
                  - (IF Code(t.pools[i].b) = c THEN y - t.pools[i].rb ELSE 0)
<1> DEFINE p == t.pools[i]
           q == [p EXCEPT !.supply = s, !.ra = x, !.rb = y]
           ps == [t.pools EXCEPT ![i] = q]
           r == [t EXCEPT !.pools = ps]
<1>0. /\ t \in Txs /\ p \in Pools /\ t.pools \in Seq(Pools) /\ p.ra \in Nat /\ p.rb \in Nat
  BY PoolParts, TxParts DEF Sound
<1>1. PoolTo(t, i, s, x, y) = r
  BY <1>0 DEF PoolTo, Txs, Pools
<1>2. /\ q \in Pools /\ q.supply = s /\ q.ra = x /\ q.rb = y /\ q.a = p.a /\ q.b = p.b
      /\ q.lp_supply = p.lp_supply /\ q.alloc = p.alloc
  <2> HIDE DEF p
  <2> QED BY <1>0 DEF Pools
<1> HIDE DEF q
<1>3. /\ ps \in Seq(Pools) /\ DOMAIN ps = DOMAIN t.pools /\ ps[i] = q
      /\ \A j \in DOMAIN t.pools \ {i} : ps[j] = t.pools[j]
  BY <1>0, <1>2, PoolPut
<1> HIDE DEF ps
<1>4. /\ r \in Txs /\ r.own = t.own /\ r.pools = ps /\ r.rewards = t.rewards
      /\ r.coin = t.coin /\ r.ok = t.ok
  BY <1>0, <1>3 DEF Txs
<1> HIDE DEF r
<1>5. \A j \in DOMAIN t.pools :
        /\ ps[j].a = t.pools[j].a /\ ps[j].b = t.pools[j].b
        /\ ps[j].lp_supply = t.pools[j].lp_supply /\ ps[j].alloc = t.pools[j].alloc
  BY <1>2, <1>3
<1>6. Sound(r)
  <2>1. Linked(r)
    BY <1>3, <1>4, <1>5 DEF Sound, Linked
  <2>2. Allocated(ps) = Allocated(t.pools)
    BY <1>3, <1>5, AllocatedSame
  <2> QED BY <1>3, <1>4, <1>5, <2>1, <2>2 DEF Sound, Counted
<1>7. ASSUME NEW c \in Coins
      PROVE  Slack(r, c) = Slack(t, c) - (IF Code(p.a) = c THEN x - p.ra ELSE 0)
                                       - (IF Code(p.b) = c THEN y - p.rb ELSE 0)
  <2>1. Reserved(ps, c) = Reserved(t.pools, c) + (Holding(ps[i], c) - Holding(t.pools[i], c))
    BY <1>0, <1>3, ReservedChange
  <2>2. Holding(ps[i], c) - Holding(t.pools[i], c)
        = (IF Code(p.a) = c THEN x - p.ra ELSE 0) + (IF Code(p.b) = c THEN y - p.rb ELSE 0)
    <3>1. Holding(ps[i], c) = (IF Code(p.a) = c THEN x ELSE 0) + (IF Code(p.b) = c THEN y ELSE 0)
      BY <1>2, <1>3 DEF Holding
    <3>2. Holding(t.pools[i], c)
          = (IF Code(p.a) = c THEN p.ra ELSE 0) + (IF Code(p.b) = c THEN p.rb ELSE 0)
      BY DEF Holding
    <3> HIDE DEF p
    <3> QED BY <1>0, <3>1, <3>2
  <2>3. Reserved(t.pools, c) \in Nat /\ t.coin[Admin][c] \in Nat /\ t.rewards.balance \in Nat
    BY <1>0, ReservedNat, SlackInt, RewardParts
  <2> DEFINE d == (IF Code(p.a) = c THEN x - p.ra ELSE 0)
             f == (IF Code(p.b) = c THEN y - p.rb ELSE 0)
             v == IF c = VLS THEN t.rewards.balance ELSE 0
  <2>4. d \in Int /\ f \in Int /\ v \in Int
    BY <1>0, <2>3
  <2>5. Slack(r, c) = t.coin[Admin][c] - (Reserved(ps, c) + v)
        /\ Slack(t, c) = t.coin[Admin][c] - (Reserved(t.pools, c) + v)
    BY <1>4 DEF Slack, Owed
  <2>6. Reserved(ps, c) = Reserved(t.pools, c) + (d + f)
    BY <2>1, <2>2
  <2> HIDE DEF d, f, v
  <2>7. Slack(r, c) = Slack(t, c) - d - f
    BY <2>3, <2>4, <2>5, <2>6
  <2> QED BY <2>7 DEF d, f
<1>8. /\ Sound(r) /\ r.own = t.own /\ r.rewards = t.rewards /\ r.coin = t.coin
      /\ r.ok = t.ok /\ DOMAIN r.pools = DOMAIN t.pools
      /\ \A j \in DOMAIN t.pools \ {i} : r.pools[j] = t.pools[j]
      /\ r.pools[i].supply = s /\ r.pools[i].ra = x /\ r.pools[i].rb = y
      /\ r.pools[i].a = t.pools[i].a /\ r.pools[i].b = t.pools[i].b
  BY <1>2, <1>3, <1>4, <1>6
<1> QED BY <1>1, <1>7, <1>8

\* The first of the places that are searched.
LEMMA LeastOf ==
  ASSUME NEW S \in SUBSET Nat, S # {}
  PROVE  Min(S) \in S
<1>1. \E m \in S : \A n \in S : m <= n
  BY Least
<1> QED BY <1>1 DEF Min

\* The pool of two currencies, or the place after the last.
LEMMA PoolIndexIs ==
  ASSUME NEW ps \in Seq(Pools), NEW a, NEW b
  PROVE  LET i == PoolIndex(ps, a, b)
         IN  \/ i \in DOMAIN ps /\ ps[i].a = a /\ ps[i].b = b
             \/ i = Len(ps) + 1 /\ i \notin DOMAIN ps
<1> DEFINE at == {i \in DOMAIN ps : ps[i].a = a /\ ps[i].b = b}
<1>1. at \in SUBSET Nat /\ Len(ps) \in Nat /\ DOMAIN ps = 1 .. Len(ps)
  OBVIOUS
<1>2. CASE at = {}
  <2>1. PoolIndex(ps, a, b) = Len(ps) + 1
    BY <1>2 DEF PoolIndex
  <2> QED BY <1>1, <2>1
<1>3. CASE at # {}
  <2>1. PoolIndex(ps, a, b) = Min(at)
    BY <1>3 DEF PoolIndex
  <2>2. Min(at) \in at
    BY <1>1, <1>3, LeastOf
  <2> QED BY <2>1, <2>2
<1> QED BY <1>2, <1>3

\* The user's entry for a pool, or the place after the last.
LEMMA EntryIs ==
  ASSUME NEW t \in Txs, NEW u \in Users, NEW i
  PROVE  LET k == Entry(t, u, i)
         IN  \/ k \in DOMAIN t.own[u] /\ t.own[u][k].pool = i
             \/ /\ k = Len(t.own[u]) + 1 /\ k \notin DOMAIN t.own[u]
                /\ \A l \in DOMAIN t.own[u] : t.own[u][l].pool # i
<1> DEFINE at == {k \in DOMAIN t.own[u] : t.own[u][k].pool = i}
<1>0. t.own[u] \in Seq(Entries)
  BY TxParts DEF Owns
<1>1. at \in SUBSET Nat /\ Len(t.own[u]) \in Nat /\ DOMAIN t.own[u] = 1 .. Len(t.own[u])
  BY <1>0
<1>2. CASE at = {}
  <2>1. Entry(t, u, i) = Len(t.own[u]) + 1
    BY <1>2 DEF Entry
  <2> QED BY <1>1, <1>2, <2>1
<1>3. CASE at # {}
  <2>1. Entry(t, u, i) = Min(at)
    BY <1>3 DEF Entry
  <2>2. Min(at) \in at
    BY <1>1, <1>3, LeastOf
  <2> QED BY <2>1, <2>2
<1> QED BY <1>2, <1>3

\* A pool that does not exist has no shares.
LEMMA NoShares ==
  ASSUME NEW t, Sound(t), NEW i, i \notin DOMAIN t.pools, NEW n
  PROVE  OfPool(t.own, i, n) = 0
<1>1. ASSUME NEW u \in Users PROVE Entered(t.own, u, i, n) = 0
  <2> DEFINE D == DOMAIN t.own[u]
             f == [k \in D |-> IF t.own[u][k].pool = i THEN t.own[u][k][n] ELSE 0]
  <2>1. \A k \in D : f[k] = 0
    BY DEF Sound, Linked
  <2>2. IsFiniteSet(D)
    BY TxParts, DomainFinite DEF Sound, Owns
  <2>3. Entered(t.own, u, i, n) = SumFunctionOnSet(f, D)
    BY DEF Entered
  <2> HIDE DEF f, D
  <2> QED BY <2>1, <2>2, <2>3, SumZero
<1> DEFINE g == [u \in Users |-> Entered(t.own, u, i, n)]
<1>2. \A u \in Users : g[u] = 0
  BY <1>1
<1>3. OfPool(t.own, i, n) = SumFunctionOnSet(g, Users)
  BY DEF OfPool
<1>4. IsFiniteSet(Users)
  BY ExchangeAssumption
<1> HIDE DEF g
<1> QED BY <1>2, <1>3, <1>4, SumZero

\* The pool of two currencies is found, or made without shares and reserves.
LEMMA PoolFound ==
  ASSUME NEW t, Sound(t), NEW a \in Nat, NEW b \in Nat, a < b, b < Len(codes)
  PROVE  LET r == get_reserve_internal(t, a, b)
             i == PoolIndex(r.pools, a, b)
         IN  /\ Sound(r) /\ r.ok = t.ok /\ r.own = t.own /\ r.coin = t.coin
             /\ r.rewards.open = t.rewards.open
             /\ \A c \in Coins : Slack(r, c) = Slack(t, c)
             /\ i \in DOMAIN r.pools /\ r.pools[i].a = a /\ r.pools[i].b = b
             /\ \A j \in DOMAIN t.pools : j \in DOMAIN r.pools /\ r.pools[j] = t.pools[j]
             /\ \A j \in DOMAIN r.pools \ DOMAIN t.pools :
                  /\ r.pools[j].supply = 0 /\ r.pools[j].ra = 0 /\ r.pools[j].rb = 0
                  /\ Gap(r, j) = 0
<1> DEFINE r == get_reserve_internal(t, a, b)
           new == [a |-> a, b |-> b, supply |-> 0, ra |-> 0, rb |-> 0,
                   lp_supply |-> 0, alloc |-> AllocPoint, acc |-> 0]
           s == Require(t, a < b)
           i0 == PoolIndex(t.pools, a, b)
<1>0. t \in Txs /\ t.pools \in Seq(Pools) /\ t.rewards.total_alloc \in Nat
  BY TxParts, RewardParts DEF Sound
<1>1. /\ s \in Txs /\ s.ok = t.ok /\ s.pools = t.pools /\ s.rewards = t.rewards
      /\ s.own = t.own /\ s.coin = t.coin
  <2>1. (a < b) = TRUE
    OBVIOUS
  <2> QED BY <1>0, <2>1 DEF Require, Txs
<1> HIDE DEF s
<1>2. CASE i0 \in DOMAIN t.pools
  <2>1. r = s
    BY <1>1, <1>2 DEF get_reserve_internal, s
  <2>2. Sound(s)
    BY <1>1, SoundSame
  <2>3. \A c \in Coins : Slack(s, c) = Slack(t, c)
    BY <1>1 DEF Slack, Owed
  <2>4. t.pools[i0].a = a /\ t.pools[i0].b = b
    BY <1>0, <1>2, PoolIndexIs
  <2> HIDE DEF r
  <2>5. PoolIndex(r.pools, a, b) = i0
    BY <1>1, <2>1
  <2> QED BY <1>1, <1>2, <2>1, <2>2, <2>3, <2>4, <2>5 DEF r
<1>3. CASE i0 \notin DOMAIN t.pools
  <2> DEFINE m == Len(t.pools)
             ps == Append(t.pools, new)
             v == [t.rewards EXCEPT !.total_alloc = t.rewards.total_alloc + AllocPoint]
             y == [s EXCEPT !.pools = ps, !.rewards = v]
  <2>1. r = y
    <3>1. [s EXCEPT !.pools = Append(@, new), !.rewards.total_alloc = @ + AllocPoint] = y
      BY <1>1 DEF Txs
    <3> QED BY <1>3, <3>1 DEF get_reserve_internal, s
  <2>2. new \in Pools /\ new.a = a /\ new.b = b /\ new.supply = 0 /\ new.ra = 0 /\ new.rb = 0
        /\ new.lp_supply = 0 /\ new.alloc = AllocPoint
    BY ExchangeAssumption DEF Pools
  <2> HIDE DEF new
  <2>3. /\ m \in Nat /\ DOMAIN t.pools = 1 .. m /\ ps \in Seq(Pools) /\ DOMAIN ps = 1 .. m + 1
        /\ ps[m + 1] = new /\ \A j \in 1 .. m : ps[j] = t.pools[j]
    BY <1>0, <2>2
  <2>4. /\ v \in Rewards /\ v.total_alloc = t.rewards.total_alloc + AllocPoint
        /\ v.balance = t.rewards.balance /\ v.open = t.rewards.open
    <3> DEFINE z == t.rewards.total_alloc + AllocPoint
    <3>1. z \in Nat /\ t.rewards \in Rewards
      BY <1>0, TxParts, ExchangeAssumption
    <3> HIDE DEF z
    <3>2. LET q == [t.rewards EXCEPT !.total_alloc = z]
          IN  /\ q \in Rewards /\ q.total_alloc = z /\ q.balance = t.rewards.balance
              /\ q.open = t.rewards.open
      BY <3>1 DEF Rewards
    <3> QED BY <3>2 DEF z
  <2>5. /\ Allocated(ps) = Allocated(t.pools) + AllocPoint
        /\ \A c \in Coins : Reserved(ps, c) = Reserved(t.pools, c) + Holding(new, c)
    BY <1>0, <2>2, PoolAppend
  <2> HIDE DEF m, ps, v
  <2>6. /\ y \in Txs /\ y.pools = ps /\ y.rewards = v /\ y.own = t.own /\ y.coin = t.coin
        /\ y.ok = t.ok
    BY <1>1, <2>3, <2>4 DEF Txs
  <2> HIDE DEF y
  <2>7. \A n \in Fields : OfPool(t.own, m + 1, n) = 0
    <3> SUFFICES ASSUME NEW n \in Fields PROVE OfPool(t.own, m + 1, n) = 0
      OBVIOUS
    <3> DEFINE i == m + 1
    <3>1. i \notin DOMAIN t.pools
      BY <2>3
    <3> HIDE DEF i
    <3>2. OfPool(t.own, i, n) = 0
      BY <3>1, NoShares
    <3> QED BY <3>2 DEF i
  <2>8. Sound(y)
    <3>1. Linked(y)
      <4>1. \A j \in DOMAIN ps : ps[j].a < ps[j].b /\ ps[j].b < Len(codes)
        <5> SUFFICES ASSUME NEW j \in DOMAIN ps PROVE ps[j].a < ps[j].b /\ ps[j].b < Len(codes)
          OBVIOUS
        <5>1. CASE j = m + 1
          BY <2>2, <2>3, <5>1
        <5>2. CASE j # m + 1
          BY <2>3, <5>2 DEF Sound, Linked
        <5> QED BY <5>1, <5>2
      <4>2. DOMAIN t.pools \subseteq DOMAIN ps
        BY <2>3
      <4> QED BY <2>6, <4>1, <4>2 DEF Sound, Linked
    <3>2. Counted(y)
      <4>1. \A j \in DOMAIN ps : ps[j].lp_supply = OfPool(t.own, j, "amount")
        <5> SUFFICES ASSUME NEW j \in DOMAIN ps PROVE ps[j].lp_supply = OfPool(t.own, j, "amount")
          OBVIOUS
        <5>1. CASE j = m + 1
          BY <2>2, <2>3, <2>7, <5>1 DEF Fields
        <5>2. CASE j # m + 1
          BY <2>3, <5>2 DEF Sound, Counted
        <5> QED BY <5>1, <5>2
      <4>2. v.total_alloc = Allocated(ps)
        BY <2>4, <2>5 DEF Sound, Counted
      <4> QED BY <2>6, <4>1, <4>2 DEF Counted
    <3> QED BY <2>6, <3>1, <3>2 DEF Sound
  <2>9. ASSUME NEW c \in Coins PROVE Slack(y, c) = Slack(t, c)
    <3>1. Holding(new, c) = 0
      BY <2>2 DEF Holding
    <3>2. Reserved(ps, c) = Reserved(t.pools, c)
      BY <1>0, <2>5, <3>1, ReservedNat
    <3> QED BY <2>4, <2>6, <3>2 DEF Slack, Owed
  <2>10. LET i == PoolIndex(ps, a, b) IN i \in DOMAIN ps /\ ps[i].a = a /\ ps[i].b = b
    <3> DEFINE at == {j \in DOMAIN ps : ps[j].a = a /\ ps[j].b = b}
    <3>1. m + 1 \in at /\ at \in SUBSET Nat
      BY <2>2, <2>3
    <3>2. PoolIndex(ps, a, b) = Min(at)
      BY <3>1 DEF PoolIndex
    <3>3. Min(at) \in at
      BY <3>1, LeastOf
    <3> QED BY <3>2, <3>3
  <2>11. \A j \in DOMAIN ps \ DOMAIN t.pools :
           ps[j].supply = 0 /\ ps[j].ra = 0 /\ ps[j].rb = 0 /\ Gap(y, j) = 0
    <3> SUFFICES ASSUME NEW j \in DOMAIN ps \ DOMAIN t.pools
                 PROVE  ps[j].supply = 0 /\ ps[j].ra = 0 /\ ps[j].rb = 0 /\ Gap(y, j) = 0
      OBVIOUS
    <3>1. j = m + 1
      BY <2>3
    <3>2. ps[j].supply = 0 /\ ps[j].ra = 0 /\ ps[j].rb = 0
      BY <2>2, <2>3, <3>1
    <3>3. OfPool(y.own, j, "value") = 0
      BY <2>6, <2>7, <3>1 DEF Fields
    <3> QED BY <2>6, <3>2, <3>3 DEF Gap
  <2>12. \A j \in DOMAIN t.pools : j \in DOMAIN ps /\ ps[j] = t.pools[j]
    BY <2>3
  <2> HIDE DEF r
  <2> QED BY <2>1, <2>4, <2>6, <2>8, <2>9, <2>10, <2>11, <2>12 DEF r
<1> QED BY <1>2, <1>3

\* The user's entry for a pool is found, or made without shares.
LEMMA TokenFound ==
  ASSUME NEW t, Sound(t), NEW u \in Users, NEW i \in DOMAIN t.pools
  PROVE  LET r == get_token(t, u, i)
             k == Entry(r, u, i)
         IN  /\ Sound(r) /\ r.ok = t.ok /\ r.pools = t.pools /\ r.coin = t.coin
             /\ r.rewards = t.rewards
             /\ k \in DOMAIN r.own[u] /\ r.own[u][k].pool = i
             /\ \A j \in DOMAIN t.pools : OfPool(r.own, j, "value") = OfPool(t.own, j, "value")
<1> DEFINE r == get_token(t, u, i)
           k0 == Entry(t, u, i)
           e == [pool |-> i, value |-> 0, amount |-> 0, reward_debt |-> 0]
<1>0. t \in Txs /\ t.own \in Owns /\ t.own[u] \in Seq(Entries) /\ i \in Nat
  <2>1. t \in Txs /\ t.own \in Owns /\ t.pools \in Seq(Pools)
    BY TxParts DEF Sound
  <2> QED BY <2>1 DEF Owns
<1>1. CASE k0 \in DOMAIN t.own[u]
  <2>1. r = t
    BY <1>1 DEF get_token
  <2>2. t.own[u][k0].pool = i
    BY <1>0, <1>1, EntryIs
  <2> QED BY <1>1, <2>1, <2>2
<1>2. CASE k0 \notin DOMAIN t.own[u]
  <2> DEFINE x == Append(t.own[u], e)
             o == [t.own EXCEPT ![u] = x]
             y == [t EXCEPT !.own = o]
             m == Len(t.own[u])
  <2>1. r = y
    <3>1. [t EXCEPT !.own[u] = Append(@, e)] = y
      BY <1>0 DEF Txs
    <3> QED BY <1>2, <3>1 DEF get_token
  <2>2. e \in Entries /\ e.pool = i /\ e.value = 0 /\ e.amount = 0
    BY <1>0 DEF Entries
  <2> HIDE DEF e
  <2>3. /\ m \in Nat /\ DOMAIN t.own[u] = 1 .. m /\ x \in Seq(Entries) /\ DOMAIN x = 1 .. m + 1
        /\ x[m + 1] = e /\ \A l \in 1 .. m : x[l] = t.own[u][l]
    BY <1>0, <2>2
  <2>x. x = Append(t.own[u], e)
    OBVIOUS
  <2> HIDE DEF x, m
  <2>4. o \in Owns /\ o[u] = x /\ \A w \in Users \ {u} : o[w] = t.own[w]
    BY <1>0, <2>3 DEF Owns
  <2> HIDE DEF o
  <2>5. /\ y \in Txs /\ y.own = o /\ y.pools = t.pools /\ y.rewards = t.rewards
        /\ y.coin = t.coin /\ y.ok = t.ok
    BY <1>0, <2>4 DEF Txs
  <2> HIDE DEF y
  <2>6. \A l \in DOMAIN t.own[u] : t.own[u][l].pool # i
    BY <1>0, <1>2, EntryIs
  <2>7. ASSUME NEW j, NEW n \in Fields PROVE OfPool(o, j, n) = OfPool(t.own, j, n)
    <3>1. e[n] = 0
      BY <2>2 DEF Fields
    <3>2. o[u] = Append(t.own[u], e)
      BY <2>4, <2>x
    <3> QED BY <1>0, <2>2, <2>4, <3>1, <3>2, OfPoolAppend
  <2>8. Linked(y)
    <3>1. ASSUME NEW w \in Users, NEW l \in DOMAIN o[w]
          PROVE  /\ o[w][l].pool \in DOMAIN t.pools
                 /\ \A h \in DOMAIN o[w] : o[w][h].pool = o[w][l].pool => h = l
      <4>1. CASE w # u
        BY <2>4, <4>1 DEF Sound, Linked
      <4>2. CASE w = u
        <5>1. \A h \in 1 .. m : x[h].pool = t.own[u][h].pool /\ x[h].pool # i
              /\ x[h].pool \in DOMAIN t.pools
          BY <2>3, <2>6 DEF Sound, Linked
        <5>2. x[m + 1].pool = i
          BY <2>2, <2>3
        <5>3. \A h, g \in 1 .. m : x[h].pool = x[g].pool => h = g
          BY <2>3, <5>1 DEF Sound, Linked
        <5>4. \A h \in 1 .. m + 1 : h = m + 1 \/ h \in 1 .. m
          BY <2>3
        <5> QED BY <2>3, <2>4, <4>2, <5>1, <5>2, <5>3, <5>4
      <4> QED BY <4>1, <4>2
    <3> QED BY <2>5, <3>1 DEF Sound, Linked
  <2>9. Sound(y)
    <3>1. \A j \in DOMAIN t.pools : OfPool(o, j, "amount") = OfPool(t.own, j, "amount")
      BY <2>7 DEF Fields
    <3> QED BY <2>5, <2>8, <3>1 DEF Sound, Counted
  <2>10. LET k == Entry(y, u, i) IN k \in DOMAIN y.own[u] /\ y.own[u][k].pool = i
    <3>1. m + 1 \in DOMAIN y.own[u] /\ y.own[u][m + 1].pool = i
      BY <2>2, <2>3, <2>4, <2>5
    <3> QED BY <2>5, <3>1, EntryIs
  <2>11. \A j \in DOMAIN t.pools : OfPool(o, j, "value") = OfPool(t.own, j, "value")
    BY <2>7 DEF Fields
  <2> HIDE DEF r
  <2> QED BY <2>1, <2>5, <2>9, <2>10, <2>11 DEF r
<1> QED BY <1>1, <1>2

----------------------------------------------------------------------------
(* Rounding.                                                               *)

\* A quotient rounds down by less than one.
LEMMA Floor ==
  ASSUME NEW x \in Nat, NEW y \in Nat \ {0}
  PROVE  x \div y \in Nat /\ (x \div y) * y <= x
OBVIOUS

\* The product of inequalities between natural numbers.
LEMMA Products ==
  ASSUME NEW a \in Nat, NEW b \in Nat, NEW c \in Nat, NEW d \in Nat, a <= b, c <= d
  PROVE  a * c <= b * d
<1>1. a * c <= b * c
  OBVIOUS
<1>2. b * c <= b * d
  OBVIOUS
<1>3. a * c \in Nat /\ b * c \in Nat /\ b * d \in Nat
  BY NatMul
<1> QED BY <1>1, <1>2, <1>3

\* Reserves that grow in proportion to the supply, or more.
LEMMA InProportion ==
  ASSUME NEW ra \in Nat, NEW rb \in Nat, NEW s \in Nat, NEW na \in Nat, NEW nb \in Nat, NEW n \in Nat,
         ra * n <= na * s, rb * n <= nb * s
  PROVE  na * nb * s * s >= ra * rb * n * n
<1>1. ra * n \in Nat /\ na * s \in Nat /\ rb * n \in Nat /\ nb * s \in Nat
  BY NatMul
<1>2. (ra * n) * (rb * n) <= (na * s) * (nb * s)
  BY <1>1, Products
<1>3. (ra * n) * (rb * n) = ra * rb * n * n
  OBVIOUS
<1>4. (na * s) * (nb * s) = na * nb * s * s
  OBVIOUS
<1>5. (ra * n) * (rb * n) \in Nat /\ (na * s) * (nb * s) \in Nat
  BY <1>1, NatMul

<1> QED BY <1>2, <1>3, <1>4, <1>5

\* Newton's iteration ends at or below the root.
LEMMA SqrtIs ==
  ASSUME NEW a \in Nat, NEW b \in Nat
  PROVE  sqrt(a, b) \in Nat /\ (a * b > 0 => sqrt(a, b) * sqrt(a, b) <= a * b)
<1> DEFINE y == a * b
           N == y \div 2 + 1
           next(x) == (y \div x + x) \div 2
           turn(g, x) == IF next(x) < x THEN g[next(x)] ELSE x
           Is(g, j) == g = [x \in 1 .. j |-> turn(g, x)]
           T == {j \in Nat : ~\E g : Is(g, j)}
<1>0. y \in Nat
  BY NatMul
<1>1. CASE ~(y > 3)
  <2>1. sqrt(a, b) = 1
    BY <1>1 DEF sqrt
  <2> HIDE DEF y
  <2>2. y > 0 => 1 * 1 <= y
    BY <1>0
  <2> QED BY <2>1, <2>2 DEF y
<1>2. CASE y > 3
  <2> HIDE DEF y
  <2>1. ASSUME NEW x \in Nat \ {0}
        PROVE  /\ next(x) \in Nat \ {0}
               /\ ~(next(x) < x) => x * x <= y
    <3> DEFINE q == y \div x
    <3>1. q \in Nat /\ q * x <= y /\ (x = 1 => q = y)
      BY <1>0, Floor
    <3> HIDE DEF q
    <3>2. next(x) = (q + x) \div 2
      BY DEF q
    <3>3. (q + x) \div 2 \in Nat \ {0}
      BY <1>2, <1>0, <3>1
    <3>4. ASSUME ~((q + x) \div 2 < x) PROVE x * x <= y
      <4>1. x <= q
        BY <3>1, <3>4
      <4>2. x * x <= q * x
        BY <3>1, <4>1
      <4>3. x * x \in Nat /\ q * x \in Nat
        BY <3>1, NatMul
      <4> QED BY <1>0, <3>1, <4>2, <4>3
    <3> QED BY <3>2, <3>3, <3>4
  <2> HIDE DEF next
  <2>2. T = {}
    <3> SUFFICES ASSUME T # {} PROVE FALSE
      OBVIOUS
    <3>1. PICK j \in T : \A i \in T : j <= i
      BY Least
    <3>2. j # 0
      <4> DEFINE g == [x \in 1 .. 0 |-> 0]
      <4>1. g = [x \in 1 .. 0 |-> turn(g, x)]
        OBVIOUS
      <4> QED BY <4>1
    <3>3. j \in Nat /\ j - 1 \in Nat /\ j - 1 \notin T
      <4>1. j \in Nat
        BY <3>1
      <4> HIDE DEF T
      <4> QED BY <3>1, <3>2, <4>1
    <3>4. PICK g : Is(g, j - 1)
      BY <3>3
    <3> DEFINE h == [x \in 1 .. j |-> IF x = j THEN turn(g, j) ELSE g[x]]
    <3>5. \A x \in 1 .. j : x # j => g[x] = turn(g, x)
      BY <3>3, <3>4
    <3>6. \A x \in 1 .. j : next(x) < x => h[next(x)] = g[next(x)]
      BY <2>1, <3>3
    <3>7. \A x \in 1 .. j : h[x] = turn(h, x)
      <4> SUFFICES ASSUME NEW x \in 1 .. j PROVE h[x] = turn(h, x)
        OBVIOUS
      <4>1. h[x] = turn(g, x)
        BY <3>5
      <4>2. next(x) < x => h[next(x)] = g[next(x)]
        BY <3>6
      <4> HIDE DEF h
      <4> QED BY <4>1, <4>2
    <3>8. Is(h, j)
      <4>1. h = [x \in 1 .. j |-> h[x]]
        OBVIOUS
      <4> HIDE DEF h, turn
      <4>2. [x \in 1 .. j |-> h[x]] = [x \in 1 .. j |-> turn(h, x)]
        BY <3>7
      <4> QED BY <4>1, <4>2
    <3> QED BY <3>8
  <2>3. N \in Nat \ {0}
    BY <1>0
  <2>4. \E g : Is(g, N)
    BY <2>2, <2>3
  <2> DEFINE f == CHOOSE g : Is(g, N)
  <2>5. Is(f, N)
    BY <2>4
  <2>6. sqrt(a, b) = f[N]
    BY <1>2, Zenon DEF sqrt, next, y
  <2> HIDE DEF f
  <2>7. \A x \in 1 .. N : f[x] = turn(f, x)
    BY <2>5
  <2> HIDE DEF N
  <2> DEFINE D == {x \in 1 .. N : ~(f[x] \in Nat /\ f[x] * f[x] <= y)}
  <2>8. D = {}
    <3> SUFFICES ASSUME D # {} PROVE FALSE
      OBVIOUS
    <3>1. PICK x \in D : \A i \in D : x <= i
      <4>1. D \in SUBSET Nat
        BY <2>3
      <4> QED BY <4>1, Least
    <3>2. x \in 1 .. N /\ x \in Nat \ {0}
      BY <2>3
    <3>3. CASE next(x) < x
      <4>1. next(x) \in 1 .. N /\ f[x] = f[next(x)]
        BY <2>1, <2>3, <2>7, <3>2, <3>3
      <4>2. next(x) \notin D
        <5> HIDE DEF D
        <5>1. next(x) \in Nat /\ x \in Nat
          BY <2>1, <3>2
        <5> QED BY <3>1, <3>3, <5>1
      <4> QED BY <4>1, <4>2
    <3>4. CASE ~(next(x) < x)
      <4>1. f[x] = x /\ x * x <= y
        BY <2>1, <2>7, <3>2, <3>4
      <4> QED BY <3>2, <4>1
    <3> QED BY <3>3, <3>4
  <2>9. N \in 1 .. N
    BY <2>3
  <2>10. f[N] \in Nat /\ f[N] * f[N] <= y
    BY <2>8, <2>9
  <2> QED BY <2>6, <2>10 DEF y
<1> QED BY <1>1, <1>2

----------------------------------------------------------------------------
(* The transactions.                                                       *)

Safe(t) ==
  /\ Sound(t)
  /\ \A i \in DOMAIN t.pools : Gap(t, i) = 0
  /\ \A c \in Coins : Slack(t, c) >= 0

\* A pool that was p is q now.
Grows(p, q) == q.ra * q.rb * p.supply * p.supply >= p.ra * p.rb * q.supply * q.supply
Covers(q)   == q.supply * q.supply <= q.ra * q.rb

Valued(t) ==
  FairFees => \A i \in DOMAIN t.pools :
    IF i \notin DOMAIN pools \/ pools[i].supply = 0 THEN Covers(t.pools[i])
    ELSE Grows(pools[i], t.pools[i])

Typing ==
  /\ codes \in Seq(Coins) /\ IsInjective(codes)
  /\ factor \in Nat \X Nat /\ (FairFees => factor[1] <= factor[2]) /\ rewarder \in Addr
  /\ now \in 1 .. MaxTime /\ version \in 0 .. MaxVersion

\* No currency is registered before initialize.
Closed == rewards.open \/ codes = <<>>

Inv == Typing /\ Safe(Begin) /\ Closed

\* Settling keeps the shares equal to the supply.
LEMMA GapSettled ==
  ASSUME NEW t, NEW r, Settles(t, r), NEW i \in DOMAIN t.pools
  PROVE  Gap(r, i) = Gap(t, i)
<1>1. OfPool(r.own, i, "value") = OfPool(t.own, i, "value")
  BY OfPoolSame DEF Settles
<1>2. r.pools[i].supply = t.pools[i].supply
  BY DEF Settles
<1> QED BY <1>1, <1>2 DEF Gap

\* Settling keeps what a transaction is to keep.
LEMMA SafeSettled ==
  ASSUME NEW t, NEW r, Safe(t), Settles(t, r)
  PROVE  Safe(r)
<1>1. Sound(r) /\ Sound(t) /\ DOMAIN r.pools = DOMAIN t.pools
  BY DEF Settles, Safe
<1>2. \A i \in DOMAIN r.pools : Gap(r, i) = 0
  BY <1>1, GapSettled DEF Safe
<1>3. \A c \in Coins : Slack(r, c) >= 0
  <2>1. \A c \in Coins : Slack(r, c) \in Int /\ Slack(t, c) \in Int
    BY <1>1, SlackInt DEF Sound
  <2> QED BY <2>1 DEF Safe, Settles
<1> QED BY <1>1, <1>2, <1>3 DEF Safe

\* A pool with the reserves and the supply it had.
LEMMA ValueSame ==
  ASSUME NEW t, Sound(t), Sound(Begin),
         \A i \in DOMAIN t.pools :
           /\ i \in DOMAIN pools => /\ t.pools[i].supply = pools[i].supply
                                    /\ t.pools[i].ra = pools[i].ra /\ t.pools[i].rb = pools[i].rb
           /\ i \notin DOMAIN pools => t.pools[i].supply = 0
  PROVE  Valued(t)
<1> SUFFICES ASSUME NEW i \in DOMAIN t.pools
             PROVE  IF i \notin DOMAIN pools \/ pools[i].supply = 0 THEN Covers(t.pools[i])
                    ELSE Grows(pools[i], t.pools[i])
  BY DEF Valued
<1> DEFINE q == t.pools[i]
<1>1. q.supply \in Nat /\ q.ra \in Nat /\ q.rb \in Nat
  BY PoolParts DEF Sound
<1>2. CASE i \notin DOMAIN pools \/ pools[i].supply = 0
  <2>1. q.supply = 0
    BY <1>2
  <2>2. q.ra * q.rb \in Nat
    BY <1>1, NatMul
  <2> QED BY <1>2, <2>1, <2>2 DEF Covers
<1>3. CASE ~(i \notin DOMAIN pools \/ pools[i].supply = 0)
  <2>1. q.supply = pools[i].supply /\ q.ra = pools[i].ra /\ q.rb = pools[i].rb
    BY <1>3
  <2>2. q.ra * q.rb * q.supply * q.supply \in Nat
    BY <1>1, NatMul
  <2> HIDE DEF q
  <2>3. Grows(pools[i], q)
    BY <2>1, <2>2 DEF Grows
  <2> QED BY <1>3, <2>3 DEF q
<1> QED BY <1>2, <1>3

\* The transaction record of a state, by its fields.
LEMMA BeginIs ==
  /\ Begin.pools = pools /\ Begin.rewards = rewards /\ Begin.own = own /\ Begin.coin = coin
  /\ Begin.ok = rewards.open
BY DEF Begin

\* A number of a registered currency names one.
LEMMA CodeCoin ==
  ASSUME Typing, NEW a \in 0 .. Len(codes) - 1
  PROVE  Code(a) \in Coins /\ a \in Nat /\ a < Len(codes)
<1>1. codes \in Seq(Coins) /\ Len(codes) \in Nat
  BY DEF Typing
<1> QED BY <1>1 DEF Code

\* What get_mint_liquidity takes and gives.
LEMMA MintIs ==
  ASSUME NEW p \in Pools, NEW x \in Nat, NEW y \in Nat, Mintable(p, x, y)
  PROVE  LET d == Taken(p, x, y)
             l == Minted(p, d[1], d[2])
         IN  /\ d[1] \in Nat /\ d[2] \in Nat /\ l \in Nat
             /\ p.supply > 0 => p.ra * (p.supply + l) <= (p.ra + d[1]) * p.supply
                                /\ p.rb * (p.supply + l) <= (p.rb + d[2]) * p.supply
             /\ p.supply = 0 /\ d[1] > 0 /\ d[2] > 0 => l * l <= (p.ra + d[1]) * (p.rb + d[2])
<1> DEFINE d == Taken(p, x, y)
           l == Minted(p, d[1], d[2])
           ra == p.ra
           rb == p.rb
           s == p.supply
<1>0. ra \in Nat /\ rb \in Nat /\ s \in Nat
  BY DEF Pools
<1>1. d[1] \in Nat /\ d[2] \in Nat
  <2>1. CASE ra = 0 /\ rb = 0
    BY <2>1 DEF Taken
  <2>2. CASE ~(ra = 0 /\ rb = 0)
    <3>1. ra > 0 /\ rb > 0
      BY <1>0, <2>2 DEF Mintable
    <3>2. (x * rb) \div ra \in Nat /\ (y * ra) \div rb \in Nat
      BY <1>0, <3>1, NatMul, NatDiv
    <3>3. quote(x, ra, rb) = (x * rb) \div ra /\ quote(y, rb, ra) = (y * ra) \div rb
      BY DEF quote
    <3>4. d = <<x, quote(x, ra, rb)>> \/ d = <<quote(y, rb, ra), y>>
      BY <2>2 DEF Taken
    <3> QED BY <3>2, <3>3, <3>4
  <2> QED BY <2>1, <2>2
<1>m. s > 0 => ra > 0 /\ rb > 0
  BY DEF Mintable
<1> DEFINE e == d[1]
           f == d[2]
<1> HIDE DEF d
<1>2. CASE s = 0
  <2>1. l = sqrt(e, f)
    BY <1>2 DEF Minted
  <2>2. l \in Nat /\ (e * f > 0 => l * l <= e * f)
    BY <1>1, <2>1, SqrtIs
  <2> HIDE DEF e, f, l, ra, rb, s
  <2>3. ASSUME e > 0, f > 0 PROVE l * l <= (ra + e) * (rb + f)
    <3>1. e \in Nat /\ f \in Nat
      BY <1>1 DEF e, f
    <3>2. e * f > 0
      BY <3>1, <2>3
    <3>3. e * f <= (ra + e) * (rb + f)
      BY <1>0, <3>1, Products
    <3>4. e * f \in Nat /\ (ra + e) * (rb + f) \in Nat /\ l * l \in Nat
      BY <1>0, <2>2, <3>1, NatMul
    <3> QED BY <2>2, <3>2, <3>3, <3>4
  <2>4. ~(s > 0)
    BY <1>2
  <2> QED BY <1>1, <2>2, <2>3, <2>4 DEF e, f, l, d, s, ra, rb
<1>3. CASE s # 0
  <2> DEFINE g == (e * s) \div ra
             h == (f * s) \div rb
  <2>1. s > 0 /\ ra > 0 /\ rb > 0
    BY <1>0, <1>3, <1>m
  <2>2. e * s \in Nat /\ f * s \in Nat
    BY <1>0, <1>1, NatMul
  <2>3. g \in Nat /\ g * ra <= e * s /\ h \in Nat /\ h * rb <= f * s
    BY <1>0, <2>1, <2>2, Floor
  <2>4. l = Min({g, h})
    BY <1>3 DEF Minted
  <2> HIDE DEF g, h, e, f, l
  <2>5. l \in Nat /\ l <= g /\ l <= h
    <3>1. g \in Int /\ h \in Int
      BY <2>3
    <3>2. Min({g, h}) \in {g, h} /\ Min({g, h}) <= g /\ Min({g, h}) <= h
      BY <3>1, MinOf
    <3> QED BY <2>3, <2>4, <3>2
  <2> HIDE DEF ra, rb, s
  <2>6. l * ra <= g * ra /\ l * rb <= h * rb
    BY <1>0, <2>3, <2>5, Products
  <2>7. l * ra \in Nat /\ g * ra \in Nat /\ l * rb \in Nat /\ h * rb \in Nat /\ ra * s \in Nat
        /\ rb * s \in Nat
    BY <1>0, <2>3, <2>5, NatMul
  <2>8. l * ra <= e * s /\ l * rb <= f * s
    BY <2>2, <2>3, <2>6, <2>7
  <2>9. e \in Nat /\ f \in Nat
    BY <1>1 DEF e, f
  <2>10. /\ ra * (s + l) = ra * s + l * ra /\ (ra + e) * s = ra * s + e * s
         /\ rb * (s + l) = rb * s + l * rb /\ (rb + f) * s = rb * s + f * s
    BY <1>0, <2>5, <2>9
  <2>11. ra * (s + l) <= (ra + e) * s /\ rb * (s + l) <= (rb + f) * s
    BY <2>2, <2>7, <2>8, <2>10
  <2> QED BY <1>1, <1>3, <2>5, <2>11 DEF e, f, l, d, s, ra, rb
<1> QED BY <1>2, <1>3

\* A deposit of e and f into pool i for l shares, from the entry on.
Funded(t, u, k, i, ca, cb, e, f, l) ==
  LET t2 == [t EXCEPT !.own[u][k].value = @ + l]
      t3 == Pay(t2, u, Admin, ca, e)
      t4 == Pay(t3, u, Admin, cb, f)
      t6 == update_user_reward_info(update_pool(t4), u, k)
  IN  [t6 EXCEPT !.pools[i].supply = @ + l, !.pools[i].ra = @ + e, !.pools[i].rb = @ + f]

Fundable(t, u, k, i, ca, cb, e, f, l) ==
  /\ Sound(t) /\ now \in Nat /\ u \in Users /\ k \in DOMAIN t.own[u]
  /\ i \in DOMAIN t.pools /\ t.own[u][k].pool = i /\ e \in Nat /\ f \in Nat /\ l \in Nat
  /\ ca \in Coins /\ cb \in Coins /\ ca = Code(t.pools[i].a) /\ cb = Code(t.pools[i].b)

IsGrown(t, r, i, e, f, l) ==
  /\ Sound(r) /\ DOMAIN r.pools = DOMAIN t.pools /\ r.rewards.open = t.rewards.open
  /\ \A j \in DOMAIN t.pools :
       /\ Gap(r, j) = Gap(t, j)
       /\ j # i => /\ r.pools[j].supply = t.pools[j].supply
                   /\ r.pools[j].ra = t.pools[j].ra /\ r.pools[j].rb = t.pools[j].rb
  /\ r.pools[i].supply = t.pools[i].supply + l
  /\ r.pools[i].ra = t.pools[i].ra + e /\ r.pools[i].rb = t.pools[i].rb + f
  /\ r.ok => e > 0 /\ f > 0 /\ \A c \in Coins : Slack(r, c) >= Slack(t, c)

\* A deposit grows pool i by what was paid in, and no other.
LEMMA IsFunded ==
  ASSUME NEW t, NEW u, NEW k, NEW i, NEW ca, NEW cb, NEW e, NEW f, NEW l,
         Fundable(t, u, k, i, ca, cb, e, f, l)
  PROVE  IsGrown(t, Funded(t, u, k, i, ca, cb, e, f, l), i, e, f, l)
<1>0. /\ Sound(t) /\ now \in Nat /\ u \in Users /\ k \in DOMAIN t.own[u]
      /\ i \in DOMAIN t.pools /\ t.own[u][k].pool = i /\ e \in Nat /\ f \in Nat /\ l \in Nat
      /\ ca \in Coins /\ cb \in Coins /\ ca = Code(t.pools[i].a) /\ cb = Code(t.pools[i].b)
  BY DEF Fundable
<1> USE <1>0
<1> DEFINE t2 == [t EXCEPT !.own[u][k].value = @ + l]
           t3 == Pay(t2, u, Admin, ca, e)
           t4 == Pay(t3, u, Admin, cb, f)
           t5 == update_pool(t4)
           t6 == update_user_reward_info(t5, u, k)
           r  == [t6 EXCEPT !.pools[i].supply = @ + l, !.pools[i].ra = @ + e, !.pools[i].rb = @ + f]
           w  == t.own[u][k].value
           v  == w + l
<1>1. Funded(t, u, k, i, ca, cb, e, f, l) = r
  BY Zenon DEF Funded
<1>2. w \in Nat
  BY EntryParts DEF Sound
<1>3. v \in Nat /\ v - w = l
  BY <1>2
<1>4. t2 = [t EXCEPT !.own[u][k].value = v]
  <2>1. t \in Txs /\ t.own \in Owns /\ t.own[u] \in Seq(Entries) /\ t.own[u][k] \in Entries
    BY EntryParts, TxParts DEF Sound
  <2> QED BY <2>1 DEF Txs, Owns, Entries
<1> HIDE DEF t2, v, w
<1>6. /\ Sound(t2) /\ t2.pools = t.pools /\ t2.rewards = t.rewards /\ t2.coin = t.coin
      /\ t2.ok = t.ok /\ DOMAIN t2.own[u] = DOMAIN t.own[u]
      /\ \A j \in DOMAIN t.pools :
           OfPool(t2.own, j, "value") = OfPool(t.own, j, "value") + (IF i = j THEN l ELSE 0)
  <2> DEFINE z == [t EXCEPT !.own[u][k].value = v]
  <2>1. /\ Sound(z) /\ z.pools = t.pools /\ z.rewards = t.rewards /\ z.coin = t.coin
        /\ z.ok = t.ok /\ DOMAIN z.own[u] = DOMAIN t.own[u]
        /\ \A j \in DOMAIN t.pools :
             OfPool(z.own, j, "value") = OfPool(t.own, j, "value")
               + (IF t.own[u][k].pool = j THEN v - t.own[u][k].value ELSE 0)
    BY <1>3, ValuePut
  <2>2. t2 = z
    BY <1>4
  <2> HIDE DEF z
  <2>3. v - t.own[u][k].value = l
    BY <1>3 DEF w
  <2> QED BY <2>1, <2>2, <2>3
<1>7. /\ Sound(t3) /\ t3.pools = t2.pools /\ t3.own = t2.own /\ t3.rewards = t2.rewards
      /\ t3.ok => /\ t2.ok /\ e > 0
                  /\ \A c \in Coins : Slack(t3, c) = Slack(t2, c) + (IF c = ca THEN e ELSE 0)
  BY <1>6, PaidIn
<1> HIDE DEF t3
<1>8. /\ Sound(t4) /\ t4.pools = t3.pools /\ t4.own = t3.own /\ t4.rewards = t3.rewards
      /\ t4.ok => /\ t3.ok /\ f > 0
                  /\ \A c \in Coins : Slack(t4, c) = Slack(t3, c) + (IF c = cb THEN f ELSE 0)
  BY <1>7, PaidIn
<1> HIDE DEF t4
<1>9. Settles(t4, t5)
  BY <1>8, PoolUpdated
<1> HIDE DEF t5
<1>10. k \in DOMAIN t5.own[u] /\ Sound(t5)
  BY <1>6, <1>7, <1>8, <1>9 DEF Settles
<1>11. Settles(t5, t6)
  BY <1>10, RewardSettles
<1>12. Settles(t4, t6)
  BY <1>8, <1>9, <1>11, SettlesTwice
<1> HIDE DEF t6
<1>13. t4.pools = t.pools /\ t4.own = t2.own
  BY <1>6, <1>7, <1>8
<1>14. /\ Sound(t6) /\ i \in DOMAIN t6.pools /\ DOMAIN t6.pools = DOMAIN t.pools
       /\ (t6.ok => t4.ok)
       /\ \A j \in DOMAIN t.pools :
            /\ t6.pools[j].supply = t.pools[j].supply /\ t6.pools[j].ra = t.pools[j].ra
            /\ t6.pools[j].rb = t.pools[j].rb
            /\ t6.pools[j].a = t.pools[j].a /\ t6.pools[j].b = t.pools[j].b
  BY <1>12, <1>13 DEF Settles
<1> DEFINE s0 == t.pools[i].supply
           a0 == t.pools[i].ra
           b0 == t.pools[i].rb
           s  == s0 + l
           na == a0 + e
           nb == b0 + f
<1>n. s0 \in Nat /\ a0 \in Nat /\ b0 \in Nat
  BY PoolParts DEF Sound
<1> HIDE DEF s0, a0, b0
<1>15. s \in Nat /\ na \in Nat /\ nb \in Nat /\ na - a0 = e /\ nb - b0 = f
  BY <1>n
<1>16. r = [t6 EXCEPT !.pools[i].supply = s, !.pools[i].ra = na, !.pools[i].rb = nb]
  <2>2. t6 \in Txs /\ t6.pools[i] \in Pools /\ t6.pools \in Seq(Pools)
    BY <1>14, PoolParts, TxParts DEF Sound
  <2>3. t6.pools[i].supply = s0 /\ t6.pools[i].ra = a0 /\ t6.pools[i].rb = b0
    BY <1>14 DEF s0, a0, b0
  <2> QED BY <1>14, <2>2, <2>3 DEF Txs, Pools
<1> HIDE DEF s, na, nb, r
<1>17. /\ Sound(r) /\ r.own = t6.own /\ r.rewards = t6.rewards /\ r.coin = t6.coin
       /\ r.ok = t6.ok /\ DOMAIN r.pools = DOMAIN t6.pools
       /\ \A j \in DOMAIN t6.pools \ {i} : r.pools[j] = t6.pools[j]
       /\ r.pools[i].supply = s /\ r.pools[i].ra = na /\ r.pools[i].rb = nb
       /\ \A c \in Coins : Slack(r, c) = Slack(t6, c)
            - (IF Code(t6.pools[i].a) = c THEN na - t6.pools[i].ra ELSE 0)
            - (IF Code(t6.pools[i].b) = c THEN nb - t6.pools[i].rb ELSE 0)
  <2>1. r = PoolTo(t6, i, s, na, nb)
    BY <1>16, Zenon DEF PoolTo
  <2>2. i \in DOMAIN t6.pools /\ Sound(t6) /\ s \in Nat /\ na \in Nat /\ nb \in Nat
    BY <1>14, <1>15
  <2> HIDE <1>0
  <2> DEFINE z == PoolTo(t6, i, s, na, nb)
  <2>3. /\ Sound(z) /\ z.own = t6.own /\ z.rewards = t6.rewards /\ z.coin = t6.coin
        /\ z.ok = t6.ok /\ DOMAIN z.pools = DOMAIN t6.pools
        /\ \A j \in DOMAIN t6.pools \ {i} : z.pools[j] = t6.pools[j]
        /\ z.pools[i].supply = s /\ z.pools[i].ra = na /\ z.pools[i].rb = nb
        /\ \A c \in Coins : Slack(z, c) = Slack(t6, c)
             - (IF Code(t6.pools[i].a) = c THEN na - t6.pools[i].ra ELSE 0)
             - (IF Code(t6.pools[i].b) = c THEN nb - t6.pools[i].rb ELSE 0)
    BY <2>2, PoolSet
  <2> QED BY <2>1, <2>3
<1>19. ASSUME r.ok, NEW c \in Coins PROVE Slack(r, c) >= Slack(t, c)
  <2> DEFINE da == IF c = ca THEN e ELSE 0
             db == IF c = cb THEN f ELSE 0
  <2>1. da \in Nat /\ db \in Nat
    OBVIOUS
  <2>2. Slack(t4, c) = Slack(t2, c) + da + db
    BY <1>7, <1>8, <1>14, <1>17, <1>19
  <2>3. Slack(t2, c) = Slack(t, c)
    BY <1>6 DEF Slack, Owed
  <2>4. Slack(t6, c) >= Slack(t4, c)
    BY <1>12 DEF Settles
  <2>5. Slack(r, c) = Slack(t6, c) - da - db
    <3>1. na - t6.pools[i].ra = e /\ nb - t6.pools[i].rb = f
      BY <1>15, <1>14 DEF a0, b0
    <3>2. Code(t6.pools[i].a) = ca /\ Code(t6.pools[i].b) = cb
      BY <1>14
    <3>3. Slack(r, c) = Slack(t6, c) - (IF Code(t6.pools[i].a) = c THEN na - t6.pools[i].ra ELSE 0)
                                     - (IF Code(t6.pools[i].b) = c THEN nb - t6.pools[i].rb ELSE 0)
      BY <1>17
    <3> QED BY <3>1, <3>2, <3>3
  <2>7. Slack(t, c) \in Int /\ Slack(t6, c) \in Int /\ Slack(t4, c) \in Int
    BY <1>8, <1>14, SlackInt DEF Sound
  <2> HIDE DEF da, db
  <2> QED BY <2>1, <2>2, <2>3, <2>4, <2>5, <2>7
<1>20. ASSUME NEW j \in DOMAIN t.pools PROVE Gap(r, j) = Gap(t, j)
  <2> DEFINE y == IF i = j THEN l ELSE 0
             sj == t.pools[j].supply
             o == OfPool(t.own, j, "value")
             o6 == OfPool(t6.own, j, "value")
  <2>1. j \in DOMAIN t4.pools /\ j \in DOMAIN t6.pools
    BY <1>13, <1>14
  <2>2. Gap(t6, j) = Gap(t4, j)
    BY <1>12, <2>1, GapSettled
  <2>3. OfPool(t4.own, j, "value") = o + y
    BY <1>6, <1>13
  <2>4. o \in Nat /\ sj \in Nat /\ Gap(t, j) = o - sj
    BY GapInt DEF Sound
  <2>5. Gap(t4, j) = OfPool(t4.own, j, "value") - sj
    BY <1>13 DEF Gap
  <2>6. o6 \in Nat /\ Gap(t6, j) = o6 - sj
    <3>1. o6 \in Nat /\ Gap(t6, j) = o6 - t6.pools[j].supply
      BY <1>14, <2>1, GapInt DEF Sound
    <3>2. t6.pools[j].supply = sj
      BY <1>14
    <3> QED BY <3>1, <3>2
  <2>7. Gap(r, j) = o6 - r.pools[j].supply
    BY <1>17 DEF Gap
  <2>8. r.pools[j].supply = sj + y
    <3>1. CASE j = i
      BY <1>17, <3>1 DEF s, s0
    <3>2. CASE j # i
      <4>1. r.pools[j].supply = sj
        BY <1>14, <1>17, <2>1, <3>2
      <4>2. y = 0
        BY <3>2
      <4> HIDE DEF y, sj
      <4> QED BY <4>1, <4>2, <2>4
    <3> QED BY <3>1, <3>2
  <2>9. y \in Nat
    OBVIOUS
  <2> HIDE DEF y, sj, o, o6
  <2> QED BY <2>2, <2>3, <2>4, <2>5, <2>6, <2>7, <2>8, <2>9
<1>21. ASSUME NEW j \in DOMAIN t.pools, j # i
       PROVE  /\ r.pools[j].supply = t.pools[j].supply
              /\ r.pools[j].ra = t.pools[j].ra /\ r.pools[j].rb = t.pools[j].rb
  BY <1>14, <1>17, <1>21
<1>22. r.ok => e > 0 /\ f > 0
  BY <1>7, <1>8, <1>14, <1>17
<1>23. /\ r.pools[i].supply = t.pools[i].supply + l
       /\ r.pools[i].ra = t.pools[i].ra + e /\ r.pools[i].rb = t.pools[i].rb + f
  BY <1>17 DEF s, na, nb, s0, a0, b0
<1>24. r.rewards.open = t.rewards.open
  BY <1>6, <1>7, <1>8, <1>12, <1>17 DEF Settles
<1> QED BY <1>1, <1>14, <1>17, <1>19, <1>20, <1>21, <1>22, <1>23, <1>24 DEF IsGrown

\* add_liquidity: the totals count, the coins are there, and shares keep their worth.
LEMMA LiquidityAdded ==
  ASSUME Inv, NEW u \in Users, NEW a \in 0 .. Len(codes) - 1, NEW b \in 0 .. Len(codes) - 1, a < b,
         NEW x \in Nat, NEW y \in Nat, AddLiquidity(u, a, b, x, y).ok
  PROVE  LET t == AddLiquidity(u, a, b, x, y)
         IN  Safe(t) /\ Valued(t) /\ t.rewards.open = rewards.open
<1> DEFINE t0 == get_reserve_internal(Begin, a, b)
           i  == PoolIndex(t0.pools, a, b)
           p  == t0.pools[i]
           d  == Taken(p, x, y)
           e  == d[1]
           f  == d[2]
           l  == Minted(p, e, f)
           t1 == get_token(t0, u, i)
           k  == Entry(t1, u, i)
           ca == Code(a)
           cb == Code(b)
           r  == Funded(t1, u, k, i, ca, cb, e, f, l)
<1>0. Sound(Begin) /\ Typing /\ Safe(Begin) /\ now \in Nat
      /\ Code(a) \in Coins /\ Code(b) \in Coins /\ a \in Nat /\ b \in Nat /\ b < Len(codes)
  <2>1. Typing /\ Safe(Begin)
    BY DEF Inv
  <2>2. Code(a) \in Coins /\ Code(b) \in Coins /\ a \in Nat /\ b \in Nat /\ b < Len(codes)
    BY <2>1, CodeCoin
  <2> QED BY <2>1, <2>2 DEF Safe, Typing
<1>1. Mintable(p, x, y) /\ AddLiquidity(u, a, b, x, y) = r
  <2>1. CASE ~Mintable(p, x, y)
    <3>1. AddLiquidity(u, a, b, x, y) = Require(Begin, FALSE)
      BY <2>1 DEF AddLiquidity
    <3>2. Require(Begin, FALSE).ok = FALSE
      BY <1>0, Aborted DEF Sound
    <3> QED BY <3>1, <3>2
  <2>2. CASE Mintable(p, x, y)
    <3>1. AddLiquidity(u, a, b, x, y) = r
      BY <2>2, Zenon DEF AddLiquidity, Grown, Funded
    <3> QED BY <2>2, <3>1
  <2> QED BY <2>1, <2>2
<1>2. /\ Sound(t0) /\ t0.ok = Begin.ok /\ t0.own = Begin.own /\ t0.coin = Begin.coin
      /\ t0.rewards.open = Begin.rewards.open
      /\ \A c \in Coins : Slack(t0, c) = Slack(Begin, c)
      /\ i \in DOMAIN t0.pools /\ t0.pools[i].a = a /\ t0.pools[i].b = b
      /\ \A j \in DOMAIN Begin.pools : j \in DOMAIN t0.pools /\ t0.pools[j] = Begin.pools[j]
      /\ \A j \in DOMAIN t0.pools \ DOMAIN Begin.pools :
           /\ t0.pools[j].supply = 0 /\ t0.pools[j].ra = 0 /\ t0.pools[j].rb = 0
           /\ Gap(t0, j) = 0
  BY <1>0, PoolFound
<1> HIDE DEF t0, i
<1>3. /\ e \in Nat /\ f \in Nat /\ l \in Nat /\ p.ra \in Nat /\ p.rb \in Nat /\ p.supply \in Nat
      /\ p.supply > 0 => p.ra * (p.supply + l) <= (p.ra + e) * p.supply
                         /\ p.rb * (p.supply + l) <= (p.rb + f) * p.supply
      /\ p.supply = 0 /\ e > 0 /\ f > 0 => l * l <= (p.ra + e) * (p.rb + f)
  <2>1. p \in Pools /\ p.ra \in Nat /\ p.rb \in Nat /\ p.supply \in Nat
    BY <1>2, PoolParts DEF Sound
  <2> HIDE DEF p
  <2> QED BY <1>1, <2>1, MintIs
<1> HIDE DEF d, l, e, f
<1>4. /\ Sound(t1) /\ t1.ok = t0.ok /\ t1.pools = t0.pools /\ t1.coin = t0.coin
      /\ t1.rewards = t0.rewards
      /\ k \in DOMAIN t1.own[u] /\ t1.own[u][k].pool = i
      /\ \A j \in DOMAIN t0.pools : OfPool(t1.own, j, "value") = OfPool(t0.own, j, "value")
  BY <1>2, TokenFound
<1> HIDE DEF t1, k
<1>5. ca \in Coins /\ cb \in Coins /\ ca = Code(t1.pools[i].a) /\ cb = Code(t1.pools[i].b)
      /\ i \in DOMAIN t1.pools
  BY <1>0, <1>2, <1>4
<1> HIDE DEF ca, cb
<1>6. /\ Sound(r) /\ DOMAIN r.pools = DOMAIN t1.pools /\ r.rewards.open = t1.rewards.open
      /\ \A j \in DOMAIN t1.pools :
           /\ Gap(r, j) = Gap(t1, j)
           /\ j # i => /\ r.pools[j].supply = t1.pools[j].supply
                       /\ r.pools[j].ra = t1.pools[j].ra /\ r.pools[j].rb = t1.pools[j].rb
      /\ r.pools[i].supply = t1.pools[i].supply + l
      /\ r.pools[i].ra = t1.pools[i].ra + e /\ r.pools[i].rb = t1.pools[i].rb + f
      /\ r.ok => e > 0 /\ f > 0 /\ \A c \in Coins : Slack(r, c) >= Slack(t1, c)
  <2>1. Fundable(t1, u, k, i, ca, cb, e, f, l)
    BY <1>0, <1>3, <1>4, <1>5 DEF Fundable
  <2>2. IsGrown(t1, r, i, e, f, l)
    BY <2>1, IsFunded, Zenon
  <2> HIDE DEF r
  <2> QED BY <2>2 DEF IsGrown
<1> HIDE DEF r
<1>7. r.ok
  BY <1>1
<1>19. ASSUME NEW c \in Coins PROVE Slack(r, c) >= 0
  <2>1. Slack(t1, c) = Slack(t0, c)
    BY <1>4 DEF Slack, Owed
  <2>2. Slack(t0, c) = Slack(Begin, c) /\ Slack(Begin, c) >= 0
    BY <1>0, <1>2 DEF Safe
  <2>3. Slack(r, c) >= Slack(t1, c)
    BY <1>6, <1>7
  <2>4. Slack(r, c) \in Int /\ Slack(Begin, c) \in Int
    BY <1>0, <1>6, SlackInt DEF Sound
  <2> QED BY <2>1, <2>2, <2>3, <2>4
<1>20. ASSUME NEW j \in DOMAIN r.pools PROVE Gap(r, j) = 0
  <2>1. j \in DOMAIN t0.pools /\ j \in DOMAIN t1.pools
    BY <1>4, <1>6
  <2>2. Gap(t0, j) = 0
    <3>1. CASE j \in DOMAIN Begin.pools
      <4>1. Gap(t0, j) = Gap(Begin, j)
        BY <1>2, <3>1 DEF Gap
      <4> QED BY <1>0, <3>1, <4>1 DEF Safe
    <3>2. CASE j \notin DOMAIN Begin.pools
      BY <1>2, <2>1, <3>2
    <3> QED BY <3>1, <3>2
  <2>3. Gap(t1, j) = Gap(t0, j)
    BY <1>4, <2>1 DEF Gap
  <2> QED BY <1>6, <2>1, <2>2, <2>3
<1>21. Valued(r)
  <2> SUFFICES ASSUME NEW j \in DOMAIN r.pools
               PROVE  IF j \notin DOMAIN pools \/ pools[j].supply = 0 THEN Covers(r.pools[j])
                      ELSE Grows(pools[j], r.pools[j])
    BY DEF Valued
  <2>1. Begin.pools = pools
    BY BeginIs
  <2> DEFINE q == r.pools[j]
  <2>0. q.supply \in Nat /\ q.ra \in Nat /\ q.rb \in Nat
    BY <1>6, PoolParts DEF Sound
  <2>2. CASE j = i
    <3>0. q.supply = p.supply + l /\ q.ra = p.ra + e /\ q.rb = p.rb + f
      BY <1>4, <1>6, <2>2
    <3>1. CASE j \notin DOMAIN pools \/ pools[j].supply = 0
      <4>1. p.supply = 0
        BY <1>2, <2>1, <2>2, <3>1
      <4>2. l * l <= q.ra * q.rb /\ q.supply = l
        <5> HIDE DEF p, q
        <5> QED BY <1>3, <1>6, <1>7, <3>0, <4>1
      <4> QED BY <3>1, <4>2 DEF Covers
    <3>2. CASE ~(j \notin DOMAIN pools \/ pools[j].supply = 0)
      <4>1. pools[j] = p
        BY <1>2, <2>1, <2>2, <3>2
      <4> HIDE DEF p, q
      <4>2. p.supply > 0
        BY <1>3, <3>2, <4>1
      <4>3. p.ra * q.supply <= q.ra * p.supply /\ p.rb * q.supply <= q.rb * p.supply
        BY <1>3, <3>0, <4>2
      <4>4. q.ra * q.rb * p.supply * p.supply >= p.ra * p.rb * q.supply * q.supply
        BY <1>3, <2>0, <4>3, InProportion
      <4>5. Grows(pools[j], q)
        BY <4>1, <4>4 DEF Grows
      <4> QED BY <3>2, <4>5 DEF q
    <3> QED BY <3>1, <3>2
  <2>3. CASE j # i
    <3>1. /\ q.supply = t0.pools[j].supply /\ q.ra = t0.pools[j].ra /\ q.rb = t0.pools[j].rb
          /\ j \in DOMAIN t0.pools
      BY <1>4, <1>6, <2>3
    <3>3. q.ra * q.rb \in Nat /\ q.ra * q.rb * q.supply * q.supply \in Nat
      BY <2>0, NatMul
    <3>4. CASE j \notin DOMAIN pools \/ pools[j].supply = 0
      <4>1. q.supply = 0
        BY <1>2, <2>1, <3>1, <3>4
      <4> QED BY <3>3, <3>4, <4>1 DEF Covers
    <3>5. CASE ~(j \notin DOMAIN pools \/ pools[j].supply = 0)
      <4>1. q.supply = pools[j].supply /\ q.ra = pools[j].ra /\ q.rb = pools[j].rb
        BY <1>2, <2>1, <3>1, <3>5
      <4> HIDE DEF q
      <4>2. Grows(pools[j], q)
        BY <3>3, <4>1 DEF Grows
      <4> QED BY <3>5, <4>2 DEF q
    <3> QED BY <3>4, <3>5
  <2> QED BY <2>2, <2>3
<1>22. r.rewards.open = rewards.open
  BY <1>2, <1>4, <1>6, BeginIs
<1> QED BY <1>1, <1>6, <1>19, <1>20, <1>21, <1>22 DEF Safe

\* A withdrawal of l shares of pool i, worth e and f.
Redeemed(t, u, k, i, ca, cb, e, f, l) ==
  LET t1 == [t EXCEPT !.pools[i].supply = @ - l, !.pools[i].ra = @ - e, !.pools[i].rb = @ - f,
                      !.own[u][k].value = @ - l]
      t2 == update_user_reward_info(update_pool(t1), u, k)
  IN  Pay(Pay(t2, Admin, u, ca, e), Admin, u, cb, f)

Redeemable(t, u, k, i, ca, cb, e, f, l) ==
  /\ Sound(t) /\ now \in Nat /\ u \in Users /\ k \in DOMAIN t.own[u]
  /\ i \in DOMAIN t.pools /\ t.own[u][k].pool = i /\ e \in Nat /\ f \in Nat /\ l \in Nat
  /\ l <= t.own[u][k].value /\ l <= t.pools[i].supply
  /\ e <= t.pools[i].ra /\ f <= t.pools[i].rb
  /\ ca \in Coins /\ cb \in Coins /\ ca = Code(t.pools[i].a) /\ cb = Code(t.pools[i].b)

IsShrunk(t, r, i, e, f, l) ==
  /\ Sound(r) /\ DOMAIN r.pools = DOMAIN t.pools /\ r.rewards.open = t.rewards.open
  /\ \A j \in DOMAIN t.pools :
       /\ Gap(r, j) = Gap(t, j)
       /\ j # i => /\ r.pools[j].supply = t.pools[j].supply
                   /\ r.pools[j].ra = t.pools[j].ra /\ r.pools[j].rb = t.pools[j].rb
  /\ r.pools[i].supply = t.pools[i].supply - l
  /\ r.pools[i].ra = t.pools[i].ra - e /\ r.pools[i].rb = t.pools[i].rb - f
  /\ r.ok => \A c \in Coins : Slack(r, c) >= Slack(t, c)

\* A withdrawal shrinks pool i by what is paid out, and no other.
LEMMA IsRedeemed ==
  ASSUME NEW t, NEW u, NEW k, NEW i, NEW ca, NEW cb, NEW e, NEW f, NEW l,
         Redeemable(t, u, k, i, ca, cb, e, f, l)
  PROVE  IsShrunk(t, Redeemed(t, u, k, i, ca, cb, e, f, l), i, e, f, l)
<1>0. /\ Sound(t) /\ now \in Nat /\ u \in Users /\ k \in DOMAIN t.own[u]
      /\ i \in DOMAIN t.pools /\ t.own[u][k].pool = i /\ e \in Nat /\ f \in Nat /\ l \in Nat
      /\ l <= t.own[u][k].value /\ l <= t.pools[i].supply
      /\ e <= t.pools[i].ra /\ f <= t.pools[i].rb
      /\ ca \in Coins /\ cb \in Coins /\ ca = Code(t.pools[i].a) /\ cb = Code(t.pools[i].b)
  BY DEF Redeemable
<1> DEFINE w  == t.own[u][k].value
           v  == w - l
           s0 == t.pools[i].supply
           a0 == t.pools[i].ra
           b0 == t.pools[i].rb
           s  == s0 - l
           na == a0 - e
           nb == b0 - f
           tv == [t EXCEPT !.own[u][k].value = v]
           t1 == [t EXCEPT !.pools[i].supply = @ - l, !.pools[i].ra = @ - e, !.pools[i].rb = @ - f,
                           !.own[u][k].value = @ - l]
           t2 == update_pool(t1)
           t3 == update_user_reward_info(t2, u, k)
           t4 == Pay(t3, Admin, u, ca, e)
           r  == Pay(t4, Admin, u, cb, f)
<1>1. Redeemed(t, u, k, i, ca, cb, e, f, l) = r
  BY Zenon DEF Redeemed
<1>2. w \in Nat /\ s0 \in Nat /\ a0 \in Nat /\ b0 \in Nat
  BY <1>0, EntryParts, PoolParts DEF Sound
<1>3. v \in Nat /\ s \in Nat /\ na \in Nat /\ nb \in Nat
      /\ v - w = 0 - l /\ na - a0 = 0 - e /\ nb - b0 = 0 - f /\ s = s0 - l
  <2>1. l <= w /\ l <= s0 /\ e <= a0 /\ f <= b0 /\ l \in Nat /\ e \in Nat /\ f \in Nat
    BY <1>0
  <2> HIDE DEF w, s0, a0, b0
  <2> QED BY <1>2, <2>1
<1>4. t1 = PoolTo(tv, i, s, na, nb)
  <2>1. /\ t \in Txs /\ t.own \in Owns /\ t.own[u] \in Seq(Entries) /\ t.own[u][k] \in Entries
        /\ t.pools \in Seq(Pools) /\ t.pools[i] \in Pools
    BY <1>0, EntryParts, TxParts, PoolParts DEF Sound
  <2> DEFINE ps == PoolIn(t.pools, i, s, na, nb)
             o  == [t.own EXCEPT ![u] = [t.own[u] EXCEPT ![k] = [t.own[u][k] EXCEPT !.value = v]]]
             tp == Lowered(t, i, l, e, f)
             ts == [t EXCEPT !.own = o]
  <2>2. tp = PoolsTo(t, ps)
    BY <1>0, <2>1, PoolLowered, PoolToIs
  <2>3. t1 = [tp EXCEPT !.own[u][k].value = @ - l]
    BY Zenon DEF Lowered
  <2> HIDE DEF ps, tp, t1
  <2>4. tp.own = t.own
    BY <2>1, <2>2 DEF Txs, PoolsTo
  <2>5. [tp EXCEPT !.own[u][k].value = @ - l] = [tp EXCEPT !.own = o]
    BY <1>0, <2>4
  <2>6. tv = ts
    BY <1>0, <2>1
  <2> HIDE DEF o, v, tv
  <2>7. t1 = PoolsTo(ts, ps)
    BY <2>1, <2>2, <2>3, <2>5 DEF Txs, PoolsTo
  <2>8. ts.pools = t.pools /\ ts.own = o
    BY <2>1 DEF Txs
  <2>9. ts \in Txs
    <3>1. o \in Owns
      <4>1. [t.own[u][k] EXCEPT !.value = v] \in Entries
        BY <1>3, <2>1 DEF Entries
      <4> QED BY <1>0, <2>1, <4>1, EntryPut DEF o
    <3> QED BY <2>1, <3>1 DEF Txs
  <2> HIDE DEF ts, s, na, nb
  <2>11. PoolTo(ts, i, s, na, nb) = PoolsTo(ts, PoolIn(ts.pools, i, s, na, nb))
    BY <1>0, <2>8, <2>9, PoolToIs
  <2> QED BY <2>6, <2>7, <2>8, <2>11 DEF ps
<1> HIDE DEF t1, v, s, na, nb
<1>5. /\ Sound(tv) /\ tv.pools = t.pools /\ tv.rewards = t.rewards /\ tv.coin = t.coin
      /\ tv.ok = t.ok /\ DOMAIN tv.own[u] = DOMAIN t.own[u]
      /\ \A j \in DOMAIN t.pools :
           OfPool(tv.own, j, "value") = OfPool(t.own, j, "value") - (IF i = j THEN l ELSE 0)
  <2>1. /\ Sound(tv) /\ tv.pools = t.pools /\ tv.rewards = t.rewards /\ tv.coin = t.coin
        /\ tv.ok = t.ok /\ DOMAIN tv.own[u] = DOMAIN t.own[u]
        /\ \A j \in DOMAIN t.pools :
             OfPool(tv.own, j, "value") = OfPool(t.own, j, "value")
               + (IF t.own[u][k].pool = j THEN v - t.own[u][k].value ELSE 0)
    <3>1. Sound(t) /\ u \in Users /\ k \in DOMAIN t.own[u] /\ v \in Nat
      BY <1>0, <1>3
    <3> QED BY <3>1, ValuePut
  <2> HIDE DEF tv
  <2>2. ASSUME NEW j \in DOMAIN t.pools
        PROVE  OfPool(tv.own, j, "value") = OfPool(t.own, j, "value") - (IF i = j THEN l ELSE 0)
    <3>1. OfPool(t.own, j, "value") \in Nat
      BY <1>0, GapInt DEF Sound
    <3>2. v - t.own[u][k].value = 0 - l
      BY <1>3 DEF w
    <3>3. OfPool(tv.own, j, "value") = OfPool(t.own, j, "value") + (IF i = j THEN 0 - l ELSE 0)
      BY <1>0, <2>1, <3>2
    <3>4. l \in Nat
      BY <1>0
    <3> QED BY <3>1, <3>3, <3>4
  <2> QED BY <2>1, <2>2
<1> HIDE DEF tv
<1>6. /\ Sound(t1) /\ t1.own = tv.own /\ t1.rewards = tv.rewards /\ t1.coin = tv.coin
      /\ t1.ok = tv.ok /\ DOMAIN t1.pools = DOMAIN tv.pools
      /\ \A j \in DOMAIN tv.pools \ {i} : t1.pools[j] = tv.pools[j]
      /\ t1.pools[i].supply = s /\ t1.pools[i].ra = na /\ t1.pools[i].rb = nb
      /\ t1.pools[i].a = tv.pools[i].a /\ t1.pools[i].b = tv.pools[i].b
      /\ \A c \in Coins : Slack(t1, c) = Slack(tv, c)
           - (IF Code(tv.pools[i].a) = c THEN na - tv.pools[i].ra ELSE 0)
           - (IF Code(tv.pools[i].b) = c THEN nb - tv.pools[i].rb ELSE 0)
  <2>2. i \in DOMAIN tv.pools /\ Sound(tv) /\ s \in Nat /\ na \in Nat /\ nb \in Nat
    BY <1>0, <1>3, <1>5
  <2> DEFINE z == PoolTo(tv, i, s, na, nb)
  <2>3. /\ Sound(z) /\ z.own = tv.own /\ z.rewards = tv.rewards /\ z.coin = tv.coin
        /\ z.ok = tv.ok /\ DOMAIN z.pools = DOMAIN tv.pools
        /\ \A j \in DOMAIN tv.pools \ {i} : z.pools[j] = tv.pools[j]
        /\ z.pools[i].supply = s /\ z.pools[i].ra = na /\ z.pools[i].rb = nb
        /\ z.pools[i].a = tv.pools[i].a /\ z.pools[i].b = tv.pools[i].b
        /\ \A c \in Coins : Slack(z, c) = Slack(tv, c)
             - (IF Code(tv.pools[i].a) = c THEN na - tv.pools[i].ra ELSE 0)
             - (IF Code(tv.pools[i].b) = c THEN nb - tv.pools[i].rb ELSE 0)
    BY <2>2, PoolSet
  <2> QED BY <1>4, <2>3
<1>7. Settles(t1, t2)
  BY <1>0, <1>6, PoolUpdated
<1> HIDE DEF t2
<1>8. k \in DOMAIN t2.own[u] /\ Sound(t2)
  BY <1>0, <1>5, <1>6, <1>7 DEF Settles
<1>9. Settles(t2, t3)
  BY <1>0, <1>8, RewardSettles
<1> HIDE DEF t3
<1>10. Settles(t1, t3)
  BY <1>6, <1>7, <1>9, SettlesTwice
<1>11. /\ Sound(t3) /\ DOMAIN t3.pools = DOMAIN t.pools
       /\ \A j \in DOMAIN t.pools :
            /\ t3.pools[j].supply = t1.pools[j].supply /\ t3.pools[j].ra = t1.pools[j].ra
            /\ t3.pools[j].rb = t1.pools[j].rb
       /\ \A c \in Coins : Slack(t3, c) >= Slack(t1, c)
  BY <1>5, <1>6, <1>10 DEF Settles
<1>12. /\ Sound(t4) /\ t4.pools = t3.pools /\ t4.own = t3.own /\ t4.rewards = t3.rewards
       /\ t4.ok => \A c \in Coins : Slack(t4, c) = Slack(t3, c) - (IF c = ca THEN e ELSE 0)
  <2>1. Sound(t3) /\ u \in Users /\ ca \in Coins /\ e \in Nat
    BY <1>0, <1>11
  <2> QED BY <2>1, PaidOut
<1> HIDE DEF t4
<1>13. /\ Sound(r) /\ r.pools = t4.pools /\ r.own = t4.own /\ r.rewards = t4.rewards
       /\ r.ok => /\ t4.ok
                  /\ \A c \in Coins : Slack(r, c) = Slack(t4, c) - (IF c = cb THEN f ELSE 0)
  <2>1. Sound(t4) /\ u \in Users /\ cb \in Coins /\ f \in Nat
    BY <1>0, <1>12
  <2> QED BY <2>1, PaidOut
<1> HIDE DEF r
<1>14. ASSUME r.ok, NEW c \in Coins PROVE Slack(r, c) >= Slack(t, c)
  <2> DEFINE da == IF c = ca THEN e ELSE 0
             db == IF c = cb THEN f ELSE 0
  <2>1. da \in Nat /\ db \in Nat
    BY <1>0
  <2>2. Slack(r, c) = Slack(t3, c) - da - db
    BY <1>12, <1>13, <1>14
  <2>3. Slack(tv, c) = Slack(t, c)
    BY <1>5 DEF Slack, Owed
  <2>4. Slack(t3, c) >= Slack(t1, c)
    BY <1>11
  <2>7. Slack(t, c) \in Int /\ Slack(t3, c) \in Int /\ Slack(t1, c) \in Int
    BY <1>0, <1>6, <1>11, SlackInt DEF Sound
  <2>5. Slack(t1, c) = Slack(tv, c) + da + db
    <3>1. na - tv.pools[i].ra = 0 - e /\ nb - tv.pools[i].rb = 0 - f
      BY <1>3, <1>5 DEF a0, b0
    <3>2. Code(tv.pools[i].a) = ca /\ Code(tv.pools[i].b) = cb
      BY <1>0, <1>5
    <3>3. Slack(t1, c) = Slack(tv, c) - (IF Code(tv.pools[i].a) = c THEN na - tv.pools[i].ra ELSE 0)
                                      - (IF Code(tv.pools[i].b) = c THEN nb - tv.pools[i].rb ELSE 0)
      BY <1>6
    <3>4. Slack(t1, c) = Slack(tv, c) - (IF ca = c THEN 0 - e ELSE 0) - (IF cb = c THEN 0 - f ELSE 0)
      BY <3>1, <3>2, <3>3
    <3>5. e \in Nat /\ f \in Nat
      BY <1>0
    <3> QED BY <2>3, <2>7, <3>4, <3>5
  <2> HIDE DEF da, db
  <2> QED BY <2>1, <2>2, <2>3, <2>4, <2>5, <2>7
<1>15. ASSUME NEW j \in DOMAIN t.pools PROVE Gap(r, j) = Gap(t, j)
  <2> DEFINE y == IF i = j THEN l ELSE 0
             sj == t.pools[j].supply
             o == OfPool(t.own, j, "value")
  <2>1. j \in DOMAIN t1.pools /\ Gap(t3, j) = Gap(t1, j)
    BY <1>5, <1>6, <1>10, GapSettled
  <2>2. Gap(r, j) = Gap(t3, j)
    BY <1>12, <1>13 DEF Gap
  <2>3. OfPool(t1.own, j, "value") = o - y
    BY <1>5, <1>6
  <2>4. o \in Nat /\ sj \in Nat /\ Gap(t, j) = o - sj
    BY <1>0, GapInt DEF Sound
  <2>9. y \in Nat
    BY <1>0
  <2>5. t1.pools[j].supply = sj - y
    <3>1. CASE j = i
      BY <1>3, <1>6, <3>1 DEF s0
    <3>2. CASE j # i
      <4>1. t1.pools[j].supply = sj
        BY <1>5, <1>6, <3>2
      <4>2. y = 0
        BY <3>2
      <4> HIDE DEF y, sj
      <4> QED BY <4>1, <4>2, <2>4
    <3> QED BY <3>1, <3>2
  <2>6. Gap(t1, j) = OfPool(t1.own, j, "value") - t1.pools[j].supply
    BY DEF Gap
  <2> HIDE DEF y, sj, o
  <2> QED BY <2>1, <2>2, <2>3, <2>4, <2>5, <2>6, <2>9
<1>16. ASSUME NEW j \in DOMAIN t.pools, j # i
       PROVE  /\ r.pools[j].supply = t.pools[j].supply
              /\ r.pools[j].ra = t.pools[j].ra /\ r.pools[j].rb = t.pools[j].rb
  BY <1>5, <1>6, <1>11, <1>12, <1>13, <1>16
<1>17. /\ r.pools[i].supply = t.pools[i].supply - l
       /\ r.pools[i].ra = t.pools[i].ra - e /\ r.pools[i].rb = t.pools[i].rb - f
  BY <1>0, <1>6, <1>11, <1>12, <1>13 DEF s, na, nb, s0, a0, b0
<1>18. r.rewards.open = t.rewards.open
  BY <1>5, <1>6, <1>10, <1>12, <1>13 DEF Settles
<1> QED BY <1>1, <1>11, <1>12, <1>13, <1>14, <1>15, <1>16, <1>17, <1>18 DEF IsShrunk

\* What l of s shares are worth of the reserve z.
LEMMA ShareOf ==
  ASSUME NEW z \in Nat, NEW s \in Nat \ {0}, NEW l \in Nat, l <= s
  PROVE  LET x == (l * z) \div s
         IN  x \in Nat /\ x <= z /\ z * (s - l) <= (z - x) * s
<1> DEFINE x == (l * z) \div s
<1>1. l * z \in Nat
  BY NatMul
<1>2. x \in Nat /\ x * s <= l * z
  BY <1>1, Floor
<1> HIDE DEF x
<1>3. l * z <= s * z /\ s * z \in Nat /\ x * s \in Nat
  BY <1>2, Products, NatMul
<1>4. x <= z
  <2> SUFFICES ASSUME z + 1 <= x PROVE FALSE
    BY <1>2
  <2>1. (z + 1) * s <= x * s
    BY <1>2, Products
  <2>2. (z + 1) * s = s * z + s
    OBVIOUS
  <2> QED BY <1>1, <1>2, <1>3, <2>1, <2>2
<1>5. z * (s - l) = s * z - l * z /\ (z - x) * s = s * z - x * s
  BY <1>2
<1>6. z * (s - l) <= (z - x) * s
  BY <1>1, <1>2, <1>3, <1>5
<1> QED BY <1>2, <1>4, <1>6 DEF x

\* remove_liquidity: the same.
LEMMA LiquidityRemoved ==
  ASSUME Inv, NEW u \in Users, NEW i, i \in DOMAIN pools, NEW l \in Nat, RemoveLiquidity(u, i, l).ok
  PROVE  LET t == RemoveLiquidity(u, i, l)
         IN  Safe(t) /\ Valued(t) /\ t.rewards.open = rewards.open
<1> DEFINE t  == Begin
           p  == pools[i]
           k  == Entry(t, u, i)
           e  == Worth(p, p.ra, l)
           f  == Worth(p, p.rb, l)
           ca == Code(p.a)
           cb == Code(p.b)
           r  == Redeemed(t, u, k, i, ca, cb, e, f, l)
<1>0. Sound(t) /\ Typing /\ Safe(t) /\ now \in Nat /\ t.pools = pools /\ t.own = own /\ t \in Txs
  <2>1. Typing /\ Safe(t)
    BY DEF Inv
  <2> QED BY <2>1, BeginIs DEF Safe, Typing, Sound
<1>a. Require(t, FALSE).ok = FALSE
  BY <1>0, Aborted
<1>1. /\ p.supply >= l /\ p.supply # 0 /\ k \in DOMAIN own[u] /\ own[u][k].value >= l
      /\ RemoveLiquidity(u, i, l) = r
  <2>0. p.supply \in Nat
    BY <1>0, PoolParts
  <2>1. CASE p.supply < l \/ p.supply = 0 \/ k \notin DOMAIN own[u]
    <3>1. RemoveLiquidity(u, i, l) = Require(t, FALSE)
      BY <2>1 DEF RemoveLiquidity
    <3> QED BY <1>a, <3>1
  <2>2. CASE ~(p.supply < l \/ p.supply = 0 \/ k \notin DOMAIN own[u]) /\ own[u][k].value < l
    <3>1. RemoveLiquidity(u, i, l) = Require(t, FALSE)
      BY <2>2, Zenon DEF RemoveLiquidity
    <3> QED BY <1>a, <3>1
  <2>3. CASE ~(p.supply < l \/ p.supply = 0 \/ k \notin DOMAIN own[u]) /\ ~(own[u][k].value < l)
    <3>1. RemoveLiquidity(u, i, l) = r
      BY <2>3, Zenon DEF RemoveLiquidity, Redeemed
    <3>2. own[u][k].value \in Nat
      BY <1>0, <2>3, EntryParts
    <3>3. p.supply >= l /\ p.supply # 0 /\ own[u][k].value >= l
      <4> HIDE DEF p, k
      <4> QED BY <2>0, <2>3, <3>2
    <3> QED BY <2>3, <3>1, <3>3
  <2> QED BY <2>1, <2>2, <2>3
<1>2. k \in DOMAIN t.own[u] /\ t.own[u][k].pool = i
  BY <1>0, <1>1, EntryIs
<1> HIDE DEF k
<1>3. /\ p \in Pools /\ p.supply \in Nat /\ p.ra \in Nat /\ p.rb \in Nat /\ p.a \in Nat /\ p.b \in Nat
      /\ p.a < p.b /\ p.b < Len(codes)
  <2>1. p.a < p.b /\ p.b < Len(codes)
    BY <1>0 DEF Sound, Linked
  <2> QED BY <1>0, <2>1, PoolParts
<1>4. ca \in Coins /\ cb \in Coins
  <2>1. p.a \in 0 .. Len(codes) - 1 /\ p.b \in 0 .. Len(codes) - 1
    <3>1. Len(codes) \in Nat
      BY <1>0 DEF Typing
    <3> HIDE DEF p
    <3> QED BY <1>3, <3>1
  <2> QED BY <1>0, <2>1, CodeCoin
<1>5. /\ e \in Nat /\ e <= p.ra /\ p.ra * (p.supply - l) <= (p.ra - e) * p.supply
      /\ f \in Nat /\ f <= p.rb /\ p.rb * (p.supply - l) <= (p.rb - f) * p.supply
  <2> HIDE DEF p
  <2>1. p.supply \in Nat \ {0} /\ l <= p.supply
    BY <1>1, <1>3
  <2> QED BY <1>3, <2>1, ShareOf DEF Worth
<1>6. Redeemable(t, u, k, i, ca, cb, e, f, l)
  <2>1. /\ t.pools[i] = p /\ i \in DOMAIN t.pools
    BY <1>0
  <2>2. l <= t.own[u][k].value
    BY <1>0, <1>1, <1>2, EntryParts
  <2>3. l <= p.supply
    BY <1>1, <1>3
  <2> HIDE DEF p, e, f, ca, cb
  <2>4. e <= t.pools[i].ra /\ f <= t.pools[i].rb /\ l <= t.pools[i].supply
    BY <1>5, <2>1, <2>3
  <2>5. ca = Code(t.pools[i].a) /\ cb = Code(t.pools[i].b)
    BY <2>1 DEF ca, cb
  <2> QED BY <1>0, <1>2, <1>4, <1>5, <2>1, <2>2, <2>4, <2>5 DEF Redeemable
<1> HIDE DEF e, f, ca, cb
<1>7. IsShrunk(t, r, i, e, f, l)
  BY <1>6, IsRedeemed, Zenon
<1> HIDE DEF r
<1>8. r.ok
  BY <1>1
<1>9. /\ Sound(r) /\ DOMAIN r.pools = DOMAIN pools
      /\ \A j \in DOMAIN pools :
           /\ Gap(r, j) = 0
           /\ j # i => /\ r.pools[j].supply = pools[j].supply
                       /\ r.pools[j].ra = pools[j].ra /\ r.pools[j].rb = pools[j].rb
      /\ r.pools[i].supply = p.supply - l
      /\ r.pools[i].ra = p.ra - e /\ r.pools[i].rb = p.rb - f
      /\ \A c \in Coins : Slack(r, c) >= Slack(t, c)
  BY <1>0, <1>7, <1>8 DEF IsShrunk, Safe
<1>10. ASSUME NEW c \in Coins PROVE Slack(r, c) >= 0
  <2>1. Slack(t, c) >= 0 /\ Slack(r, c) >= Slack(t, c)
    BY <1>0, <1>9 DEF Safe
  <2>2. Slack(r, c) \in Int /\ Slack(t, c) \in Int
    BY <1>0, <1>9, SlackInt DEF Sound
  <2> QED BY <2>1, <2>2
<1>11. Valued(r)
  <2> SUFFICES ASSUME NEW j \in DOMAIN r.pools
               PROVE  IF j \notin DOMAIN pools \/ pools[j].supply = 0 THEN Covers(r.pools[j])
                      ELSE Grows(pools[j], r.pools[j])
    BY DEF Valued
  <2> DEFINE q == r.pools[j]
  <2>0. q.supply \in Nat /\ q.ra \in Nat /\ q.rb \in Nat /\ j \in DOMAIN pools
    BY <1>9, PoolParts DEF Sound
  <2>2. CASE j = i
    <3>0. q.supply = p.supply - l /\ q.ra = p.ra - e /\ q.rb = p.rb - f
      BY <1>9, <2>2
    <3>1. pools[j] = p /\ p.supply # 0
      BY <1>1, <2>2
    <3> HIDE DEF p, q
    <3>3. p.ra * q.supply <= q.ra * p.supply /\ p.rb * q.supply <= q.rb * p.supply
      BY <1>5, <3>0
    <3>4. q.ra * q.rb * p.supply * p.supply >= p.ra * p.rb * q.supply * q.supply
      BY <1>3, <2>0, <3>3, InProportion
    <3>5. Grows(pools[j], q)
      BY <3>1, <3>4 DEF Grows
    <3> QED BY <2>0, <3>1, <3>5 DEF q
  <2>3. CASE j # i
    <3>1. q.supply = pools[j].supply /\ q.ra = pools[j].ra /\ q.rb = pools[j].rb
      BY <1>9, <2>0, <2>3
    <3>3. q.ra * q.rb \in Nat /\ q.ra * q.rb * q.supply * q.supply \in Nat
      BY <2>0, NatMul
    <3>4. CASE q.supply = 0
      BY <2>0, <3>1, <3>3, <3>4 DEF Covers
    <3>5. CASE q.supply # 0
      <4> HIDE DEF q
      <4>2. Grows(pools[j], q)
        BY <3>1, <3>3 DEF Grows
      <4> QED BY <2>0, <3>1, <3>5, <4>2 DEF q
    <3> QED BY <3>4, <3>5
  <2> QED BY <2>2, <2>3
<1>12. r.rewards.open = rewards.open
  BY <1>7, BeginIs DEF IsShrunk
<1> QED BY <1>1, <1>9, <1>10, <1>11, <1>12 DEF Safe

\* What is got for a at a pool with in and out is there, and with a fee the product
\* does not shrink.
LEMMA AmountOut ==
  ASSUME Typing, NEW in \in Nat, NEW out \in Nat, NEW a \in Nat, in * factor[2] + a * factor[1] # 0
  PROVE  LET got == get_amount_out(a, in, out)
         IN  /\ got \in Nat /\ got <= out
             /\ FairFees => in * out <= (in + a) * (out - got)
<1> DEFINE f1 == factor[1]
           f2 == factor[2]
           l  == a * f1
           m  == in * f2
           d  == m + l
           got == get_amount_out(a, in, out)
<1>1. f1 \in Nat /\ f2 \in Nat /\ (FairFees => f1 <= f2) /\ d # 0
  BY DEF Typing
<1> HIDE DEF f1, f2
<1>2. l \in Nat /\ m \in Nat
  BY <1>1, NatMul
<1>4. got = (l * out) \div d
  BY DEF get_amount_out, f1, f2
<1> HIDE DEF l, m, got
<1>5. d \in Nat \ {0} /\ l <= d /\ d - l = m
  BY <1>1, <1>2
<1> HIDE DEF d
<1>6. got \in Nat /\ got <= out /\ out * (d - l) <= (out - got) * d
  BY <1>2, <1>4, <1>5, ShareOf
<1>3. ASSUME FairFees PROVE in * out <= (in + a) * (out - got)
  <2>0. f1 <= f2 /\ f2 > 0
    <3>1. f1 <= f2
      BY <1>1, <1>3
    <3>2. f2 # 0
      <4> SUFFICES ASSUME f2 = 0 PROVE FALSE
        OBVIOUS
      <4>1. f1 = 0
        BY <1>1, <3>1
      <4>2. l = 0 /\ m = 0
        BY <4>1 DEF l, m
      <4> QED BY <1>5, <4>2 DEF d
    <3> QED BY <1>1, <3>1, <3>2
  <2>7. l <= a * f2 /\ a * f2 \in Nat
    BY <1>1, <2>0, Products, NatMul DEF l
  <2>8. d <= (in + a) * f2 /\ (in + a) * f2 \in Nat
    <3>1. (in + a) * f2 = m + a * f2
      BY <1>1 DEF m
    <3> QED BY <1>2, <2>7, <3>1 DEF d
  <2> DEFINE o == out - got
  <2>9. o \in Nat
    BY <1>6
  <2> HIDE DEF o
  <2>10. o * d <= o * ((in + a) * f2)
    BY <1>5, <2>8, <2>9, Products
  <2>11. out * m <= o * ((in + a) * f2)
    <3>1. out * m <= o * d
      BY <1>5, <1>6 DEF o
    <3>2. out * m \in Nat /\ o * d \in Nat /\ o * ((in + a) * f2) \in Nat
      BY <1>2, <1>5, <2>8, <2>9, NatMul
    <3> QED BY <2>10, <3>1, <3>2
  <2>12. in * out <= (in + a) * o
    <3> DEFINE g == in * out
               h == (in + a) * o
    <3>1. g \in Nat /\ h \in Nat
      BY <2>9, NatMul
    <3>2. out * m = g * f2 /\ o * ((in + a) * f2) = h * f2
      BY <1>1, <2>9 DEF m
    <3> HIDE DEF g, h
    <3> SUFFICES ASSUME h + 1 <= g PROVE FALSE
      BY <3>1 DEF g, h
    <3>3. (h + 1) * f2 <= g * f2
      BY <1>1, <3>1, Products
    <3>4. (h + 1) * f2 = h * f2 + f2 /\ h * f2 \in Nat /\ g * f2 \in Nat
      BY <1>1, <3>1
    <3> QED BY <1>1, <2>0, <2>11, <3>2, <3>3, <3>4
  <2> QED BY <2>12 DEF o
<1> QED BY <1>6, <1>3 DEF got

\* The reserves of a pool change, and its supply does not.
ReservesTo(t, i, x, y) == [t EXCEPT !.pools[i].ra = x, !.pools[i].rb = y]

\* Setting the reserves of a pool, by the pool it gives.
LEMMA ReservesSet ==
  ASSUME NEW t \in Txs, NEW i, i \in DOMAIN t.pools, NEW x, NEW y
  PROVE  ReservesTo(t, i, x, y) = PoolTo(t, i, t.pools[i].supply, x, y)
<1> DEFINE s == t.pools[i].supply
<1>0. t.pools[i].supply = s
  OBVIOUS
<1>1. t.pools \in Seq(Pools) /\ t.pools[i] \in Pools
  BY PoolParts, TxParts
<1> HIDE DEF s
<1>2. ReservesTo(t, i, x, y) = PoolTo(t, i, s, x, y)
  BY <1>0, <1>1 DEF ReservesTo, PoolTo, Txs, Pools
<1> QED BY <1>0, <1>2

\* The hops of a path from head on, with x to begin with: amount of cur is to be paid.
Hops == [t : Txs, amount : Nat]

OnTheWay(t) ==
  /\ Sound(t) /\ t.own = own /\ DOMAIN t.pools = DOMAIN pools /\ t.rewards.open = rewards.open
  /\ \A j \in DOMAIN pools : /\ t.pools[j].supply = pools[j].supply
                             /\ FairFees => t.pools[j].ra * t.pools[j].rb >= pools[j].ra * pools[j].rb

Travels(h, head, x, cur) ==
  /\ h \in Hops
  /\ h.t.ok =>
       /\ OnTheWay(h.t)
       /\ \A c \in Coins : Slack(h.t, c) = Slack(Begin, c) - (IF Code(head) = c THEN x ELSE 0)
                                                           + (IF Code(cur) = c THEN h.amount ELSE 0)

\* One trade at pool i.
LEMMA Traded ==
  ASSUME Inv, NEW t, OnTheWay(t), NEW i, i \in DOMAIN t.pools, NEW x \in Nat, NEW y \in Nat,
         FairFees => t.pools[i].ra * t.pools[i].rb <= x * y
  PROVE  LET r == ReservesTo(t, i, x, y)
         IN  /\ OnTheWay(r)
             /\ \A c \in Coins : Slack(r, c) = Slack(t, c)
                  - (IF Code(t.pools[i].a) = c THEN x - t.pools[i].ra ELSE 0)
                  - (IF Code(t.pools[i].b) = c THEN y - t.pools[i].rb ELSE 0)
<1> DEFINE s == t.pools[i].supply
           r == PoolTo(t, i, s, x, y)
<1>0. Sound(t) /\ t.own = own /\ DOMAIN t.pools = DOMAIN pools /\ t.rewards.open = rewards.open
  BY DEF OnTheWay
<1>1. ReservesTo(t, i, x, y) = r
  BY <1>0, ReservesSet DEF Sound
<1>2. s \in Nat /\ t.pools[i].ra \in Nat /\ t.pools[i].rb \in Nat
  BY <1>0, PoolParts DEF Sound
<1>3. s = pools[i].supply
  BY DEF OnTheWay
<1> HIDE DEF s
<1>4. /\ Sound(r) /\ r.own = t.own /\ r.rewards = t.rewards /\ r.coin = t.coin
      /\ r.ok = t.ok /\ DOMAIN r.pools = DOMAIN t.pools
      /\ \A j \in DOMAIN t.pools \ {i} : r.pools[j] = t.pools[j]
      /\ r.pools[i].supply = s /\ r.pools[i].ra = x /\ r.pools[i].rb = y
      /\ \A c \in Coins : Slack(r, c) = Slack(t, c)
           - (IF Code(t.pools[i].a) = c THEN x - t.pools[i].ra ELSE 0)
           - (IF Code(t.pools[i].b) = c THEN y - t.pools[i].rb ELSE 0)
  <2>1. Sound(t) /\ i \in DOMAIN t.pools /\ s \in Nat /\ x \in Nat /\ y \in Nat
    BY <1>0, <1>2
  <2> QED BY <2>1, PoolSet
<1> HIDE DEF r
<1>5. ASSUME NEW j \in DOMAIN pools
      PROVE  /\ r.pools[j].supply = pools[j].supply
             /\ FairFees => r.pools[j].ra * r.pools[j].rb >= pools[j].ra * pools[j].rb
  <2>1. CASE j = i
    <3>1. r.pools[j].ra * r.pools[j].rb = x * y /\ x * y \in Nat
      BY <1>4, <2>1, NatMul
    <3>2. FairFees => t.pools[j].ra * t.pools[j].rb >= pools[j].ra * pools[j].rb
      BY DEF OnTheWay
    <3>3. t.pools[j].ra * t.pools[j].rb \in Nat /\ (FairFees => t.pools[j].ra * t.pools[j].rb <= x * y)
      BY <1>2, <2>1, NatMul
    <3>4. pools[j].ra * pools[j].rb \in Nat
      <4>1. pools[j].ra \in Nat /\ pools[j].rb \in Nat
        BY BeginIs, PoolParts DEF Inv, Safe, Sound
      <4> QED BY <4>1, NatMul
    <3> QED BY <1>3, <1>4, <2>1, <3>1, <3>2, <3>3, <3>4
  <2>2. CASE j # i
    BY <1>0, <1>4, <2>2 DEF OnTheWay
  <2> QED BY <2>1, <2>2
<1> QED BY <1>0, <1>1, <1>4, <1>5 DEF OnTheWay

\* The two directions of a trade.
TradeUp(t, i, a, g)   == [t EXCEPT !.pools[i].ra = @ + a, !.pools[i].rb = @ - g]
TradeDown(t, i, a, g) == [t EXCEPT !.pools[i].ra = @ - g, !.pools[i].rb = @ + a]

\* The two directions of a trade, as settings of the reserves.
LEMMA TradeSets ==
  ASSUME NEW t \in Txs, NEW i, i \in DOMAIN t.pools, NEW a, NEW g
  PROVE  /\ TradeUp(t, i, a, g) = ReservesTo(t, i, t.pools[i].ra + a, t.pools[i].rb - g)
         /\ TradeDown(t, i, a, g) = ReservesTo(t, i, t.pools[i].ra - g, t.pools[i].rb + a)
<1>1. t.pools \in Seq(Pools) /\ t.pools[i] \in Pools
  BY PoolParts, TxParts
<1>2. ASSUME NEW x, NEW y, x = t.pools[i].ra + a, y = t.pools[i].rb - g
      PROVE  TradeUp(t, i, a, g) = ReservesTo(t, i, x, y)
  BY <1>1, <1>2 DEF TradeUp, ReservesTo, Txs, Pools
<1>3. ASSUME NEW x, NEW y, x = t.pools[i].ra - g, y = t.pools[i].rb + a
      PROVE  TradeDown(t, i, a, g) = ReservesTo(t, i, x, y)
  BY <1>1, <1>3 DEF TradeDown, ReservesTo, Txs, Pools
<1> QED BY <1>2, <1>3

\* One hop along a path: what came in is in the pool, what comes out is on the way.
LEMMA Hopped ==
  ASSUME Inv, NEW h, NEW head, NEW x \in Nat, NEW from \in Nat, NEW to \in Nat,
         Travels(h, head, x, from)
  PROVE  Travels(Hop(h, from, to), head, x, to)
<1> DEFINE t   == h.t
           a   == h.amount
           i   == PoolIndex(t.pools, Min({from, to}), Max({from, to}))
           p   == t.pools[i]
           in  == IF from < to THEN p.ra ELSE p.rb
           out == IF from < to THEN p.rb ELSE p.ra
           got == get_amount_out(a, in, out)
           den == in * factor[2] + a * factor[1]
           no  == [h EXCEPT !.t.ok = FALSE]
<1>0. h \in Hops /\ t \in Txs /\ a \in Nat /\ Typing /\ t.pools \in Seq(Pools)
  <2>1. h \in Hops /\ Typing
    BY DEF Travels, Inv
  <2>2. t \in Txs /\ a \in Nat
    BY <2>1 DEF Hops
  <2> QED BY <2>1, <2>2, TxParts
<1>1. Travels(no, head, x, to)
  <2>1. no \in Hops /\ no.t.ok = FALSE
    BY <1>0 DEF Hops, Txs
  <2> HIDE DEF no
  <2> QED BY <2>1 DEF Travels
<1>2. CASE from = to \/ i \notin DOMAIN t.pools \/ ~t.ok
  <2>1. Hop(h, from, to) = no
    BY <1>2, Zenon DEF Hop
  <2> QED BY <1>1, <2>1
<1>3. CASE ~(from = to \/ i \notin DOMAIN t.pools \/ ~t.ok) /\ (a = 0 \/ in = 0 \/ out = 0 \/ den = 0)
  <2>1. Hop(h, from, to) = no
    BY <1>3, Zenon DEF Hop
  <2> QED BY <1>1, <2>1
<1>4. CASE ~(from = to \/ i \notin DOMAIN t.pools \/ ~t.ok) /\ ~(a = 0 \/ in = 0 \/ out = 0 \/ den = 0)
  <2> DEFINE r == IF from < to THEN TradeUp(t, i, a, got) ELSE TradeDown(t, i, a, got)
  <2>1. Hop(h, from, to) = [amount |-> got, t |-> r]
    BY <1>4, Zenon DEF Hop, TradeUp, TradeDown
  <2>2. OnTheWay(t) /\ Sound(t) /\ i \in DOMAIN t.pools /\ t.ok
    BY <1>4 DEF Travels, OnTheWay
  <2>3. p.ra \in Nat /\ p.rb \in Nat /\ p.a = Min({from, to}) /\ p.b = Max({from, to})
    BY <1>0, <2>2, PoolParts, PoolIndexIs
  <2>4. in \in Nat /\ out \in Nat /\ in * factor[2] + a * factor[1] # 0
    BY <1>4, <2>3
  <2>5. Min({from, to}) \in {from, to} /\ Min({from, to}) <= from /\ Min({from, to}) <= to
        /\ Max({from, to}) \in {from, to} /\ Max({from, to}) >= from /\ Max({from, to}) >= to
    <3>1. from \in Int /\ to \in Int
      OBVIOUS
    <3> QED BY <3>1, MinOf, MaxOf
  <2> HIDE DEF i
  <2>6. got \in Nat /\ got <= out /\ (FairFees => in * out <= (in + a) * (out - got))
    <3> HIDE DEF in, out, a
    <3> QED BY <1>0, <2>4, AmountOut
  <2> HIDE DEF got, a, t
  <2>7. /\ OnTheWay(r)
        /\ \A c \in Coins : Slack(r, c) = Slack(t, c) - (IF Code(from) = c THEN a ELSE 0)
                                                      + (IF Code(to) = c THEN got ELSE 0)
    <3> DEFINE up == from < to
               nx == IF up THEN p.ra + a ELSE p.ra - got
               ny == IF up THEN p.rb - got ELSE p.rb + a
    <3>1. r = ReservesTo(t, i, nx, ny)
      BY <1>0, <2>2, TradeSets
    <3>2. nx \in Nat /\ ny \in Nat
      <4> HIDE DEF p
      <4>1. CASE up
        <5>1. got <= p.rb
          BY <2>6, <4>1
        <5> QED BY <1>0, <2>3, <2>6, <4>1, <5>1
      <4>2. CASE ~up
        <5>1. got <= p.ra
          BY <2>6, <4>2
        <5> QED BY <1>0, <2>3, <2>6, <4>2, <5>1
      <4> QED BY <4>1, <4>2
    <3>3. FairFees => p.ra * p.rb <= nx * ny
      <4> SUFFICES ASSUME FairFees PROVE p.ra * p.rb <= nx * ny
        OBVIOUS
      <4>1. CASE up
        <5> HIDE DEF p
        <5> QED BY <2>6, <4>1
      <4>2. CASE ~up
        <5> HIDE DEF p
        <5>1. p.rb * p.ra <= (p.rb + a) * (p.ra - got)
          BY <2>6, <4>2
        <5>2. p.rb * p.ra = p.ra * p.rb /\ nx * ny = (p.rb + a) * (p.ra - got)
          BY <1>0, <2>3, <2>6, <4>2
        <5> QED BY <5>1, <5>2
      <4> QED BY <4>1, <4>2
    <3> HIDE DEF r
    <3>4. ASSUME NEW m \in Nat, NEW n \in Nat, m = nx, n = ny
          PROVE  /\ OnTheWay(r)
                 /\ \A c \in Coins : Slack(r, c) = Slack(t, c)
                      - (IF Code(t.pools[i].a) = c THEN m - t.pools[i].ra ELSE 0)
                      - (IF Code(t.pools[i].b) = c THEN n - t.pools[i].rb ELSE 0)
      <4> HIDE DEF nx, ny
      <4>1. r = ReservesTo(t, i, m, n) /\ (FairFees => t.pools[i].ra * t.pools[i].rb <= m * n)
        BY <3>1, <3>3, <3>4
      <4> QED BY <2>2, <4>1, Traded
    <3>5. OnTheWay(r)
      BY <3>2, <3>4
    <3>6. ASSUME NEW c \in Coins
          PROVE  Slack(r, c) = Slack(t, c) - (IF Code(from) = c THEN a ELSE 0)
                                           + (IF Code(to) = c THEN got ELSE 0)
      <4>0. Slack(t, c) \in Int
        BY <1>0, SlackInt
      <4>1. Slack(r, c) = Slack(t, c) - (IF Code(p.a) = c THEN nx - p.ra ELSE 0)
                                      - (IF Code(p.b) = c THEN ny - p.rb ELSE 0)
        <5> HIDE DEF nx, ny
        <5> QED BY <3>2, <3>4
      <4>2. CASE up
        <5>1. p.a = from /\ p.b = to
          BY <2>3, <2>5, <4>2
        <5> HIDE DEF p
        <5>2. nx - p.ra = a /\ ny - p.rb = 0 - got
          BY <1>0, <2>3, <2>6, <4>2
        <5> QED BY <1>0, <2>6, <4>0, <4>1, <5>1, <5>2
      <4>3. CASE ~up
        <5>1. p.a = to /\ p.b = from
          BY <1>4, <2>3, <2>5, <4>3
        <5> HIDE DEF p
        <5>2. ny - p.rb = a /\ nx - p.ra = 0 - got
          BY <1>0, <2>3, <2>6, <4>3
        <5> QED BY <1>0, <2>6, <4>0, <4>1, <5>1, <5>2
      <4> QED BY <4>2, <4>3
    <3> QED BY <3>5, <3>6
  <2> DEFINE g == [amount |-> got, t |-> r]
  <2>8. g \in Hops
    <3>1. r \in Txs
      BY <2>7 DEF OnTheWay, Sound
    <3> HIDE DEF r
    <3> QED BY <2>6, <3>1 DEF Hops
  <2>9. g.t = r /\ g.amount = got
    OBVIOUS
  <2> HIDE DEF r, g
  <2>10. ASSUME NEW c \in Coins
         PROVE  Slack(r, c) = Slack(Begin, c) - (IF Code(head) = c THEN x ELSE 0)
                                              + (IF Code(to) = c THEN got ELSE 0)
    <3> DEFINE y == IF Code(head) = c THEN x ELSE 0
               z == IF Code(from) = c THEN a ELSE 0
    <3>1. Slack(t, c) = Slack(Begin, c) - y + z
      BY <2>2 DEF Travels, t, a
    <3>2. Slack(Begin, c) \in Int /\ y \in Nat /\ z \in Nat
      <4>1. Begin \in Txs
        BY DEF Inv, Safe, Sound
      <4> QED BY <1>0, <4>1, SlackInt
    <3>3. Slack(r, c) = Slack(t, c) - z + (IF Code(to) = c THEN got ELSE 0)
      BY <2>7
    <3> HIDE DEF y, z
    <3>4. Slack(r, c) = Slack(Begin, c) - y + (IF Code(to) = c THEN got ELSE 0)
      BY <2>6, <3>1, <3>2, <3>3
    <3> QED BY <3>4 DEF y
  <2>11. Travels(g, head, x, to)
    BY <2>7, <2>8, <2>9, <2>10 DEF Travels
  <2> QED BY <2>1, <2>11 DEF g
<1> QED BY <1>2, <1>3, <1>4

\* A path, by induction on its hops.
LEMMA AlongTravels ==
  ASSUME Inv, NEW path \in Seq(Nat), Len(path) > 0, NEW x \in Nat
  PROVE  Travels(Along(path, x), path[1], x, path[Len(path)])
<1> DEFINE n == Len(path)
           first == [t |-> Begin, amount |-> x]
           next(g, k) == IF k = 1 THEN first ELSE Hop(g[k - 1], path[k - 1], path[k])
           Is(g, j) == g = [k \in 1 .. j |-> next(g, k)]
           T == {j \in Nat : ~\E g : Is(g, j)}
<1>0. n \in Nat /\ n > 0 /\ \A k \in 1 .. n : path[k] \in Nat
  OBVIOUS
<1> HIDE DEF first
<1>1. T = {}
  <2> SUFFICES ASSUME T # {} PROVE FALSE
    OBVIOUS
  <2>1. PICK j \in T : \A i \in T : j <= i
    BY Least
  <2>2. j # 0
    <3> DEFINE g == [k \in 1 .. 0 |-> first]
    <3>1. g = [k \in 1 .. 0 |-> next(g, k)]
      OBVIOUS
    <3> QED BY <3>1
  <2>3. j - 1 \in Nat /\ j - 1 \notin T
    <3>1. j \in Nat
      BY <2>1
    <3> HIDE DEF T
    <3> QED BY <2>1, <2>2, <3>1
  <2>4. PICK g : Is(g, j - 1)
    BY <2>3
  <2> DEFINE h == [k \in 1 .. j |-> IF k = j THEN next(g, j) ELSE g[k]]
  <2>5. \A k \in 1 .. j : k # j => g[k] = next(g, k)
    BY <2>3, <2>4
  <2>6. \A k \in 1 .. j : k # 1 => h[k - 1] = g[k - 1]
    BY <2>3
  <2>7. \A k \in 1 .. j : h[k] = next(h, k)
    <3> SUFFICES ASSUME NEW k \in 1 .. j PROVE h[k] = next(h, k)
      OBVIOUS
    <3>1. h[k] = next(g, k)
      BY <2>5
    <3>2. k # 1 => h[k - 1] = g[k - 1]
      BY <2>6
    <3> HIDE DEF h
    <3> QED BY <3>1, <3>2
  <2>8. Is(h, j)
    <3>1. h = [k \in 1 .. j |-> h[k]]
      OBVIOUS
    <3> HIDE DEF h
    <3>2. [k \in 1 .. j |-> h[k]] = [k \in 1 .. j |-> next(h, k)]
      BY <2>7
    <3> QED BY <3>1, <3>2
  <2> QED BY <2>8
<1>2. \E g : Is(g, n)
  BY <1>0, <1>1
<1> DEFINE f == CHOOSE g : Is(g, n)
<1>3. Is(f, n)
  BY <1>2
<1>4. Along(path, x) = f[n]
  BY Zenon DEF Along, first
<1> HIDE DEF f, n
<1>5. \A k \in 1 .. n : f[k] = next(f, k)
  BY <1>3
<1>6. Travels(first, path[1], x, path[1])
  <2>1. Safe(Begin) /\ Sound(Begin) /\ Begin \in Txs
    BY DEF Inv, Safe, Sound
  <2>2. first \in Hops /\ first.t = Begin /\ first.amount = x
    BY <2>1 DEF first, Hops
  <2>3. OnTheWay(Begin)
    <3>1. ASSUME NEW j \in DOMAIN pools PROVE pools[j].ra * pools[j].rb >= pools[j].ra * pools[j].rb
      <4>1. pools[j].ra \in Nat /\ pools[j].rb \in Nat
        BY <2>1, BeginIs, PoolParts
      <4>2. pools[j].ra * pools[j].rb \in Nat
        BY <4>1, NatMul
      <4> QED BY <4>2
    <3> QED BY <2>1, <3>1, BeginIs DEF OnTheWay
  <2>4. ASSUME NEW c \in Coins
        PROVE  Slack(Begin, c) = Slack(Begin, c) - (IF Code(path[1]) = c THEN x ELSE 0)
                                                 + (IF Code(path[1]) = c THEN x ELSE 0)
    <3>1. Slack(Begin, c) \in Int
      BY <2>1, SlackInt
    <3> QED BY <3>1
  <2> QED BY <2>2, <2>3, <2>4 DEF Travels
<1> DEFINE D == {k \in 1 .. n : ~Travels(f[k], path[1], x, path[k])}
<1>7. D = {}
  <2> SUFFICES ASSUME D # {} PROVE FALSE
    OBVIOUS
  <2>1. PICK k \in D : \A i \in D : k <= i
    <3>1. D \in SUBSET Nat
      BY <1>0
    <3> QED BY <3>1, Least
  <2>2. k # 1
    BY <1>0, <1>5, <1>6
  <2>3. k \in 1 .. n /\ k - 1 \in 1 .. n /\ k - 1 \notin D
    BY <1>0, <2>1, <2>2
  <2>4. Travels(f[k - 1], path[1], x, path[k - 1])
    BY <2>3
  <2>5. f[k] = Hop(f[k - 1], path[k - 1], path[k])
    BY <1>5, <2>2, <2>3
  <2>6. path[k - 1] \in Nat /\ path[k] \in Nat
    BY <1>0, <2>3
  <2>7. Travels(f[k], path[1], x, path[k])
    BY <2>4, <2>5, <2>6, Hopped
  <2> QED BY <2>7
<1>8. n \in 1 .. n
  BY <1>0
<1> QED BY <1>4, <1>7, <1>8 DEF n

\* swap: what the user pays in and what the contract pays out are the hops' amounts.
LEMMA Swapped ==
  ASSUME Inv, NEW u \in Users, NEW payee \in Users, NEW x \in Nat, NEW path \in Seq(Nat),
         Len(path) > 1, Pair(Min({Head(path), Last(path)}), Max({Head(path), Last(path)})),
         NEW r, r = LET h == Along(path, x)
                    IN  Pay(Pay(h.t, u, Admin, Code(Head(path)), x),
                            Admin, payee, Code(Last(path)), h.amount),
         r.ok
  PROVE  Safe(r) /\ Valued(r) /\ r.rewards.open = rewards.open
<1> DEFINE h == Along(path, x)
           n == Len(path)
           a == path[1]
           b == path[n]
           ca == Code(a)
           cb == Code(b)
           t  == h.t
           g  == h.amount
           t1 == Pay(t, u, Admin, ca, x)
           t2 == Pay(t1, Admin, payee, cb, g)
<1>0. Typing /\ Safe(Begin) /\ Sound(Begin) /\ Begin \in Txs
  BY DEF Inv, Safe, Sound
<1>1. Head(path) = a /\ Last(path) = b /\ a \in Nat /\ b \in Nat
  BY DEF Last
<1>2. r = t2
  BY <1>1
<1>3. Travels(h, a, x, b)
  BY AlongTravels
<1>4. ca \in Coins /\ cb \in Coins
  <2> HIDE DEF a, b
  <2>1. Min({a, b}) \in {a, b} /\ Min({a, b}) <= a /\ Min({a, b}) <= b
        /\ Max({a, b}) \in {a, b} /\ Max({a, b}) >= a /\ Max({a, b}) >= b
    <3>1. a \in Int /\ b \in Int
      BY <1>1
    <3> QED BY <3>1, MinOf, MaxOf
  <2>2. Min({a, b}) \in 0 .. Len(codes) - 1 /\ Max({a, b}) \in 0 .. Len(codes) - 1
    BY <1>1 DEF Pair
  <2>3. a \in 0 .. Len(codes) - 1 /\ b \in 0 .. Len(codes) - 1
    BY <1>1, <2>1, <2>2
  <2> QED BY <1>0, <2>3, CodeCoin
<1>5. t \in Txs /\ g \in Nat
  BY <1>3 DEF Travels, Hops
<1> HIDE DEF h, ca, cb
<1>p. /\ t1 \in Txs /\ (t1.ok => t.ok)
      /\ t2.ok => t1.ok
  <2>1. Admin \in Addr /\ u \in Addr /\ payee \in Addr /\ u # Admin /\ payee # Admin
    BY Addresses
  <2> HIDE DEF t, g
  <2>2. t1 \in Txs /\ (t1.ok => t.ok)
    BY <1>4, <1>5, <2>1, Paid
  <2> HIDE DEF t1
  <2>3. t2.ok => t1.ok
    BY <1>4, <1>5, <2>1, <2>2, Paid
  <2> QED BY <2>2, <2>3
<1>6. t.ok /\ t1.ok
  BY <1>2, <1>p
<1>7. /\ OnTheWay(t) /\ Sound(t)
      /\ \A c \in Coins : Slack(t, c) = Slack(Begin, c) - (IF ca = c THEN x ELSE 0)
                                                        + (IF cb = c THEN g ELSE 0)
  BY <1>3, <1>6 DEF Travels, ca, cb, OnTheWay
<1> HIDE DEF t, g, a, b
<1>8. /\ Sound(t1) /\ t1.pools = t.pools /\ t1.own = t.own /\ t1.rewards = t.rewards
      /\ \A c \in Coins : Slack(t1, c) = Slack(t, c) + (IF c = ca THEN x ELSE 0)
  <2>1. Sound(t) /\ ca \in Coins
    BY <1>4, <1>7
  <2>2. /\ Sound(t1) /\ t1.pools = t.pools /\ t1.own = t.own /\ t1.rewards = t.rewards
        /\ t1.ok => \A c \in Coins : Slack(t1, c) = Slack(t, c) + (IF c = ca THEN x ELSE 0)
    BY <2>1, PaidIn
  <2> HIDE DEF t1
  <2> QED BY <1>6, <2>2
<1> HIDE DEF t1
<1>9. /\ Sound(t2) /\ t2.pools = t1.pools /\ t2.own = t1.own /\ t2.rewards = t1.rewards
      /\ \A c \in Coins : Slack(t2, c) = Slack(t1, c) - (IF c = cb THEN g ELSE 0)
  <2>1. Sound(t1) /\ cb \in Coins /\ g \in Nat
    BY <1>4, <1>5, <1>8
  <2>2. /\ Sound(t2) /\ t2.pools = t1.pools /\ t2.own = t1.own /\ t2.rewards = t1.rewards
        /\ t2.ok => \A c \in Coins : Slack(t2, c) = Slack(t1, c) - (IF c = cb THEN g ELSE 0)
    BY <2>1, PaidOut
  <2> HIDE DEF t2
  <2> QED BY <1>2, <2>2
<1> HIDE DEF t2
<1>10. ASSUME NEW c \in Coins PROVE Slack(r, c) >= 0
  <2> DEFINE y == IF c = ca THEN x ELSE 0
             z == IF c = cb THEN g ELSE 0
  <2>1. Slack(t, c) = Slack(Begin, c) - y + z
    BY <1>7
  <2>2. Slack(t1, c) = Slack(t, c) + y /\ Slack(t2, c) = Slack(t1, c) - z
    BY <1>8, <1>9
  <2>3. y \in Nat /\ z \in Nat /\ Slack(Begin, c) \in Int /\ Slack(Begin, c) >= 0
    BY <1>0, <1>5, SlackInt DEF Safe
  <2> HIDE DEF y, z
  <2> QED BY <1>2, <2>1, <2>2, <2>3
<1>11. /\ r.own = own /\ DOMAIN r.pools = DOMAIN pools /\ Sound(r) /\ r.rewards.open = rewards.open
       /\ \A j \in DOMAIN pools :
            /\ r.pools[j].supply = pools[j].supply
            /\ FairFees => r.pools[j].ra * r.pools[j].rb >= pools[j].ra * pools[j].rb
  BY <1>2, <1>7, <1>8, <1>9 DEF OnTheWay
<1>12. ASSUME NEW j \in DOMAIN r.pools PROVE Gap(r, j) = 0
  <2>1. Gap(r, j) = Gap(Begin, j) /\ j \in DOMAIN Begin.pools
    BY <1>11, BeginIs DEF Gap
  <2> QED BY <1>0, <2>1 DEF Safe
<1>13. Valued(r)
  <2> SUFFICES ASSUME FairFees, NEW j \in DOMAIN r.pools
               PROVE  IF j \notin DOMAIN pools \/ pools[j].supply = 0 THEN Covers(r.pools[j])
                      ELSE Grows(pools[j], r.pools[j])
    BY DEF Valued
  <2> DEFINE q == r.pools[j]
             p == pools[j]
             s == q.supply
             m == q.ra * q.rb
             l == p.ra * p.rb
  <2>0. s \in Nat /\ q.ra \in Nat /\ q.rb \in Nat /\ j \in DOMAIN pools
        /\ p.ra \in Nat /\ p.rb \in Nat
    BY <1>0, <1>11, BeginIs, PoolParts DEF Sound
  <2>1. m \in Nat /\ l \in Nat /\ m >= l /\ p.supply = s
    BY <1>11, <2>0, NatMul
  <2>2. Covers(q) <=> s * s <= m
    BY DEF Covers
  <2>3. Grows(p, q) <=> m * s * s >= l * s * s
    BY <2>1 DEF Grows
  <2> HIDE DEF p, q, s, m, l
  <2>4. CASE s = 0
    <3>1. s * s <= m
      BY <2>1, <2>4
    <3>2. p.supply = 0
      BY <2>1, <2>4
    <3> QED BY <2>0, <2>2, <3>1, <3>2 DEF p, q
  <2>5. CASE s # 0
    <3>1. s * s \in Nat
      BY <2>0, NatMul
    <3>2. l * (s * s) <= m * (s * s)
      <4> DEFINE w == s * s
      <4>1. w \in Nat /\ w <= w
        BY <3>1
      <4> HIDE DEF w
      <4>2. l * w <= m * w
        BY <2>1, <4>1, Products
      <4> QED BY <4>2 DEF w
    <3>3. l * s * s = l * (s * s) /\ m * s * s = m * (s * s)
      BY <2>0, <2>1
    <3>4. l * (s * s) \in Nat /\ m * (s * s) \in Nat
      BY <2>1, <3>1, NatMul
    <3>5. Grows(p, q)
      BY <2>3, <3>2, <3>3, <3>4
    <3> QED BY <2>0, <2>1, <2>5, <3>5 DEF p, q
  <2> QED BY <2>4, <2>5
<1> QED BY <1>10, <1>11, <1>12, <1>13 DEF Safe

\* The invariant after a transaction that ended in t.  Currencies may be added.
LEMMA SafeThere ==
  ASSUME NEW t, Safe(t), codes \in Seq(Coins), codes' \in Seq(Coins), Len(codes) <= Len(codes'),
         \A k \in 1 .. Len(codes) : codes'[k] = codes[k],
         pools' = t.pools, rewards' = t.rewards, own' = t.own, coin' = t.coin
  PROVE  Safe(Begin)'
<1> DEFINE z == [ok |-> t.rewards.open, pools |-> t.pools, rewards |-> t.rewards,
                 own |-> t.own, coin |-> t.coin]
<1>1. Begin' = z
  BY DEF Begin
<1>2. Sound(t) /\ t \in Txs /\ t.rewards.open \in BOOLEAN
  BY RewardParts DEF Safe, Sound
<1>3. /\ z \in Txs /\ z.pools = t.pools /\ z.rewards = t.rewards
      /\ z.own = t.own /\ z.coin = t.coin
  BY <1>2, TxParts DEF Txs
<1> HIDE DEF z
<1>4. Sound(z)
  BY <1>2, <1>3, SoundSame
<1>5. Len(codes) \in Nat /\ Len(codes') \in Nat
  OBVIOUS
<1>6. \A i \in DOMAIN z.pools : /\ z.pools[i].a \in Nat /\ z.pools[i].b \in Nat
                                /\ z.pools[i].a < z.pools[i].b /\ z.pools[i].b < Len(codes)
  BY <1>4, PoolParts DEF Sound, Linked
<1>7. ASSUME NEW c \in Coins
      PROVE  Reserved(z.pools, c)' = Reserved(t.pools, c)
  <2>1. ASSUME NEW i \in DOMAIN t.pools PROVE Holding(t.pools[i], c)' = Holding(t.pools[i], c)
    <3> DEFINE a == t.pools[i].a
               b == t.pools[i].b
    <3>1. a \in Nat /\ b \in Nat /\ a < b /\ b < Len(codes)
      BY <1>3, <1>6
    <3> HIDE DEF a, b
    <3>2. codes'[a + 1] = codes[a + 1] /\ codes'[b + 1] = codes[b + 1]
      BY <1>5, <3>1
    <3> QED BY <3>2 DEF Holding, Code, a, b
  <2> QED BY <1>3, <2>1 DEF Reserved
<1>8. Sound(Begin)'
  <2>1. (\A i \in DOMAIN z.pools : z.pools[i].a < z.pools[i].b /\ z.pools[i].b < Len(codes))'
    BY <1>5, <1>6
  <2>2. /\ \A u \in Users : \A k \in DOMAIN z.own[u] :
             /\ z.own[u][k].pool \in DOMAIN z.pools
             /\ \A l \in DOMAIN z.own[u] : z.own[u][l].pool = z.own[u][k].pool => l = k
        /\ \A i \in DOMAIN z.pools : z.pools[i].lp_supply = OfPool(z.own, i, "amount")
        /\ z.rewards.total_alloc = Allocated(z.pools)
    BY <1>4 DEF Sound, Linked, Counted
  <2>3. Linked(z)'
    BY <2>1, <2>2 DEF Linked
  <2>4. Counted(z)'
    BY <2>2 DEF Counted, OfPool, Allocated, Entered
  <2>5. Sound(z)'
    BY <1>3, <2>3, <2>4 DEF Sound
  <2> QED BY <1>1, <2>5
<1>9. ASSUME NEW i \in DOMAIN z.pools PROVE Gap(z, i)' = 0
  <2>1. Gap(t, i) = 0
    BY <1>3 DEF Safe
  <2> QED BY <1>3, <2>1 DEF Gap, OfPool, Entered
<1>10. ASSUME NEW c \in Coins PROVE Slack(z, c)' >= 0
  <2>1. Slack(t, c) >= 0
    BY DEF Safe
  <2> QED BY <1>3, <1>7, <2>1 DEF Slack, Owed
<1>11. Safe(z)'
  BY <1>1, <1>8, <1>9, <1>10 DEF Safe
<1> QED BY <1>1, <1>11

\* What ShareKeepsWorth says of a step.
WorthStep ==
  FairFees => \A i \in DOMAIN pools' :
    LET q == pools'[i]
    IN  IF i \notin DOMAIN pools \/ pools[i].supply = 0
        THEN q.supply * q.supply <= q.ra * q.rb
        ELSE LET p == pools[i]
             IN  q.ra * q.rb * p.supply * p.supply >= p.ra * p.rb * q.supply * q.supply

\* A transaction that keeps what it is to keep is committed to a state of Inv.
LEMMA Committed ==
  ASSUME Inv, NEW t, Safe(t), Valued(t), t.rewards.open = rewards.open, Commit(t), codes' = codes,
         factor' \in Nat \X Nat, FairFees => factor'[1] <= factor'[2], rewarder' \in Addr
  PROVE  Inv' /\ WorthStep
<1>1. Typing /\ codes \in Seq(Coins)
  BY DEF Inv, Typing
<1>2. pools' = t.pools /\ rewards' = t.rewards /\ own' = t.own /\ coin' = t.coin /\ now' = now
      /\ version < MaxVersion /\ version' = version + 1
  BY DEF Commit
<1>3. Safe(Begin)'
  <2>1. Len(codes) <= Len(codes') /\ codes' \in Seq(Coins)
        /\ \A k \in 1 .. Len(codes) : codes'[k] = codes[k]
    BY <1>1
  <2> QED BY <1>1, <1>2, <2>1, SafeThere
<1>4. Typing'
  <2>1. version' \in 0 .. MaxVersion
    BY <1>1, <1>2, ExchangeAssumption DEF Typing
  <2>2. IsInjective(codes)'
    BY <1>1 DEF Typing, IsInjective
  <2> QED BY <1>1, <1>2, <2>1, <2>2 DEF Typing
<1>5. Closed'
  BY <1>2 DEF Inv, Closed
<1>6. WorthStep
  BY <1>2 DEF Valued, Covers, Grows, WorthStep
<1> QED BY <1>3, <1>4, <1>5, <1>6 DEF Inv

\* A transaction that only settles rewards.
LEMMA SettledOnly ==
  ASSUME Inv, NEW t, Settles(Begin, t)
  PROVE  Safe(t) /\ Valued(t) /\ t.rewards.open = rewards.open
<1>1. Safe(Begin) /\ Sound(Begin)
  BY DEF Inv, Safe
<1>2. Safe(t) /\ Sound(t)
  BY <1>1, SafeSettled DEF Settles
<1>3. \A i \in DOMAIN t.pools :
        /\ i \in DOMAIN pools /\ t.pools[i].supply = pools[i].supply
        /\ t.pools[i].ra = pools[i].ra /\ t.pools[i].rb = pools[i].rb
  BY BeginIs DEF Settles
<1>4. Valued(t)
  BY <1>1, <1>2, <1>3, ValueSame
<1> QED BY <1>2, <1>4, BeginIs DEF Settles

\* withdraw_mine_reward, by induction on the entries.
LEMMA ClaimedSettles ==
  ASSUME Inv, NEW u \in Users
  PROVE  Settles(Begin, Claimed(u))
<1> DEFINE n == Len(own[u])
           first == update_pool(Begin)
           next(g, k) == IF k = 0 THEN first ELSE update_user_reward_info(g[k - 1], u, k)
           Is(g, j) == g = [k \in 0 .. j |-> next(g, k)]
           T == {j \in Nat : ~\E g : Is(g, j)}
<1>0. Sound(Begin) /\ now \in Nat /\ own[u] \in Seq(Entries) /\ n \in Nat /\ DOMAIN own[u] = 1 .. n
  <2>1. Sound(Begin) /\ now \in Nat
    BY DEF Inv, Safe, Typing
  <2>2. own[u] \in Seq(Entries)
    BY <2>1, BeginIs, TxParts DEF Sound, Owns
  <2> QED BY <2>1, <2>2
<1> HIDE DEF first
<1>1. T = {}
  <2> SUFFICES ASSUME T # {} PROVE FALSE
    OBVIOUS
  <2>1. PICK j \in T : \A i \in T : j <= i
    BY Least
  <2>2. j # 0
    <3> DEFINE g == [k \in 0 .. 0 |-> first]
    <3>1. g = [k \in 0 .. 0 |-> next(g, k)]
      OBVIOUS
    <3> QED BY <3>1
  <2>3. j - 1 \in Nat /\ j - 1 \notin T
    <3>1. j \in Nat
      BY <2>1
    <3> HIDE DEF T
    <3> QED BY <2>1, <2>2, <3>1
  <2>4. PICK g : Is(g, j - 1)
    BY <2>3
  <2> DEFINE h == [k \in 0 .. j |-> IF k = j THEN next(g, j) ELSE g[k]]
  <2>5. \A k \in 0 .. j : k # j => g[k] = next(g, k)
    BY <2>3, <2>4
  <2>6. \A k \in 0 .. j : k # 0 => h[k - 1] = g[k - 1]
    BY <2>3
  <2>7. \A k \in 0 .. j : h[k] = next(h, k)
    <3> SUFFICES ASSUME NEW k \in 0 .. j PROVE h[k] = next(h, k)
      OBVIOUS
    <3>1. h[k] = next(g, k)
      BY <2>5
    <3>2. k # 0 => h[k - 1] = g[k - 1]
      BY <2>6
    <3> HIDE DEF h
    <3> QED BY <3>1, <3>2
  <2>8. Is(h, j)
    <3>1. h = [k \in 0 .. j |-> h[k]]
      OBVIOUS
    <3> HIDE DEF h
    <3>2. [k \in 0 .. j |-> h[k]] = [k \in 0 .. j |-> next(h, k)]
      BY <2>7
    <3> QED BY <3>1, <3>2
  <2> QED BY <2>8
<1>2. \E g : Is(g, n)
  BY <1>0, <1>1
<1> DEFINE f == CHOOSE g : Is(g, n)
<1>3. Is(f, n)
  BY <1>2
<1>4. Claimed(u) = f[n]
  BY Zenon DEF Claimed, first
<1> HIDE DEF f, n
<1>5. \A k \in 0 .. n : f[k] = next(f, k)
  BY <1>3
<1>6. Settles(Begin, first)
  BY <1>0, PoolUpdated DEF first
<1> DEFINE D == {k \in 0 .. n : ~Settles(Begin, f[k])}
<1>7. D = {}
  <2> SUFFICES ASSUME D # {} PROVE FALSE
    OBVIOUS
  <2>1. PICK k \in D : \A i \in D : k <= i
    <3>1. D \in SUBSET Nat
      BY <1>0
    <3> QED BY <3>1, Least
  <2>2. k # 0
    BY <1>0, <1>5, <1>6
  <2>3. k \in 1 .. n /\ k - 1 \in 0 .. n /\ k - 1 \notin D
    BY <1>0, <2>1, <2>2
  <2>4. Settles(Begin, f[k - 1])
    BY <2>3
  <2>5. f[k] = update_user_reward_info(f[k - 1], u, k)
    BY <1>5, <2>2, <2>3
  <2>6. Sound(f[k - 1]) /\ k \in DOMAIN f[k - 1].own[u]
    BY <1>0, <2>3, <2>4, BeginIs DEF Settles
  <2>7. Settles(f[k - 1], f[k])
    BY <2>5, <2>6, RewardSettles
  <2>8. Settles(Begin, f[k])
    BY <1>0, <2>4, <2>7, SettlesTwice
  <2> QED BY <2>8
<1>8. n \in 0 .. n
  BY <1>0
<1> QED BY <1>4, <1>7, <1>8

\* set_next_rewards: the new balance is paid in; what was left stays with the contract.
Period(t, to, from, rate, balance) ==
  [t EXCEPT !.rewards.end = to, !.rewards.last = from, !.rewards.rate = rate, !.rewards.balance = balance]

InPeriod(t, r, balance) ==
  /\ r \in Txs /\ r.pools = t.pools /\ r.own = t.own /\ r.coin = t.coin /\ r.ok = t.ok
  /\ r.rewards.open = t.rewards.open /\ r.rewards.total_alloc = t.rewards.total_alloc
  /\ r.rewards.balance = balance

\* The record that set_next_rewards ends with, by its fields.
LEMMA PeriodIs ==
  ASSUME NEW t \in Txs, NEW to \in Nat, NEW from \in Nat, NEW rate \in Nat, NEW balance \in Nat
  PROVE  InPeriod(t, Period(t, to, from, rate, balance), balance)
<1> DEFINE v == [t.rewards EXCEPT !.end = to, !.last = from, !.rate = rate, !.balance = balance]
           s == [t EXCEPT !.rewards = v]
<1>1. t.rewards \in Rewards
  BY TxParts
<1>2. Period(t, to, from, rate, balance) = s
  BY <1>1 DEF Period, Txs
<1>3. v \in Rewards /\ v.open = t.rewards.open /\ v.total_alloc = t.rewards.total_alloc
      /\ v.balance = balance
  BY <1>1 DEF Rewards
<1> HIDE DEF v
<1>4. /\ s \in Txs /\ s.rewards = v /\ s.pools = t.pools /\ s.own = t.own /\ s.coin = t.coin
      /\ s.ok = t.ok
  BY <1>3 DEF Txs
<1> HIDE DEF s
<1> QED BY <1>2, <1>3, <1>4 DEF InPeriod

\* set_next_rewards keeps what a transaction is to keep.
LEMMA RewardsSet ==
  ASSUME Inv, NEW u \in Users, NEW balance \in Nat, NEW from \in Nat, NEW to \in Nat, to > from,
         balance \div (to - from) > 0,
         NEW r, r = Pay(Period(update_pool(Begin), to, from, balance \div (to - from) - 1, balance),
                        u, Admin, VLS, balance),
         r.ok
  PROVE  Safe(r) /\ Valued(r) /\ r.rewards.open = rewards.open
<1> DEFINE t == update_pool(Begin)
           m == balance \div (to - from)
           rate == m - 1
           s == Period(t, to, from, rate, balance)
           y == Pay(s, u, Admin, VLS, balance)
<1>0. Sound(Begin) /\ now \in Nat /\ VLS \in Coins
  BY ExchangeAssumption DEF Inv, Safe, Typing
<1>1. Settles(Begin, t)
  BY <1>0, PoolUpdated
<1>2. Safe(t) /\ Valued(t) /\ t.rewards.open = rewards.open /\ Sound(t) /\ t \in Txs
  <2>1. Safe(t) /\ Valued(t) /\ t.rewards.open = rewards.open
    BY <1>1, SettledOnly
  <2> QED BY <2>1 DEF Safe, Sound
<1>3. rate \in Nat
  <2>1. to - from \in Nat \ {0}
    OBVIOUS
  <2>2. m \in Nat
    BY <2>1, NatDiv
  <2>3. m > 0
    OBVIOUS
  <2> HIDE DEF m
  <2> QED BY <2>2, <2>3
<1>4. r = y
  BY Zenon
<1> HIDE DEF t, rate
<1>5. /\ s \in Txs /\ s.pools = t.pools /\ s.own = t.own /\ s.coin = t.coin /\ s.ok = t.ok
      /\ s.rewards.open = t.rewards.open /\ s.rewards.total_alloc = t.rewards.total_alloc
      /\ s.rewards.balance = balance
  <2>1. t \in Txs /\ rate \in Nat
    BY <1>2, <1>3
  <2>2. InPeriod(t, s, balance)
    BY <2>1, PeriodIs, Zenon
  <2> HIDE DEF s
  <2> QED BY <2>2 DEF InPeriod
<1> HIDE DEF s
<1>6. Sound(s)
  BY <1>2, <1>5, SoundSame
<1>7. /\ Sound(y) /\ y.pools = s.pools /\ y.own = s.own /\ y.rewards = s.rewards
      /\ y.ok => \A c \in Coins : Slack(y, c) = Slack(s, c) + (IF c = VLS THEN balance ELSE 0)
  BY <1>0, <1>6, PaidIn
<1> HIDE DEF y
<1>8. ASSUME NEW c \in Coins PROVE Slack(r, c) >= 0
  <2> DEFINE g == IF c = VLS THEN balance ELSE 0
             h == IF c = VLS THEN t.rewards.balance ELSE 0
             w == t.coin[Admin][c]
             v == Reserved(t.pools, c)
  <2>1. w \in Nat /\ v \in Nat /\ g \in Nat /\ h \in Nat
    BY <1>2, SlackInt, RewardParts, ReservedNat, TxParts
  <2>2. Slack(t, c) = w - (v + h) /\ Slack(s, c) = w - (v + g)
    BY <1>5 DEF Slack, Owed
  <2>3. Slack(t, c) >= 0
    BY <1>2 DEF Safe
  <2>4. Slack(r, c) = Slack(s, c) + g
    BY <1>4, <1>7
  <2> HIDE DEF g, h, v, w
  <2> QED BY <2>1, <2>2, <2>3, <2>4
<1>9. ASSUME NEW j \in DOMAIN r.pools PROVE Gap(r, j) = 0
  <2>1. Gap(r, j) = Gap(t, j) /\ j \in DOMAIN t.pools
    BY <1>4, <1>5, <1>7 DEF Gap
  <2> QED BY <1>2, <2>1 DEF Safe
<1>10. Valued(r)
  BY <1>2, <1>4, <1>5, <1>7 DEF Valued
<1> QED BY <1>2, <1>4, <1>5, <1>7, <1>8, <1>9, <1>10 DEF Safe

\* set_pool_alloc_point: the points of one pool and their total change alike.
LEMMA PointsSet ==
  ASSUME Inv, NEW i, i \in DOMAIN pools, NEW x \in Nat,
         NEW r, r = [Begin EXCEPT !.pools[i].alloc = x,
                                  !.rewards.total_alloc = @ - pools[i].alloc + x]
  PROVE  Safe(r) /\ Valued(r) /\ r.rewards.open = rewards.open
<1> DEFINE t == Begin
           q == [t.pools[i] EXCEPT !.alloc = x]
           ps == [t.pools EXCEPT ![i] = q]
           n == t.rewards.total_alloc - pools[i].alloc + x
           v == [t.rewards EXCEPT !.total_alloc = n]
           s == [t EXCEPT !.pools = ps, !.rewards = v]
<1>0. /\ Safe(t) /\ Sound(t) /\ t \in Txs /\ t.pools = pools /\ t.pools \in Seq(Pools)
      /\ t.pools[i] \in Pools /\ t.rewards \in Rewards /\ i \in DOMAIN t.pools
      /\ t.pools[i].alloc \in Nat /\ t.rewards.open = rewards.open
  <2>1. Safe(t) /\ Sound(t) /\ t \in Txs /\ t.pools = pools /\ t.rewards.open = rewards.open
    BY BeginIs DEF Inv, Safe, Sound
  <2> QED BY <2>1, TxParts, PoolParts
<1> HIDE DEF t
<1>1. r = s
  <2>1. r = [t EXCEPT !.pools[i].alloc = x, !.rewards.total_alloc = @ - pools[i].alloc + x]
    BY DEF t
  <2> QED BY <1>0, <2>1 DEF Txs
<1>2. /\ q \in Pools /\ q.alloc = x /\ q.a = t.pools[i].a /\ q.b = t.pools[i].b
      /\ q.supply = t.pools[i].supply /\ q.ra = t.pools[i].ra /\ q.rb = t.pools[i].rb
      /\ q.lp_supply = t.pools[i].lp_supply
  <2> DEFINE p == t.pools[i]
  <2>1. p \in Pools
    BY <1>0
  <2> HIDE DEF p
  <2>2. LET z == [p EXCEPT !.alloc = x]
        IN  /\ z \in Pools /\ z.alloc = x /\ z.a = p.a /\ z.b = p.b
            /\ z.supply = p.supply /\ z.ra = p.ra /\ z.rb = p.rb /\ z.lp_supply = p.lp_supply
    BY <2>1 DEF Pools
  <2> QED BY <2>2 DEF p
<1> HIDE DEF q
<1>3. /\ ps \in Seq(Pools) /\ DOMAIN ps = DOMAIN t.pools /\ ps[i] = q
      /\ \A j \in DOMAIN t.pools \ {i} : ps[j] = t.pools[j]
  BY <1>0, <1>2, PoolPut
<1> HIDE DEF ps
<1>4. \A j \in DOMAIN t.pools :
        /\ ps[j].a = t.pools[j].a /\ ps[j].b = t.pools[j].b /\ ps[j].supply = t.pools[j].supply
        /\ ps[j].ra = t.pools[j].ra /\ ps[j].rb = t.pools[j].rb
        /\ ps[j].lp_supply = t.pools[j].lp_supply
  BY <1>2, <1>3
<1>5. n = Allocated(ps) /\ n \in Nat
  <2>1. Allocated(ps) = Allocated(t.pools) + (ps[i].alloc - t.pools[i].alloc)
    <3>1. /\ t.pools \in Seq(Pools) /\ ps \in Seq(Pools) /\ i \in DOMAIN t.pools
          /\ DOMAIN ps = DOMAIN t.pools /\ \A j \in DOMAIN t.pools \ {i} : ps[j] = t.pools[j]
      BY <1>0, <1>3
    <3> QED BY <3>1, AllocatedChange
  <2>2. t.rewards.total_alloc = Allocated(t.pools)
    BY <1>0 DEF Sound, Counted
  <2>3. Allocated(t.pools) \in Nat /\ Allocated(ps) \in Nat
    BY <1>0, <1>3, AllocatedNat
  <2>4. ps[i].alloc = x /\ pools[i].alloc = t.pools[i].alloc
    BY <1>0, <1>2, <1>3
  <2> QED BY <1>0, <2>1, <2>2, <2>3, <2>4
<1> HIDE DEF n
<1>6. /\ v \in Rewards /\ v.total_alloc = n /\ v.open = t.rewards.open
      /\ v.balance = t.rewards.balance
  BY <1>0, <1>5 DEF Rewards
<1> HIDE DEF v
<1>7. /\ s \in Txs /\ s.pools = ps /\ s.rewards = v /\ s.own = t.own /\ s.coin = t.coin
  BY <1>0, <1>3, <1>6 DEF Txs
<1> HIDE DEF s
<1>8. Sound(s)
  <2>1. Linked(s)
    BY <1>0, <1>3, <1>4, <1>7 DEF Sound, Linked
  <2> QED BY <1>0, <1>3, <1>4, <1>5, <1>6, <1>7, <2>1 DEF Sound, Counted
<1>9. ASSUME NEW c \in Coins PROVE Slack(s, c) >= 0
  <2>1. Reserved(ps, c) = Reserved(t.pools, c)
    BY <1>3, <1>4, ReservedSame DEF Holding
  <2>2. Slack(s, c) = Slack(t, c)
    BY <1>6, <1>7, <2>1 DEF Slack, Owed
  <2> QED BY <1>0, <2>2 DEF Safe
<1>10. ASSUME NEW j \in DOMAIN s.pools PROVE Gap(s, j) = 0
  <2>1. Gap(s, j) = Gap(t, j) /\ j \in DOMAIN t.pools
    BY <1>3, <1>4, <1>7 DEF Gap
  <2> QED BY <1>0, <2>1 DEF Safe
<1>11. Valued(s)
  <2>1. \A j \in DOMAIN s.pools :
          /\ j \in DOMAIN pools => /\ s.pools[j].supply = pools[j].supply
                                   /\ s.pools[j].ra = pools[j].ra /\ s.pools[j].rb = pools[j].rb
          /\ j \notin DOMAIN pools => s.pools[j].supply = 0
    BY <1>0, <1>3, <1>4, <1>7
  <2> QED BY <1>0, <1>8, <2>1, ValueSame DEF t
<1> QED BY <1>0, <1>1, <1>6, <1>7, <1>8, <1>9, <1>10, <1>11 DEF Safe

\* get_reserve: a pool without shares may be new.
LEMMA ReserveGot ==
  ASSUME Inv, NEW a \in 0 .. Len(codes) - 1, NEW b \in 0 .. Len(codes) - 1, a < b, NEW c \in BOOLEAN,
         NEW r, r = Require(get_reserve_internal(Begin, a, b), c)
  PROVE  Safe(r) /\ Valued(r) /\ r.rewards.open = rewards.open
<1> DEFINE t0 == get_reserve_internal(Begin, a, b)
<1>0. Sound(Begin) /\ Typing /\ Safe(Begin) /\ a \in Nat /\ b \in Nat /\ b < Len(codes)
  <2>1. Typing /\ Safe(Begin)
    BY DEF Inv
  <2>2. a \in Nat /\ b \in Nat /\ b < Len(codes)
    BY <2>1, CodeCoin
  <2> QED BY <2>1, <2>2 DEF Safe
<1>2. /\ Sound(t0) /\ t0.own = Begin.own
      /\ t0.rewards.open = Begin.rewards.open
      /\ \A d \in Coins : Slack(t0, d) = Slack(Begin, d)
      /\ \A j \in DOMAIN Begin.pools : j \in DOMAIN t0.pools /\ t0.pools[j] = Begin.pools[j]
      /\ \A j \in DOMAIN t0.pools \ DOMAIN Begin.pools :
           /\ t0.pools[j].supply = 0 /\ t0.pools[j].ra = 0 /\ t0.pools[j].rb = 0
           /\ Gap(t0, j) = 0
  BY <1>0, PoolFound
<1> HIDE DEF t0
<1>3. /\ r \in Txs /\ r.pools = t0.pools /\ r.rewards = t0.rewards /\ r.own = t0.own
      /\ r.coin = t0.coin
  <2>1. t0 \in Txs
    BY <1>2 DEF Sound
  <2>2. r = Require(t0, c)
    BY DEF t0
  <2> QED BY <2>1, <2>2, Required
<1>4. Sound(r)
  BY <1>2, <1>3, SoundSame
<1>5. ASSUME NEW d \in Coins PROVE Slack(r, d) >= 0
  <2>1. Slack(r, d) = Slack(t0, d)
    BY <1>3 DEF Slack, Owed
  <2> QED BY <1>0, <1>2, <2>1 DEF Safe
<1>6. ASSUME NEW j \in DOMAIN r.pools PROVE Gap(r, j) = 0
  <2>1. Gap(r, j) = Gap(t0, j) /\ j \in DOMAIN t0.pools
    BY <1>3 DEF Gap
  <2>2. CASE j \in DOMAIN Begin.pools
    <3>1. Gap(t0, j) = Gap(Begin, j)
      BY <1>2, <2>2 DEF Gap
    <3> QED BY <1>0, <2>1, <2>2, <3>1 DEF Safe
  <2>3. CASE j \notin DOMAIN Begin.pools
    BY <1>2, <2>1, <2>3
  <2> QED BY <2>2, <2>3
<1>7. Valued(r)
  <2>1. \A j \in DOMAIN r.pools :
          /\ j \in DOMAIN pools => /\ r.pools[j].supply = pools[j].supply
                                   /\ r.pools[j].ra = pools[j].ra /\ r.pools[j].rb = pools[j].rb
          /\ j \notin DOMAIN pools => r.pools[j].supply = 0
    BY <1>2, <1>3, BeginIs
  <2> QED BY <1>0, <1>4, <2>1, ValueSame
<1> QED BY <1>2, <1>3, <1>4, <1>5, <1>6, <1>7, BeginIs DEF Safe

----------------------------------------------------------------------------
(* The invariant and the theorems.                                         *)

\* Sums over no pools.
LEMMA NoPools ==
  ASSUME NEW ps, DOMAIN ps = {}
  PROVE  Allocated(ps) = 0 /\ \A c : Reserved(ps, c) = 0
BY SumEmpty DEF Allocated, Reserved

\* The empty chain.
LEMMA InitInv == Init => Inv
<1> SUFFICES ASSUME Init PROVE Inv
  OBVIOUS
<1>1. /\ codes = <<>> /\ pools = <<>> /\ rewards = Unset /\ factor = <<0, 1>> /\ rewarder = Admin
      /\ own = [u \in Users |-> <<>>] /\ now = 1 /\ version = 0
      /\ coin = [a \in Addr |-> IF a = Admin THEN [c \in Coins |-> 0] ELSE Endowment[a]]
  BY DEF Init
<1>2. Typing
  BY <1>1, ExchangeAssumption, Addresses DEF Typing, IsInjective
<1>3. Begin \in Txs
  <2>1. rewards \in Rewards
    BY <1>1 DEF Unset, Rewards
  <2>2. own \in Owns
    BY <1>1 DEF Owns
  <2>3. coin \in Purses
    BY <1>1, ExchangeAssumption DEF Purses, Addr
  <2>4. pools \in Seq(Pools) /\ rewards.open \in BOOLEAN
    BY <1>1 DEF Unset
  <2> QED BY <2>1, <2>2, <2>3, <2>4 DEF Begin, Txs
<1>4. DOMAIN pools = {} /\ \A u \in Users : DOMAIN own[u] = {}
  BY <1>1
<1>5. Allocated(pools) = 0 /\ \A c : Reserved(pools, c) = 0
  BY <1>4, NoPools
<1>6. Sound(Begin)
  <2>1. Linked(Begin)
    BY <1>4, BeginIs DEF Linked
  <2>2. rewards.total_alloc = 0
    BY <1>1 DEF Unset
  <2>3. Counted(Begin)
    BY <1>4, <1>5, <2>2, BeginIs DEF Counted
  <2> QED BY <1>3, <2>1, <2>3 DEF Sound
<1>7. ASSUME NEW c \in Coins PROVE Slack(Begin, c) >= 0
  <2>1. coin[Admin][c] = 0 /\ rewards.balance = 0
    BY <1>1, Addresses DEF Unset
  <2> QED BY <1>5, <2>1, BeginIs DEF Slack, Owed
<1>8. Safe(Begin)
  BY <1>4, <1>6, <1>7, BeginIs DEF Safe
<1> QED BY <1>1, <1>2, <1>8 DEF Inv, Closed

\* initialize: nothing is registered before it.
LEMMA Initialized ==
  ASSUME Inv, NEW admin \in Addr, initialize(admin)
  PROVE  Inv' /\ WorthStep
<1> DEFINE v == [Unset EXCEPT !.open = TRUE, !.end = now, !.last = now]
           t == [ok |-> FALSE, pools |-> pools, rewards |-> v, own |-> own, coin |-> coin]
<1>1. /\ ~rewards.open /\ rewards' = v /\ factor' = <<9997, 10000>> /\ rewarder' = admin
      /\ codes' = codes /\ pools' = pools /\ own' = own /\ coin' = coin /\ now' = now
      /\ version < MaxVersion /\ version' = version + 1
  BY DEF initialize
<1>2. Typing /\ Safe(Begin) /\ Sound(Begin) /\ Begin \in Txs /\ codes = <<>>
  BY <1>1 DEF Inv, Closed, Safe, Sound
<1>3. /\ v \in Rewards /\ v.open = TRUE /\ v.balance = 0 /\ v.total_alloc = 0
  <2>1. now \in Nat
    BY <1>2 DEF Typing
  <2> QED BY <2>1 DEF Unset, Rewards
<1> HIDE DEF v
<1>4. /\ pools \in Seq(Pools) /\ own \in Owns /\ coin \in Purses
      /\ rewards \in Rewards /\ rewards.balance \in Nat
  BY <1>2, BeginIs, TxParts, RewardParts
<1>5. /\ t \in Txs /\ t.pools = pools /\ t.rewards = v /\ t.own = own /\ t.coin = coin
  BY <1>3, <1>4 DEF Txs
<1> HIDE DEF t
<1>6. DOMAIN pools = {}
  <2> SUFFICES ASSUME NEW i \in DOMAIN pools PROVE FALSE
    OBVIOUS
  <2>1. pools[i].a \in Nat /\ pools[i].b \in Nat
    BY <1>2, BeginIs, PoolParts
  <2>2. pools[i].b < Len(codes)
    BY <1>2, BeginIs DEF Sound, Linked
  <2>3. Len(codes) = 0
    BY <1>2
  <2> QED BY <2>1, <2>2, <2>3
<1>7. Allocated(pools) = 0 /\ \A c : Reserved(pools, c) = 0
  BY <1>6, NoPools
<1>8. Sound(t)
  <2>1. Linked(t)
    BY <1>2, <1>5, BeginIs DEF Sound, Linked
  <2>2. Counted(t)
    BY <1>3, <1>5, <1>6, <1>7 DEF Counted
  <2> QED BY <1>5, <2>1, <2>2 DEF Sound
<1>9. ASSUME NEW c \in Coins PROVE Slack(t, c) >= 0
  <2>1. coin[Admin][c] \in Nat
    BY <1>2, BeginIs, SlackInt
  <2> QED BY <1>3, <1>5, <1>7, <2>1 DEF Slack, Owed
<1>10. Safe(t)
  BY <1>5, <1>6, <1>8, <1>9 DEF Safe
<1>11. Safe(Begin)'
  <2>1. Len(codes) <= Len(codes') /\ codes \in Seq(Coins) /\ codes' \in Seq(Coins)
        /\ \A k \in 1 .. Len(codes) : codes'[k] = codes[k]
    BY <1>1, <1>2 DEF Typing
  <2> QED BY <1>1, <1>5, <1>10, <2>1, SafeThere
<1>12. Typing'
  <2>1. version' \in 0 .. MaxVersion
    BY <1>1, <1>2, ExchangeAssumption DEF Typing
  <2>2. IsInjective(codes)'
    BY <1>1, <1>2 DEF Typing, IsInjective
  <2> QED BY <1>1, <1>2, <2>1, <2>2 DEF Typing
<1>13. WorthStep
  BY <1>1, <1>6 DEF WorthStep
<1> QED BY <1>1, <1>3, <1>11, <1>12, <1>13 DEF Inv, Closed

\* add_currency: the pools' currencies keep their numbers.
LEMMA CurrencyAdded ==
  ASSUME Inv, NEW c \in Coins, add_currency(c)
  PROVE  Inv' /\ WorthStep
<1>1. /\ Commit(Begin) /\ codes' = (IF Contains(codes, c) THEN codes ELSE Append(codes, c))
      /\ factor' = factor /\ rewarder' = rewarder
  BY DEF add_currency
<1>2. /\ pools' = pools /\ rewards' = rewards /\ own' = own /\ coin' = coin /\ now' = now
      /\ version < MaxVersion /\ version' = version + 1 /\ rewards.open
  BY <1>1, BeginIs DEF Commit
<1>3. Typing /\ Safe(Begin) /\ Sound(Begin) /\ codes \in Seq(Coins) /\ IsInjective(codes)
  BY DEF Inv, Safe, Typing
<1>4. /\ Len(codes) <= Len(codes') /\ codes' \in Seq(Coins) /\ IsInjective(codes')
      /\ \A k \in 1 .. Len(codes) : codes'[k] = codes[k]
  <2>1. CASE Contains(codes, c)
    BY <1>1, <1>3, <2>1
  <2>2. CASE ~Contains(codes, c)
    <3>1. codes' = Append(codes, c)
      BY <1>1, <2>2
    <3>2. \A k \in DOMAIN codes : codes[k] # c
      BY <1>3, <2>2 DEF Contains
    <3>3. /\ Len(codes') = Len(codes) + 1 /\ Len(codes) \in Nat /\ codes' \in Seq(Coins)
          /\ codes'[Len(codes) + 1] = c
          /\ \A k \in 1 .. Len(codes) : codes'[k] = codes[k]
      BY <1>3, <3>1
    <3>4. IsInjective(codes')
      BY <1>3, <3>2, <3>3 DEF IsInjective
    <3> QED BY <3>3, <3>4
  <2> QED BY <2>1, <2>2
<1>5. Safe(Begin)'
  BY <1>2, <1>3, <1>4, BeginIs, SafeThere
<1>6. Typing'
  <2>1. version' \in 0 .. MaxVersion
    BY <1>2, <1>3, ExchangeAssumption DEF Typing
  <2> QED BY <1>1, <1>2, <1>3, <1>4, <2>1 DEF Typing
<1>7. Valued(Begin)
  <2>1. Begin.pools = pools
    BY BeginIs
  <2>2. \A i \in DOMAIN Begin.pools : i \in DOMAIN pools
    BY <2>1
  <2> QED BY <1>3, <2>1, <2>2, ValueSame
<1>8. WorthStep
  BY <1>2, <1>7, BeginIs DEF Valued, Covers, Grows, WorthStep
<1> QED BY <1>2, <1>5, <1>6, <1>8 DEF Inv, Closed

\* The clock, and steps that change nothing.
LEMMA Untouched ==
  ASSUME Inv, codes' = codes, pools' = pools, rewards' = rewards, factor' = factor,
         rewarder' = rewarder, own' = own, coin' = coin, now' \in 1 .. MaxTime, version' = version
  PROVE  Inv' /\ WorthStep
<1>1. Typing /\ Safe(Begin) /\ Sound(Begin) /\ codes \in Seq(Coins)
  BY DEF Inv, Safe, Typing
<1>2. Safe(Begin)'
  <2>1. Len(codes) <= Len(codes') /\ codes' \in Seq(Coins)
        /\ \A k \in 1 .. Len(codes) : codes'[k] = codes[k]
    BY <1>1
  <2> QED BY <1>1, <2>1, BeginIs, SafeThere
<1>3. Typing'
  BY <1>1 DEF Typing, IsInjective
<1>4. Valued(Begin)
  <2>1. Begin.pools = pools
    BY BeginIs
  <2>2. \A i \in DOMAIN Begin.pools : i \in DOMAIN pools
    BY <2>1
  <2> QED BY <1>1, <2>1, <2>2, ValueSame
<1>5. WorthStep
  BY <1>4, BeginIs DEF Valued, Covers, Grows, WorthStep
<1> QED BY <1>2, <1>3, <1>5 DEF Inv, Closed

\* One call per step of the proof.
LEMMA StepInv == Inv /\ Next => Inv' /\ WorthStep
<1> SUFFICES ASSUME Inv, Next PROVE Inv' /\ WorthStep
  OBVIOUS
<1>0. /\ Typing /\ Sound(Begin) /\ Begin \in Txs /\ codes \in Seq(Coins) /\ now \in Nat
      /\ factor \in Nat \X Nat /\ (FairFees => factor[1] <= factor[2]) /\ rewarder \in Addr
      /\ Settles(Begin, Begin)
  BY SettlesSelf DEF Inv, Safe, Sound, Typing
<1>b. Safe(Begin) /\ Valued(Begin) /\ Begin.rewards.open = rewards.open
  BY <1>0, SettledOnly
<1>1. ASSUME NEW a \in Addr, initialize(a) PROVE Inv' /\ WorthStep
  BY <1>1, Initialized
<1>2. ASSUME NEW a \in Addr, change_rewarder(a) PROVE Inv' /\ WorthStep
  <2>1. Commit(Begin) /\ codes' = codes /\ factor' = factor /\ rewarder' \in Addr
    BY <1>2 DEF change_rewarder
  <2> QED BY <1>0, <1>b, <2>1, Committed
<1>3. ASSUME NEW f \in Fees, set_fee_factor(f) PROVE Inv' /\ WorthStep
  <2>1. Commit(Begin) /\ codes' = codes /\ factor' = f /\ rewarder' = rewarder
    BY <1>3 DEF set_fee_factor
  <2>2. f \in Nat \X Nat /\ (FairFees => f[1] <= f[2])
    BY ExchangeAssumption DEF FairFees
  <2> QED BY <1>0, <1>b, <2>1, <2>2, Committed
<1>4. ASSUME NEW c \in Coins, add_currency(c) PROVE Inv' /\ WorthStep
  BY <1>4, CurrencyAdded
<1>5. ASSUME NEW u \in Users, NEW a \in Numbers, NEW b \in Numbers, NEW x \in Amounts, NEW y \in Amounts,
             add_liquidity(u, a, b, x, y)
      PROVE  Inv' /\ WorthStep
  <2> DEFINE t == AddLiquidity(u, a, b, x, y)
  <2>1. /\ a < b /\ Commit(t) /\ codes' = codes /\ factor' = factor /\ rewarder' = rewarder
    BY <1>5 DEF add_liquidity, Pair
  <2>2. x \in Nat /\ y \in Nat /\ a \in 0 .. Len(codes) - 1 /\ b \in 0 .. Len(codes) - 1
    BY ExchangeAssumption DEF Numbers
  <2>3. t.ok
    BY <2>1 DEF Commit
  <2>4. Safe(t) /\ Valued(t) /\ t.rewards.open = rewards.open
    BY <2>1, <2>2, <2>3, LiquidityAdded
  <2> HIDE DEF t
  <2> QED BY <1>0, <2>1, <2>4, Committed
<1>6. ASSUME NEW u \in Users, NEW i \in DOMAIN pools, NEW l \in Amounts, remove_liquidity(u, i, l)
      PROVE  Inv' /\ WorthStep
  <2> DEFINE t == RemoveLiquidity(u, i, l)
  <2>1. Commit(t) /\ codes' = codes /\ factor' = factor /\ rewarder' = rewarder
    BY <1>6 DEF remove_liquidity
  <2>2. l \in Nat
    BY ExchangeAssumption
  <2>3. t.ok
    BY <2>1 DEF Commit
  <2>4. Safe(t) /\ Valued(t) /\ t.rewards.open = rewards.open
    BY <2>2, <2>3, LiquidityRemoved
  <2> HIDE DEF t
  <2> QED BY <1>0, <2>1, <2>4, Committed
<1>7. ASSUME NEW u \in Users, NEW payee \in Users, NEW x \in Amounts, NEW path \in Paths,
             swap(u, payee, x, path)
      PROVE  Inv' /\ WorthStep
  <2> DEFINE t == LET h == Along(path, x)
                  IN  Pay(Pay(h.t, u, Admin, Code(Head(path)), x),
                          Admin, payee, Code(Last(path)), h.amount)
  <2>1. /\ Len(path) > 1 /\ Pair(Min({Head(path), Last(path)}), Max({Head(path), Last(path)}))
        /\ Commit(t) /\ codes' = codes /\ factor' = factor /\ rewarder' = rewarder
    BY <1>7 DEF swap
  <2>2. x \in Nat /\ path \in Seq(Nat)
    BY ExchangeAssumption
  <2>3. t.ok
    BY <2>1 DEF Commit
  <2>4. Safe(t) /\ Valued(t) /\ t.rewards.open = rewards.open
    <3>1. PICK r : r = t
      OBVIOUS
    <3>2. r = LET h == Along(path, x)
              IN  Pay(Pay(h.t, u, Admin, Code(Head(path)), x),
                      Admin, payee, Code(Last(path)), h.amount)
      BY <3>1
    <3>3. r.ok
      BY <2>3, <3>1
    <3> HIDE DEF t
    <3>4. Safe(r) /\ Valued(r) /\ r.rewards.open = rewards.open
      BY <2>1, <2>2, <3>2, <3>3, Swapped
    <3> QED BY <3>1, <3>4
  <2> HIDE DEF t
  <2> QED BY <1>0, <2>1, <2>4, Committed
<1>8. ASSUME NEW a \in Numbers, NEW b \in Numbers, get_reserve(a, b) PROVE Inv' /\ WorthStep
  <2> DEFINE t0 == get_reserve_internal(Begin, a, b)
             p  == t0.pools[PoolIndex(t0.pools, a, b)]
             c  == coin[Admin][Code(a)] = p.ra /\ coin[Admin][Code(b)] = p.rb
             t  == Require(t0, c)
  <2>1. Pair(a, b) /\ Commit(t) /\ codes' = codes /\ factor' = factor /\ rewarder' = rewarder
    BY <1>8 DEF get_reserve
  <2>2. a < b /\ a \in 0 .. Len(codes) - 1 /\ b \in 0 .. Len(codes) - 1
    BY <2>1 DEF Pair
  <2>3. c \in BOOLEAN
    OBVIOUS
  <2> HIDE DEF c
  <2>4. Safe(t) /\ Valued(t) /\ t.rewards.open = rewards.open
    BY <2>2, <2>3, ReserveGot
  <2> HIDE DEF t
  <2> QED BY <1>0, <2>1, <2>4, Committed
<1>9. ASSUME NEW u \in Users, NEW i \in DOMAIN pools, NEW x \in AllocPoints,
             set_pool_alloc_point(u, i, x)
      PROVE  Inv' /\ WorthStep
  <2> DEFINE t == [Begin EXCEPT !.pools[i].alloc = x,
                                !.rewards.total_alloc = @ - pools[i].alloc + x]
  <2>1. Commit(t) /\ codes' = codes /\ factor' = factor /\ rewarder' = rewarder
    BY <1>9 DEF set_pool_alloc_point
  <2>2. x \in Nat
    BY ExchangeAssumption
  <2>3. Safe(t) /\ Valued(t) /\ t.rewards.open = rewards.open
    <3>1. PICK r : r = t
      OBVIOUS
    <3>2. r = [Begin EXCEPT !.pools[i].alloc = x, !.rewards.total_alloc = @ - pools[i].alloc + x]
      BY <3>1
    <3> HIDE DEF t
    <3>3. Safe(r) /\ Valued(r) /\ r.rewards.open = rewards.open
      BY <2>2, <3>2, PointsSet
    <3> QED BY <3>1, <3>3
  <2> HIDE DEF t
  <2> QED BY <1>0, <2>1, <2>3, Committed
<1>10. ASSUME NEW u \in Users, withdraw_mine_reward(u) PROVE Inv' /\ WorthStep
  <2> DEFINE t == Claimed(u)
  <2>1. Commit(t) /\ codes' = codes /\ factor' = factor /\ rewarder' = rewarder
    BY <1>10 DEF withdraw_mine_reward
  <2>2. Safe(t) /\ Valued(t) /\ t.rewards.open = rewards.open
    BY ClaimedSettles, SettledOnly
  <2> HIDE DEF t
  <2> QED BY <1>0, <2>1, <2>2, Committed
<1>11. ASSUME NEW u \in Users, NEW p \in Periods,
              set_next_rewards(u, p.balance, now + p.from, now + p.to)
       PROVE  Inv' /\ WorthStep
  <2> DEFINE balance == p.balance
             from == now + p.from
             to == now + p.to
             t == Pay(Period(update_pool(Begin), to, from, balance \div (to - from) - 1, balance),
                      u, Admin, VLS, balance)
  <2>1. /\ to > from /\ balance \div (to - from) > 0
        /\ Commit(t) /\ codes' = codes /\ factor' = factor /\ rewarder' = rewarder
    BY <1>11 DEF set_next_rewards, Period
  <2>2. balance \in Nat /\ from \in Nat /\ to \in Nat
    BY <1>0, ExchangeAssumption
  <2>3. t.ok
    BY <2>1 DEF Commit
  <2>4. Safe(t) /\ Valued(t) /\ t.rewards.open = rewards.open
    <3> HIDE DEF balance, from, to
    <3>1. PICK r : r = t
      OBVIOUS
    <3>2. r = Pay(Period(update_pool(Begin), to, from, balance \div (to - from) - 1, balance),
                  u, Admin, VLS, balance)
      BY <3>1
    <3>3. r.ok
      BY <2>3, <3>1
    <3> HIDE DEF t
    <3>4. Safe(r) /\ Valued(r) /\ r.rewards.open = rewards.open
      BY <2>1, <2>2, <3>2, <3>3, RewardsSet
    <3> QED BY <3>1, <3>4
  <2> HIDE DEF t
  <2> QED BY <1>0, <2>1, <2>4, Committed
<1>12. ASSUME Tick PROVE Inv' /\ WorthStep
  <2>1. now' \in 1 .. MaxTime
    BY <1>0, <1>12, ExchangeAssumption DEF Tick, Typing
  <2> QED BY <1>12, <2>1, Untouched DEF Tick
<1> QED BY <1>1, <1>2, <1>3, <1>4, <1>5, <1>6, <1>7, <1>8, <1>9, <1>10, <1>11, <1>12 DEF Next

\* What the theorems follow from.
LEMMA InvAlways == Spec => [][WorthStep]_vars /\ []Inv
<1>1. Inv /\ UNCHANGED vars => Inv'
  <2> SUFFICES ASSUME Inv, UNCHANGED vars PROVE Inv'
    OBVIOUS
  <2>1. now' \in 1 .. MaxTime
    BY DEF Inv, Typing, vars
  <2> QED BY <2>1, Untouched DEF vars
<1> QED BY <1>1, InitInv, StepInv, PTL DEF Spec

\* Every resource keeps its type, pools name registered currencies in order, and no
\* user has two entries for a pool: get_token and get_reserve_internal append only
\* what they did not find.
THEOREM ResourcesTyped == Spec => []TypeOK
<1>1. Inv => TypeOK
  <2> SUFFICES ASSUME Inv PROVE TypeOK
    OBVIOUS
  <2>0. Typing /\ Sound(Begin) /\ Begin \in Txs /\ Linked(Begin)
    BY DEF Inv, Safe, Sound
  <2>1. ASSUME NEW i \in DOMAIN pools
        PROVE  /\ pools[i].a < pools[i].b /\ pools[i].b < Len(codes)
               /\ \A n \in {"a", "b", "supply", "ra", "rb", "lp_supply", "alloc", "acc"} :
                    pools[i][n] \in Nat
    <3>1. pools[i] \in Pools
      BY <2>0, BeginIs, PoolParts
    <3>2. pools[i].a < pools[i].b /\ pools[i].b < Len(codes)
      BY <2>0, BeginIs DEF Linked
    <3> QED BY <3>1, <3>2 DEF Pools
  <2>2. ASSUME NEW u \in Users, NEW k \in DOMAIN own[u]
        PROVE  /\ own[u][k].pool \in DOMAIN pools
               /\ \A n \in {"value", "amount", "reward_debt"} : own[u][k][n] \in Nat
               /\ \A l \in DOMAIN own[u] : own[u][l].pool = own[u][k].pool => l = k
    <3>1. own[u][k] \in Entries
      BY <2>0, BeginIs, EntryParts
    <3>2. own[u][k].pool \in DOMAIN pools
          /\ \A l \in DOMAIN own[u] : own[u][l].pool = own[u][k].pool => l = k
      BY <2>0, BeginIs DEF Linked
    <3> QED BY <3>1, <3>2 DEF Entries
  <2>3. rewards \in Rewards /\ coin \in Purses
    BY <2>0, BeginIs, TxParts
  <2>4. /\ rewards.open \in BOOLEAN
        /\ \A n \in {"end", "last", "balance", "rate", "total_alloc"} : rewards[n] \in Nat
    BY <2>3 DEF Rewards
  <2> QED BY <2>0, <2>1, <2>2, <2>3, <2>4 DEF TypeOK, Typing, Purses
<1> QED BY <1>1, InvAlways, PTL

\* The supply of a pool is the shares of its holders, and what rewards are divided by
\* is what was recorded with them, for any users, currencies, amounts and paths.
THEOREM SharesAreCounted == Spec => []SharesCounted
<1>1. Inv => SharesCounted
  <2> SUFFICES ASSUME Inv PROVE SharesCounted
    OBVIOUS
  <2>1. Sound(Begin) /\ Begin \in Txs /\ Counted(Begin) /\ \A i \in DOMAIN pools : Gap(Begin, i) = 0
    BY BeginIs DEF Inv, Safe, Sound
  <2>2. ASSUME NEW i \in DOMAIN pools PROVE pools[i].supply = OfPool(own, i, "value")
    <3>1. /\ OfPool(own, i, "value") \in Nat /\ pools[i].supply \in Nat
          /\ Gap(Begin, i) = OfPool(own, i, "value") - pools[i].supply
      BY <2>1, BeginIs, GapInt
    <3>2. Gap(Begin, i) = 0
      BY <2>1
    <3> QED BY <3>1, <3>2
  <2> QED BY <2>1, <2>2, BeginIs DEF SharesCounted, Counted
<1> QED BY <1>1, InvAlways, PTL

\* The contract's one account has the reserves of all pools and what is left of the
\* rewards: no reward and no swap is paid out of another pool.
THEOREM CoinsBackPools == Spec => []Backed
<1>1. Inv => Backed
  <2> SUFFICES ASSUME Inv, NEW c \in Coins
               PROVE  coin[Admin][c] >= Reserved(pools, c) + (IF c = VLS THEN rewards.balance ELSE 0)
    BY DEF Backed
  <2>1. Begin \in Txs /\ Slack(Begin, c) >= 0
    BY DEF Inv, Safe, Sound
  <2>2. /\ Owed(Begin, c) \in Nat /\ coin[Admin][c] \in Nat
        /\ Slack(Begin, c) = coin[Admin][c] - Owed(Begin, c)
    BY <2>1, BeginIs, SlackInt
  <2>3. Owed(Begin, c) = Reserved(pools, c) + (IF c = VLS THEN rewards.balance ELSE 0)
    BY BeginIs DEF Owed
  <2>4. coin[Admin][c] >= Owed(Begin, c)
    BY <2>1, <2>2
  <2> QED BY <2>3, <2>4
<1> QED BY <1>1, InvAlways, PTL

\* No mint, burn or swap, along any path and with any fee that is not negative, takes
\* worth from the shares of those who do not call: the product of the reserves keeps
\* up with the square of the supply.
THEOREM SharesKeepWorth == FairFees /\ Spec => ShareKeepsWorth
<1> SUFFICES ASSUME FairFees PROVE Spec => ShareKeepsWorth
  OBVIOUS
<1>1. WorthStep => \A i \in DOMAIN pools' :
        LET q == pools'[i]
        IN  IF i \notin DOMAIN pools \/ pools[i].supply = 0
            THEN q.supply * q.supply <= q.ra * q.rb
            ELSE LET p == pools[i]
                 IN  q.ra * q.rb * p.supply * p.supply >= p.ra * p.rb * q.supply * q.supply
  BY DEF WorthStep
<1> QED BY <1>1, InvAlways, PTL DEF ShareKeepsWorth
=============================================================================
