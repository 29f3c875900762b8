----------------------------- MODULE BankProofs -----------------------------
(***************************************************************************)
(* Proofs about ViolasBank, for any number of users and markets, any       *)
(* amounts, prices, rate models and scale of the mantissas.                *)
(*                                                                         *)
(* Good is the inductive invariant, of the storage s a transaction runs    *)
(* on.  Besides the sums it says that a market which is not there yet is   *)
(* blank (Blank), so that nobody's indexes are ahead of it when it is      *)
(* created, and that the units of a currency have one market, which nobody *)
(* mints in (OneCoin), so that coins back them.  Every call first keeps    *)
(* the books (Keeps: interest, oracle, indexes, incentives), which changes *)
(* nobody's holdings, and then does its own work, from a storage h to a    *)
(* storage r that is Lawful.  Part of that is Covered: who owes more than  *)
(* before has it covered by the collateral in r.  What the contract's own  *)
(* account spends is Orderly only: a market's rate may be lost.            *)
(***************************************************************************)
EXTENDS ViolasBank, SumTheorems, TLAPS

LEMMA MulNat == \A x, y \in Nat : x * y \in Nat
OBVIOUS

LEMMA DivNat ==
  ASSUME NEW x \in Nat, NEW y \in Pos
  PROVE  x \div y \in Nat /\ (x \div y) * y <= x /\ x < (x \div y) * y + y
BY DEF Pos

LEMMA ScalePos == SCALE \in Pos /\ One = SCALE /\ One \in Pos
BY BankAssumption DEF Pos, One, new_mantissa

LEMMA MulIsNat ==
  ASSUME NEW x \in Nat, NEW y \in Nat
  PROVE  mantissa_mul(x, y) \in Nat
<1>1. x * y \in Nat
  BY MulNat
<1> QED BY <1>1, ScalePos, DivNat DEF mantissa_mul

LEMMA DivIsNat ==
  ASSUME NEW x \in Nat, NEW y \in Pos
  PROVE  mantissa_div(x, y) \in Nat /\ new_mantissa(x, y) \in Nat
<1>1. x * SCALE \in Nat
  BY ScalePos, MulNat DEF Pos
<1> QED BY <1>1, DivNat DEF mantissa_div, new_mantissa

LEMMA SubIsNat ==
  ASSUME NEW x \in Nat, NEW y \in Nat
  PROVE  safe_sub(x, y) \in Nat /\ safe_sub(x, y) <= x /\ (y <= x => safe_sub(x, y) = x - y)
BY DEF safe_sub

\* Twentieths of an interest are not more than the interest.
LEMMA PartIsLess ==
  ASSUME NEW x \in Nat
  PROVE  /\ mantissa_mul(x, new_mantissa(1, 20)) \in Nat
         /\ mantissa_mul(x, new_mantissa(1, 20)) <= x
<1> DEFINE k == new_mantissa(1, 20)
           q == mantissa_mul(x, k)
<1>1. k \in Nat /\ k <= SCALE
  BY ScalePos, DivNat, 20 \in Pos, 1 * SCALE = SCALE DEF Pos, new_mantissa
<1>2. q \in Nat
  BY <1>1, MulIsNat
<1>3. q * SCALE <= x * k
  BY <1>1, ScalePos, MulNat, DivNat DEF mantissa_mul
<1>4. x * k <= x * SCALE
  BY <1>1, ScalePos DEF Pos
<1>5. q * SCALE <= x * SCALE
  BY <1>1, <1>2, <1>3, <1>4, ScalePos, MulNat DEF Pos
<1>6. q <= x
  <2> HIDE DEF q, k
  <2> SUFFICES ASSUME x < q PROVE FALSE
    BY <1>2
  <2>1. x + 1 <= q
    BY <1>2
  <2>2. (x + 1) * SCALE <= q * SCALE
    BY <2>1, <1>2, ScalePos DEF Pos
  <2>3. (x + 1) * SCALE = x * SCALE + SCALE
    BY ScalePos DEF Pos
  <2> QED BY <2>2, <2>3, <1>5, <1>2, ScalePos, MulNat DEF Pos
<1> QED BY <1>2, <1>6

----------------------------------------------------------------------------
(* Storage with one part replaced. *)

LEMMA AccSet ==
  ASSUME NEW s \in Storage, NEW a \in Addr, NEW w \in Accounts
  PROVE  LET r == WithAcc(s, a, w) IN
         /\ r \in Storage /\ r.mk = s.mk /\ r.store = s.store /\ r.coin = s.coin
         /\ r.acc[a] = w /\ \A b \in Addr : b # a => r.acc[b] = s.acc[b]
BY DEF Storage, WithAcc

LEMMA MarketsSet ==
  ASSUME NEW s \in Storage, NEW f, DOMAIN f \subseteq Markets, \A m \in DOMAIN f : f[m] \in TokenInfos
  PROVE  LET r == WithMarkets(s, f) IN
         /\ r \in Storage /\ r.acc = s.acc /\ r.store = s.store /\ r.coin = s.coin
         /\ \A m \in Markets : r.mk[m] = IF m \in DOMAIN f THEN f[m] ELSE s.mk[m]
<1> DEFINE g == [m \in Markets |-> IF m \in DOMAIN f THEN f[m] ELSE s.mk[m]]
<1>1. g \in [Markets -> TokenInfos]
  BY DEF Storage
<1>2. WithMarkets(s, f) = [s EXCEPT !.mk = g]
  BY DEF WithMarkets
<1>3. \A m \in Markets : g[m] = IF m \in DOMAIN f THEN f[m] ELSE s.mk[m]
  OBVIOUS
<1> HIDE DEF g
<1> QED BY <1>1, <1>2, <1>3 DEF Storage

LEMMA MkSet ==
  ASSUME NEW s \in Storage, NEW m \in Markets, NEW ti \in TokenInfos
  PROVE  LET r == WithMk(s, m, ti) IN
         /\ r \in Storage /\ r.acc = s.acc /\ r.store = s.store /\ r.coin = s.coin
         /\ r.mk[m] = ti /\ \A k \in Markets : k # m => r.mk[k] = s.mk[k]
<1> DEFINE f == [k \in {m} |-> ti]
           r == WithMarkets(s, f)
<1>1. DOMAIN f = {m} /\ f[m] = ti
  OBVIOUS
<1>2. WithMk(s, m, ti) = r
  BY DEF WithMk
<1> HIDE DEF f
<1>3. /\ r \in Storage /\ r.acc = s.acc /\ r.store = s.store /\ r.coin = s.coin
      /\ \A k \in Markets : r.mk[k] = IF k \in DOMAIN f THEN f[k] ELSE s.mk[k]
  BY <1>1, MarketsSet
<1> HIDE DEF r
<1> QED BY <1>1, <1>2, <1>3

LEMMA CoinSet ==
  ASSUME NEW s \in Storage, NEW c \in Purses
  PROVE  LET r == WithCoin(s, c) IN
         /\ r \in Storage /\ r.acc = s.acc /\ r.store = s.store /\ r.mk = s.mk /\ r.coin = c
BY DEF Storage, WithCoin

LEMMA StoreSet ==
  ASSUME NEW s \in Storage, NEW t \in Stores
  PROVE  LET r == WithStore(s, t) IN
         /\ r \in Storage /\ r.acc = s.acc /\ r.store = t /\ r.mk = s.mk /\ r.coin = s.coin
BY DEF Storage, WithStore

LEMMA Parts ==
  ASSUME NEW s \in Storage
  PROVE  /\ s.mk \in [Markets -> TokenInfos] /\ s.store \in Stores
         /\ s.acc \in [Addr -> Accounts] /\ s.coin \in Purses
         /\ s = [mk |-> s.mk, store |-> s.store, acc |-> s.acc, coin |-> s.coin]
BY DEF Storage

----------------------------------------------------------------------------
(* Bookkeeping: interest, indexes and speeds.                             *)

\* What a step of bookkeeping leaves of a market: its supplies, its currency
\* and its owner; indexes grow, and loans grow by no less than the reserves.
Kept(t, u) ==
  /\ u.owner = t.owner /\ u.coin = t.coin
  /\ u.total_supply = t.total_supply /\ u.lock_supply = t.lock_supply
  /\ t.borrow_index <= u.borrow_index
  /\ t.incentive_supply_index <= u.incentive_supply_index
  /\ t.incentive_borrow_index <= u.incentive_borrow_index
  /\ t.total_borrows + u.total_reserves <= u.total_borrows + t.total_reserves

LEMMA KeptSelf ==
  ASSUME NEW t \in TokenInfos
  PROVE  Kept(t, t)
BY DEF Kept, TokenInfos, Pos

LEMMA KeptTwice ==
  ASSUME NEW t \in TokenInfos, NEW u \in TokenInfos, NEW v \in TokenInfos, Kept(t, u), Kept(u, v)
  PROVE  Kept(t, v)
<1>1. t.borrow_index \in Nat /\ u.borrow_index \in Nat /\ v.borrow_index \in Nat
  BY DEF TokenInfos, Pos
<1>2. /\ t.incentive_supply_index \in Nat /\ u.incentive_supply_index \in Nat
      /\ v.incentive_supply_index \in Nat
  BY DEF TokenInfos, Pos
<1>3. /\ t.incentive_borrow_index \in Nat /\ u.incentive_borrow_index \in Nat
      /\ v.incentive_borrow_index \in Nat
  BY DEF TokenInfos, Pos
<1>4. /\ t.total_borrows \in Nat /\ u.total_borrows \in Nat /\ v.total_borrows \in Nat
      /\ t.total_reserves \in Nat /\ u.total_reserves \in Nat /\ v.total_reserves \in Nat
  BY DEF TokenInfos
<1> QED BY <1>1, <1>2, <1>3, <1>4 DEF Kept

LEMMA AccruedKept ==
  ASSUME NEW t \in TokenInfos, NEW rate \in Nat, now \in Nat
  PROVE  Accrued(t, rate) \in TokenInfos /\ Kept(t, Accrued(t, rate))
<1> DEFINE i == mantissa_mul(t.total_borrows, rate)
           p == mantissa_mul(i, new_mantissa(1, 20))
           g == mantissa_mul(t.borrow_index, rate)
<1>1. /\ t.total_borrows \in Nat /\ t.total_reserves \in Nat /\ t.borrow_index \in Pos
      /\ t.borrow_index \in Nat /\ t.incentive_supply_index \in Nat
      /\ t.incentive_borrow_index \in Nat
  BY DEF TokenInfos, Pos
<1>2. i \in Nat /\ g \in Nat
  BY <1>1, MulIsNat
<1>3. p \in Nat /\ p <= i
  BY <1>2, PartIsLess
<1>4. Accrued(t, rate) = [t EXCEPT !.last_minute = now, !.total_borrows = t.total_borrows + i,
                                   !.total_reserves = t.total_reserves + p,
                                   !.borrow_index = t.borrow_index + g]
  BY DEF Accrued, TokenInfos
<1> HIDE DEF i, p, g
<1>5. t.borrow_index + g \in Pos /\ t.total_borrows + i \in Nat /\ t.total_reserves + p \in Nat
  BY <1>1, <1>2, <1>3 DEF Pos
<1>6. Accrued(t, rate) \in TokenInfos
  <2> DEFINE v == [t EXCEPT !.last_minute = now, !.total_borrows = t.total_borrows + i]
  <2>1. v \in TokenInfos
    BY <1>5 DEF TokenInfos
  <2>2. Accrued(t, rate) = [v EXCEPT !.total_reserves = t.total_reserves + p,
                                     !.borrow_index = t.borrow_index + g]
    BY <1>4
  <2> HIDE DEF v
  <2> QED BY <2>1, <2>2, <1>5 DEF TokenInfos
<1>7. Kept(t, Accrued(t, rate))
  BY <1>1, <1>2, <1>3, <1>4 DEF TokenInfos, Kept
<1> QED BY <1>6, <1>7

LEMMA SupplyIndexKept ==
  ASSUME NEW t \in TokenInfos, now \in Nat
  PROVE  /\ update_incentive_supply_index(t) \in TokenInfos
         /\ Kept(t, update_incentive_supply_index(t))
<1> DEFINE d == safe_sub(now, t.incentive_supply_timestamp)
           ratio == IF t.lock_supply = 0 THEN 0
                    ELSE mantissa_div(t.incentive_speed * d, t.lock_supply)
           u == [t EXCEPT !.incentive_supply_index = t.incentive_supply_index + ratio,
                          !.incentive_supply_timestamp = now]
<1>1. /\ t.incentive_supply_timestamp \in Nat /\ t.incentive_speed \in Nat /\ t.lock_supply \in Nat
      /\ t.incentive_supply_index \in Nat /\ t.incentive_supply_index # 0
  BY DEF TokenInfos, Pos
<1>2. d \in Nat
  BY <1>1, SubIsNat
<1>3. t.incentive_speed * d \in Nat
  BY <1>1, <1>2, MulNat
<1>4. ratio \in Nat
  BY <1>1, <1>3, DivIsNat DEF Pos
<1>5. update_incentive_supply_index(t) = IF d = 0 THEN t ELSE u
  BY DEF update_incentive_supply_index, TokenInfos
<1> HIDE DEF d, ratio
<1>6. t.incentive_supply_index + ratio \in Pos /\ t.incentive_supply_index <= t.incentive_supply_index + ratio
  BY <1>1, <1>4 DEF Pos
<1>7. u \in TokenInfos
  BY <1>6 DEF TokenInfos
<1>8. Kept(t, u)
  BY <1>6 DEF TokenInfos, Kept, Pos
<1> QED BY <1>5, <1>7, <1>8, KeptSelf

LEMMA BorrowIndexKept ==
  ASSUME NEW t \in TokenInfos, now \in Nat
  PROVE  /\ update_incentive_borrow_index(t) \in TokenInfos
         /\ Kept(t, update_incentive_borrow_index(t))
<1> DEFINE d == safe_sub(now, t.incentive_borrow_timestamp)
           b == mantissa_div(t.total_borrows, t.borrow_index)
           ratio == IF b = 0 THEN 0 ELSE mantissa_div(t.incentive_speed * d, b)
           u == [t EXCEPT !.incentive_borrow_index = t.incentive_borrow_index + ratio,
                          !.incentive_borrow_timestamp = now]
<1>1. /\ t.incentive_borrow_timestamp \in Nat /\ t.incentive_speed \in Nat
      /\ t.total_borrows \in Nat /\ t.borrow_index \in Pos
      /\ t.incentive_borrow_index \in Nat /\ t.incentive_borrow_index # 0
  BY DEF TokenInfos, Pos
<1>2. d \in Nat /\ b \in Nat
  BY <1>1, SubIsNat, DivIsNat
<1>3. t.incentive_speed * d \in Nat
  BY <1>1, <1>2, MulNat
<1>4. ratio \in Nat
  BY <1>2, <1>3, DivIsNat DEF Pos
<1>5. update_incentive_borrow_index(t) = IF d = 0 THEN t ELSE u
  BY DEF update_incentive_borrow_index, TokenInfos
<1> HIDE DEF d, b, ratio
<1>6. t.incentive_borrow_index + ratio \in Pos /\ t.incentive_borrow_index <= t.incentive_borrow_index + ratio
  BY <1>1, <1>4 DEF Pos
<1>7. u \in TokenInfos
  BY <1>6 DEF TokenInfos
<1>8. Kept(t, u)
  BY <1>6 DEF TokenInfos, Kept, Pos
<1> QED BY <1>5, <1>7, <1>8, KeptSelf

\* What the bookkeeping of the markets keeps of the storage: no account and no
\* purse, and nothing of the markets that do not exist, is touched.
Books(s, r) ==
  /\ r \in Storage
  /\ r.acc = s.acc /\ r.coin = s.coin /\ r.store.disabled = s.store.disabled
  /\ \A m \in Markets : Kept(s.mk[m], r.mk[m])
  /\ \A m \in Markets \ Live : r.mk[m] = s.mk[m]

LEMMA BooksSelf ==
  ASSUME NEW s \in Storage
  PROVE  Books(s, s)
BY KeptSelf, Parts DEF Books

LEMMA BooksTwice ==
  ASSUME NEW s \in Storage, NEW r, NEW q, Books(s, r), Books(r, q)
  PROVE  Books(s, q)
<1>1. r \in Storage /\ q \in Storage
  BY DEF Books
<1>2. ASSUME NEW m \in Markets PROVE Kept(s.mk[m], q.mk[m])
  <2>1. s.mk[m] \in TokenInfos /\ r.mk[m] \in TokenInfos /\ q.mk[m] \in TokenInfos
    BY <1>1, Parts
  <2> QED BY <2>1, KeptTwice DEF Books
<1> QED BY <1>1, <1>2 DEF Books

LEMMA BooksOfMarket ==
  ASSUME NEW s \in Storage, NEW m \in Live, n \in 0 .. MaxMarkets,
         NEW u \in TokenInfos, Kept(s.mk[m], u)
  PROVE  Books(s, WithMk(s, m, u))
<1>1. m \in Markets
  BY BankAssumption DEF Live, Markets
<1>2. \A k \in Markets : Kept(s.mk[k], s.mk[k])
  BY Parts, KeptSelf
<1> DEFINE r == WithMk(s, m, u)
<1>3. /\ r \in Storage /\ r.acc = s.acc /\ r.store = s.store /\ r.coin = s.coin
      /\ r.mk[m] = u /\ \A k \in Markets : k # m => r.mk[k] = s.mk[k]
  BY <1>1, MkSet
<1> HIDE DEF r
<1>4. Books(s, r)
  BY <1>1, <1>2, <1>3 DEF Books
<1> QED BY <1>4 DEF r

LEMMA BooksOfStore ==
  ASSUME NEW s \in Storage, NEW t \in Stores, t.disabled = s.store.disabled
  PROVE  Books(s, WithStore(s, t))
<1>1. \A k \in Markets : Kept(s.mk[k], s.mk[k])
  BY Parts, KeptSelf
<1> QED BY <1>1, StoreSet DEF Books

LEMMA BooksOfMarkets ==
  ASSUME NEW s \in Storage, n \in 0 .. MaxMarkets, NEW f, DOMAIN f = Live,
         \A m \in Live : f[m] \in TokenInfos /\ Kept(s.mk[m], f[m])
  PROVE  Books(s, WithMarkets(s, f))
<1>1. Live \subseteq Markets
  BY BankAssumption DEF Live, Markets
<1>2. \A k \in Markets : Kept(s.mk[k], s.mk[k])
  BY Parts, KeptSelf
<1> DEFINE r == WithMarkets(s, f)
<1>3. /\ r \in Storage /\ r.acc = s.acc /\ r.store = s.store /\ r.coin = s.coin
      /\ \A m \in Markets : r.mk[m] = IF m \in Live THEN f[m] ELSE s.mk[m]
  BY <1>1, MarketsSet
<1> HIDE DEF r
<1>4. Books(s, r)
  BY <1>1, <1>2, <1>3 DEF Books
<1> QED BY <1>4 DEF r

LEMMA RateIsNat ==
  ASSUME NEW s \in Storage, NEW m \in Markets
  PROVE  borrow_rate(s, m) \in Nat
<1> DEFINE t == s.mk[m]
<1>1. /\ t.total_borrows \in Nat /\ t.total_reserves \in Nat /\ t.rate_kink \in Nat
      /\ t.rate_multiplier \in Nat /\ t.rate_jump_multiplier \in Nat /\ t.base_rate \in Nat
  BY Parts DEF TokenInfos
<1>2. Cash(s, m) \in Nat
  BY Parts, BankAssumption DEF Cash, Accounts, Addr
<1>3. utilization(s, m) \in Nat
  <2> DEFINE d == t.total_borrows + safe_sub(Cash(s, m), t.total_reserves)
  <2>1. d \in Nat /\ (t.total_borrows # 0 => d \in Pos)
    <3>1. safe_sub(Cash(s, m), t.total_reserves) \in Nat
      BY <1>1, <1>2, SubIsNat
    <3> QED BY <1>1, <3>1 DEF Pos
  <2>2. utilization(s, m) = IF t.total_borrows = 0 THEN 0 ELSE new_mantissa(t.total_borrows, d)
    BY DEF utilization
  <2> HIDE DEF d, t
  <2> QED BY <1>1, <2>1, <2>2, DivIsNat
<1> DEFINE u == utilization(s, m)
<1>4. borrow_rate(s, m) =
        IF u <= t.rate_kink
          THEN mantissa_mul(t.rate_multiplier, u) + t.base_rate
          ELSE mantissa_mul(t.rate_jump_multiplier, u - t.rate_kink)
               + mantissa_mul(t.rate_multiplier, t.rate_kink) + t.base_rate
  BY DEF borrow_rate
<1> HIDE DEF t, u
<1>5. u \in Nat
  BY <1>3 DEF u
<1>6. mantissa_mul(t.rate_multiplier, u) \in Nat /\ mantissa_mul(t.rate_multiplier, t.rate_kink) \in Nat
  BY <1>1, <1>5, MulIsNat
<1>7. ~(u <= t.rate_kink) => mantissa_mul(t.rate_jump_multiplier, u - t.rate_kink) \in Nat
  <2>1. ~(u <= t.rate_kink) => u - t.rate_kink \in Nat
    BY <1>1, <1>5
  <2> QED BY <1>1, <2>1, MulIsNat
<1> QED BY <1>1, <1>4, <1>6, <1>7

LEMMA AccrueKeeps ==
  ASSUME NEW s \in Storage, NEW m \in Live, n \in 0 .. MaxMarkets, now \in Nat
  PROVE  Books(s, accrue_interest(s, m))
<1>1. m \in Markets
  BY BankAssumption DEF Live, Markets
<1> DEFINE rate == borrow_rate(s, m) * safe_sub(now, s.mk[m].last_minute)
<1>2. s.mk[m] \in TokenInfos /\ s.mk[m].last_minute \in Nat
  BY <1>1, Parts DEF TokenInfos
<1>3. rate \in Nat
  BY <1>1, <1>2, RateIsNat, SubIsNat, MulNat
<1>4. accrue_interest(s, m) = WithMk(s, m, Accrued(s.mk[m], rate))
  BY DEF accrue_interest
<1> HIDE DEF rate
<1> QED BY <1>2, <1>3, <1>4, AccruedKept, BooksOfMarket

LEMMA UpdatesKeep ==
  ASSUME NEW s \in Storage, NEW m \in Live, n \in 0 .. MaxMarkets, now \in Nat
  PROVE  Books(s, UpdateSupplyIndex(s, m)) /\ Books(s, UpdateBorrowIndex(s, m))
<1>1. m \in Markets
  BY BankAssumption DEF Live, Markets
<1>2. s.mk[m] \in TokenInfos
  BY <1>1, Parts
<1> QED BY <1>2, SupplyIndexKept, BorrowIndexKept, BooksOfMarket
        DEF UpdateSupplyIndex, UpdateBorrowIndex

LEMMA LiveFinite ==
  ASSUME n \in 0 .. MaxMarkets
  PROVE  IsFiniteSet(Live) /\ Live \subseteq Markets
<1>1. n \in Nat
  BY BankAssumption
<1>2. Live \subseteq Markets
  BY BankAssumption DEF Live, Markets
<1> QED BY <1>1, <1>2, FS_Interval DEF Live

LEMMA IndexesKept ==
  ASSUME NEW s \in Storage, n \in 0 .. MaxMarkets, now \in Nat
  PROVE  Books(s, UpdateIndexes(s))
<1> DEFINE new(m) == update_incentive_borrow_index(update_incentive_supply_index(s.mk[m]))
           f == [m \in Live |-> new(m)]
<1>1. ASSUME NEW m \in Live PROVE f[m] \in TokenInfos /\ Kept(s.mk[m], f[m])
  <2> DEFINE t == s.mk[m]
             u == update_incentive_supply_index(t)
             v == update_incentive_borrow_index(u)
  <2>1. t \in TokenInfos
    BY Parts, LiveFinite
  <2> HIDE DEF t
  <2>2. u \in TokenInfos /\ Kept(t, u)
    BY <2>1, SupplyIndexKept
  <2> HIDE DEF u
  <2>3. v \in TokenInfos /\ Kept(u, v)
    BY <2>2, BorrowIndexKept
  <2> HIDE DEF v
  <2>4. Kept(t, v)
    BY <2>1, <2>2, <2>3, KeptTwice
  <2>5. f[m] = v
    BY DEF v, u, t
  <2> QED BY <2>3, <2>4, <2>5 DEF t
<1>2. DOMAIN f = Live /\ UpdateIndexes(s) = WithMarkets(s, f)
  BY DEF UpdateIndexes
<1> HIDE DEF f
<1> QED BY <1>1, <1>2, BooksOfMarkets

LEMMA SpeedsKept ==
  ASSUME NEW s \in Storage, n \in 0 .. MaxMarkets, NEW total \in Nat
  PROVE  Books(s, WithSpeeds(s, total))
<1> DEFINE share(m) == Share(s.store.incentive_rate, utility(s, m), total)
           f == [m \in Live |-> [s.mk[m] EXCEPT !.incentive_speed = share(m)]]
<1>1. ASSUME NEW m \in Live PROVE f[m] \in TokenInfos /\ Kept(s.mk[m], f[m])
  <2> DEFINE t == s.mk[m]
  <2>1. t \in TokenInfos /\ t.total_borrows \in Nat /\ t.price \in Nat /\ s.store.incentive_rate \in Nat
    BY Parts, LiveFinite DEF TokenInfos, Stores
  <2>2. utility(s, m) \in Nat
    BY <2>1, MulIsNat DEF utility
  <2>3. share(m) \in Nat
    BY <2>1, <2>2, DivIsNat, MulIsNat DEF Share, Pos
  <2>4. f[m] = [t EXCEPT !.incentive_speed = share(m)]
    OBVIOUS
  <2> HIDE DEF share, f
  <2>5. f[m] \in TokenInfos
    BY <2>1, <2>3, <2>4 DEF TokenInfos
  <2>6. Kept(t, f[m])
    BY <2>1, <2>4 DEF TokenInfos, Kept, Pos
  <2> QED BY <2>5, <2>6
<1>2. DOMAIN f = Live /\ WithSpeeds(s, total) = WithMarkets(s, f)
  BY DEF WithSpeeds
<1> HIDE DEF f
<1> QED BY <1>1, <1>2, BooksOfMarkets

LEMMA RefreshKeeps ==
  ASSUME NEW s \in Storage, n \in 0 .. MaxMarkets, now \in Nat
  PROVE  Books(s, refresh_incentive_speeds(s))
<1> DEFINE r == UpdateIndexes(s)
           f == [m \in Live |-> utility(r, m)]
           total == SumFunctionOnSet(f, Live)
<1>1. Books(s, r) /\ r \in Storage
  BY IndexesKept DEF Books
<1>2. refresh_incentive_speeds(s) = WithSpeeds(r, total)
  BY DEF refresh_incentive_speeds, SplitRate
<1> HIDE DEF r
<1>3. ASSUME NEW m \in Live PROVE f[m] \in Nat
  <2>1. r.mk[m].total_borrows \in Nat /\ r.mk[m].price \in Nat
    BY <1>1, Parts, LiveFinite DEF TokenInfos
  <2>2. f[m] = utility(r, m)
    OBVIOUS
  <2> QED BY <2>1, <2>2, MulIsNat DEF utility
<1> HIDE DEF f
<1>4. total \in Nat
  BY <1>3, LiveFinite, SumNat
<1> HIDE DEF total
<1>5. Books(r, WithSpeeds(r, total))
  BY <1>1, <1>4, SpeedsKept
<1> QED BY <1>1, <1>2, <1>5, BooksTwice

LEMMA AtRateKeeps ==
  ASSUME NEW s \in Storage, NEW rate \in Nat, NEW t \in Nat
  PROVE  Books(s, AtRate(s, rate, t))
<1> DEFINE u == [s.store EXCEPT !.incentive_rate = rate, !.rate_last_minute = t]
<1>1. u \in Stores /\ u.disabled = s.store.disabled
  BY Parts DEF Stores
<1> QED BY <1>1, BooksOfStore DEF AtRate

LEMMA RefreshedKeeps ==
  ASSUME NEW s \in Storage, now \in Nat
  PROVE  Books(s, Refreshed(s))
<1> DEFINE u == [s.store EXCEPT !.refresh_last_minute = now]
<1>1. u \in Stores /\ u.disabled = s.store.disabled
  BY Parts DEF Stores
<1> QED BY <1>1, BooksOfStore DEF Refreshed

LEMMA CheckKeeps ==
  ASSUME NEW s \in Storage, n \in 0 .. MaxMarkets, now \in Nat
  PROVE  Books(s, check_for_incentive_speeds_refresh(s))
<1>1. ASSUME NEW r \in Storage PROVE Books(r, RefreshWhenDue(r))
  <2> DEFINE q == refresh_incentive_speeds(r)
  <2>1. Books(r, q) /\ q \in Storage
    BY RefreshKeeps DEF Books
  <2> HIDE DEF q
  <2>2. Books(r, Refreshed(q))
    BY <2>1, RefreshedKeeps, BooksTwice
  <2> QED BY <2>2, BooksSelf DEF RefreshWhenDue, q
<1>2. ASSUME NEW r \in Storage PROVE Books(r, ExpireRate(r))
  <2> DEFINE q == AtRate(r, 0, 0)
  <2>1. Books(r, q) /\ q \in Storage
    BY AtRateKeeps DEF Books
  <2> HIDE DEF q
  <2>2. Books(r, refresh_incentive_speeds(q))
    BY <2>1, RefreshKeeps, BooksTwice
  <2> QED BY <2>2, BooksSelf DEF ExpireRate, q
<1> DEFINE r == RefreshWhenDue(s)
<1>3. Books(s, r) /\ r \in Storage
  BY <1>1 DEF Books
<1> HIDE DEF r
<1>4. Books(s, ExpireRate(r))
  BY <1>2, <1>3, BooksTwice
<1> QED BY <1>4 DEF check_for_incentive_speeds_refresh, r

LEMMA SetRateKeeps ==
  ASSUME NEW s \in Storage, n \in 0 .. MaxMarkets, now \in Nat, NEW rate \in Nat
  PROVE  Books(s, SetRate(s, rate))
<1> DEFINE r == AtRate(s, rate \div RateDiv, now)
<1>1. rate \div RateDiv \in Nat
  BY BankAssumption, DivNat DEF Pos
<1>2. Books(s, r) /\ r \in Storage
  BY <1>1, AtRateKeeps DEF Books
<1>3. SetRate(s, rate) = refresh_incentive_speeds(r)
  BY DEF SetRate
<1> HIDE DEF r
<1> QED BY <1>2, <1>3, RefreshKeeps, BooksTwice

----------------------------------------------------------------------------
(* The inductive invariant, of a storage s.                               *)

Held(s, m) == SumFunctionOnSet([a \in Addr |-> s.acc[a].val[m]], Addr)
Locked(s, m) == SumFunctionOnSet([a \in Addr |-> s.acc[a].lock[m]], Addr)

\* The tokens and the bank tokens of every market add up.
Conserved(s) ==
  \A m \in Markets : Held(s, m) = s.mk[m].total_supply /\ Locked(s, m) = s.mk[m].lock_supply

\* No account's index is ahead of its market's.
Sane(s) ==
  \A a \in Addr, m \in Markets :
    /\ One <= s.acc[a].interest_index[m] /\ s.acc[a].interest_index[m] <= s.mk[m].borrow_index
    /\ One <= s.acc[a].supply_index[m]
    /\ s.acc[a].supply_index[m] <= s.mk[m].incentive_supply_index
    /\ One <= s.acc[a].borrow_index[m]
    /\ s.acc[a].borrow_index[m] <= s.mk[m].incentive_borrow_index

\* A market that does not exist yet is as create_token will make it.
Blank(s) ==
  \A m \in Markets \ Live :
    /\ s.mk[m].total_supply = 0 /\ s.mk[m].lock_supply = 0
    /\ s.mk[m].borrow_index = One
    /\ s.mk[m].incentive_supply_index = One /\ s.mk[m].incentive_borrow_index = One

\* A currency has at most one market, which nobody may mint in.
OneCoin(s) ==
  /\ \A m \in Live : s.mk[m].coin # Nothing => s.mk[m].owner = Nothing
  /\ \A m, k \in Live : m # k /\ s.mk[m].coin # Nothing => s.mk[k].coin # s.mk[m].coin

Backed(s) ==
  \A m \in Live :
    s.mk[m].coin \notin {Nothing, VLS} => s.coin[Bank][s.mk[m].coin] >= s.mk[m].total_supply

Good(s) == Conserved(s) /\ Sane(s) /\ Blank(s) /\ OneCoin(s) /\ Backed(s)

\* What the bookkeeping leaves of an account.
SameHoldings(w, v) ==
  /\ v.val = w.val /\ v.lock = w.lock /\ v.principal = w.principal
  /\ v.interest_index = w.interest_index

\* What everything before an operation's own work keeps: incentives are paid
\* in VLS, and accounts catch up with the indexes.
Keeps(s, r) ==
  /\ r \in Storage /\ r.store.disabled = s.store.disabled
  /\ \A a \in Addr : SameHoldings(s.acc[a], r.acc[a])
  /\ \A m \in Markets : Kept(s.mk[m], r.mk[m])
  /\ \A m \in Markets \ Live : r.mk[m] = s.mk[m]
  /\ \A a \in Addr, c \in Coins \ {VLS} : r.coin[a][c] = s.coin[a][c]
  /\ Sane(s) => Sane(r)

LEMMA BankAddr == Bank \in Addr /\ Users \subseteq Addr /\ Bank \notin Users /\ VlsAdmin \in Addr
BY BankAssumption DEF Addr

LEMMA AddrFinite == IsFiniteSet(Addr)
BY BankAssumption, FS_Singleton, FS_Union DEF Addr

LEMMA Numbers ==
  ASSUME NEW s \in Storage, NEW m \in Markets, NEW a \in Addr
  PROVE  /\ s.mk[m] \in TokenInfos /\ s.acc[a] \in Accounts
         /\ s.mk[m].total_supply \in Nat /\ s.mk[m].lock_supply \in Nat
         /\ s.mk[m].total_borrows \in Nat /\ s.mk[m].total_reserves \in Nat
         /\ s.mk[m].borrow_index \in Pos /\ s.mk[m].incentive_supply_index \in Pos
         /\ s.mk[m].incentive_borrow_index \in Pos
         /\ s.mk[m].price \in Nat /\ s.mk[m].coin \in Coins \cup {Nothing}
         /\ s.acc[a].val[m] \in Nat /\ s.acc[a].lock[m] \in Nat /\ s.acc[a].principal[m] \in Nat
         /\ s.acc[a].interest_index[m] \in Pos /\ s.acc[a].supply_index[m] \in Pos
         /\ s.acc[a].borrow_index[m] \in Pos
         /\ \A c \in Coins : s.coin[a][c] \in Nat
<1>1. s.mk[m] \in TokenInfos /\ s.acc[a] \in Accounts /\ s.coin \in Purses
  BY Parts
<1>2. \A t \in TokenInfos :
        /\ t.total_supply \in Nat /\ t.lock_supply \in Nat
        /\ t.total_borrows \in Nat /\ t.total_reserves \in Nat
        /\ t.borrow_index \in Pos /\ t.incentive_supply_index \in Pos
        /\ t.incentive_borrow_index \in Pos
        /\ t.price \in Nat /\ t.coin \in Coins \cup {Nothing}
  BY DEF TokenInfos
<1>3. \A w \in Accounts :
         /\ w.val[m] \in Nat /\ w.lock[m] \in Nat /\ w.principal[m] \in Nat
         /\ w.interest_index[m] \in Pos /\ w.supply_index[m] \in Pos
         /\ w.borrow_index[m] \in Pos
  BY DEF Accounts
<1>4. \A c \in Coins : s.coin[a][c] \in Nat
  BY <1>1 DEF Purses
<1> QED BY <1>1, <1>2, <1>3, <1>4

\* Markets whose indexes grow leave accounts that are not touched sane.
LEMMA SaneGrows ==
  ASSUME NEW s \in Storage, NEW r \in Storage, r.acc = s.acc, Sane(s),
         \A m \in Markets : Kept(s.mk[m], r.mk[m])
  PROVE  Sane(r)
<1> SUFFICES ASSUME NEW a \in Addr, NEW m \in Markets
             PROVE  /\ One <= s.acc[a].interest_index[m]
                    /\ s.acc[a].interest_index[m] <= r.mk[m].borrow_index
                    /\ One <= s.acc[a].supply_index[m]
                    /\ s.acc[a].supply_index[m] <= r.mk[m].incentive_supply_index
                    /\ One <= s.acc[a].borrow_index[m]
                    /\ s.acc[a].borrow_index[m] <= r.mk[m].incentive_borrow_index
  BY DEF Sane
<1>1. /\ s.acc[a].interest_index[m] \in Nat /\ s.mk[m].borrow_index \in Nat
      /\ r.mk[m].borrow_index \in Nat
      /\ s.acc[a].supply_index[m] \in Nat /\ s.mk[m].incentive_supply_index \in Nat
      /\ r.mk[m].incentive_supply_index \in Nat
      /\ s.acc[a].borrow_index[m] \in Nat /\ s.mk[m].incentive_borrow_index \in Nat
      /\ r.mk[m].incentive_borrow_index \in Nat
  BY Numbers DEF Pos
<1> QED BY <1>1 DEF Sane, Kept

LEMMA BooksKeep ==
  ASSUME NEW s \in Storage, NEW r, Books(s, r)
  PROVE  Keeps(s, r)
BY SaneGrows DEF Books, Keeps, SameHoldings

LEMMA KeepsTwice ==
  ASSUME NEW s \in Storage, NEW r, NEW q, Keeps(s, r), Keeps(r, q)
  PROVE  Keeps(s, q)
<1>1. r \in Storage /\ q \in Storage
  BY DEF Keeps
<1>2. ASSUME NEW m \in Markets PROVE Kept(s.mk[m], q.mk[m])
  <2>1. s.mk[m] \in TokenInfos /\ r.mk[m] \in TokenInfos /\ q.mk[m] \in TokenInfos
    BY <1>1, Parts
  <2> QED BY <2>1, KeptTwice DEF Keeps
<1>3. \A a \in Addr : SameHoldings(s.acc[a], q.acc[a])
  BY DEF Keeps, SameHoldings
<1> QED BY <1>1, <1>2, <1>3 DEF Keeps

LEMMA KeepsGood ==
  ASSUME NEW s \in Storage, NEW r, Keeps(s, r), Good(s), n \in 0 .. MaxMarkets
  PROVE  Good(r)
<1>1. Conserved(r)
  <2> SUFFICES ASSUME NEW m \in Markets
               PROVE  Held(r, m) = r.mk[m].total_supply /\ Locked(r, m) = r.mk[m].lock_supply
    BY DEF Conserved
  <2>1. [a \in Addr |-> r.acc[a].val[m]] = [a \in Addr |-> s.acc[a].val[m]]
    BY DEF Keeps, SameHoldings
  <2>2. [a \in Addr |-> r.acc[a].lock[m]] = [a \in Addr |-> s.acc[a].lock[m]]
    BY DEF Keeps, SameHoldings
  <2> QED BY <2>1, <2>2 DEF Good, Conserved, Held, Locked, Keeps, Kept
<1>2. Blank(r)
  BY DEF Good, Blank, Keeps
<1>3. OneCoin(r)
  BY LiveFinite DEF Good, OneCoin, Keeps, Kept
<1>4. Backed(r)
  <2> SUFFICES ASSUME NEW m \in Live, r.mk[m].coin \notin {Nothing, VLS}
               PROVE  r.coin[Bank][r.mk[m].coin] >= r.mk[m].total_supply
    BY DEF Backed
  <2>1. m \in Markets /\ r.mk[m].coin = s.mk[m].coin /\ r.mk[m].total_supply = s.mk[m].total_supply
    BY LiveFinite DEF Keeps, Kept
  <2>2. s.mk[m].coin \in Coins \ {VLS}
    BY <2>1, Numbers, BankAddr
  <2>3. r.coin[Bank][s.mk[m].coin] = s.coin[Bank][s.mk[m].coin]
    BY <2>2, BankAddr DEF Keeps
  <2> QED BY <2>1, <2>2, <2>3 DEF Good, Backed
<1> QED BY <1>1, <1>2, <1>3, <1>4 DEF Good, Keeps

LEMMA ExtendKeeps ==
  ASSUME NEW s \in Storage, NEW a \in Addr, n \in 0 .. MaxMarkets
  PROVE  Keeps(s, extend_user_tokens(s, a))
<1> DEFINE w == Extended(s.acc[a])
           r == WithAcc(s, a, w)
<1>1. s.acc[a] \in Accounts /\ n \in Nat
  BY Parts, BankAssumption
<1>2. /\ w \in Accounts /\ SameHoldings(s.acc[a], w)
      /\ w.supply_index = s.acc[a].supply_index /\ w.borrow_index = s.acc[a].borrow_index
  BY <1>1 DEF Extended, Accounts, SameHoldings
<1> HIDE DEF w
<1>3. /\ r \in Storage /\ r.mk = s.mk /\ r.store = s.store /\ r.coin = s.coin
      /\ r.acc[a] = w /\ \A b \in Addr : b # a => r.acc[b] = s.acc[b]
  BY <1>2, AccSet
<1>4. extend_user_tokens(s, a) = r
  BY DEF extend_user_tokens, w
<1> HIDE DEF r
<1>5. \A b \in Addr : /\ SameHoldings(s.acc[b], r.acc[b])
                      /\ r.acc[b].supply_index = s.acc[b].supply_index
                      /\ r.acc[b].borrow_index = s.acc[b].borrow_index
  BY <1>2, <1>3 DEF SameHoldings
<1>6. Sane(s) => Sane(r)
  BY <1>3, <1>5 DEF Sane, SameHoldings
<1>7. \A m \in Markets : Kept(s.mk[m], r.mk[m])
  BY <1>3, KeptSelf, Parts
<1> QED BY <1>3, <1>4, <1>5, <1>6, <1>7 DEF Keeps

LEMMA MovedIs ==
  ASSUME NEW c \in Purses, NEW p \in Addr, NEW q \in Addr, p # q, NEW cur \in Coins,
         NEW x \in Nat, x <= c[p][cur]
  PROVE  LET d == Moved(c, cur, p, q, x) IN
         /\ d \in Purses
         /\ d[p][cur] = c[p][cur] - x /\ d[q][cur] = c[q][cur] + x
         /\ \A a \in Addr, k \in Coins : a \notin {p, q} \/ k # cur => d[a][k] = c[a][k]
<1>1. c[p] \in [Coins -> Nat] /\ c[q] \in [Coins -> Nat] /\ c[p][cur] \in Nat /\ c[q][cur] \in Nat
  BY DEF Purses
<1> DEFINE P == [c[p] EXCEPT ![cur] = c[p][cur] - x]
           Q == [c[q] EXCEPT ![cur] = c[q][cur] + x]
           d == [c EXCEPT ![p] = P, ![q] = Q]
<1>2. Moved(c, cur, p, q, x) = d
  <2> DEFINE e == [c EXCEPT ![p] = P]
  <2>1. e[q] = c[q]
    BY DEF Purses
  <2>2. Moved(c, cur, p, q, x) = [e EXCEPT ![q] = [e[q] EXCEPT ![cur] = e[q][cur] + x]]
    BY DEF Moved
  <2>3. [e EXCEPT ![q] = Q] = d
    BY DEF Purses
  <2> QED BY <2>1, <2>2, <2>3
<1>3. c[p][cur] - x \in Nat /\ c[q][cur] + x \in Nat
  BY <1>1
<1>4. P \in [Coins -> Nat] /\ P[cur] = c[p][cur] - x /\ \A k \in Coins : k # cur => P[k] = c[p][k]
  BY <1>1, <1>3
<1>5. Q \in [Coins -> Nat] /\ Q[cur] = c[q][cur] + x /\ \A k \in Coins : k # cur => Q[k] = c[q][k]
  BY <1>1, <1>3
<1> HIDE DEF P, Q
<1>6. d \in Purses /\ d[p] = P /\ d[q] = Q /\ \A a \in Addr : a \notin {p, q} => d[a] = c[a]
  BY <1>4, <1>5 DEF Purses
<1> HIDE DEF d
<1> QED BY <1>2, <1>4, <1>5, <1>6

\* The contract's account may be paid by itself.
LEMMA MovedToSelf ==
  ASSUME NEW c \in Purses, NEW p \in Addr, NEW cur \in Coins, NEW x \in Nat
  PROVE  Moved(c, cur, p, p, x) = c
<1>1. c \in [Addr -> [Coins -> Nat]] /\ c[p] \in [Coins -> Nat] /\ c[p][cur] \in Nat
  BY DEF Purses
<1> DEFINE P == [c[p] EXCEPT ![cur] = c[p][cur] - x]
           d == [c EXCEPT ![p] = P]
           Q == [d[p] EXCEPT ![cur] = d[p][cur] + x]
<1>2. Moved(c, cur, p, p, x) = [d EXCEPT ![p] = Q]
  BY <1>1 DEF Moved
<1>3. d[p] = P /\ P[cur] = c[p][cur] - x
  BY <1>1
<1>4. P[cur] + x = c[p][cur]
  BY <1>1, <1>3
<1>5. Q = c[p]
  BY <1>1, <1>3, <1>4
<1> HIDE DEF Q
<1>6. [d EXCEPT ![p] = Q] = c
  BY <1>1, <1>5
<1> QED BY <1>2, <1>6

LEMMA BalanceIsNat ==
  ASSUME NEW s \in Storage, NEW m \in Markets, NEW a \in Addr
  PROVE  borrow_balance_of_index(s, m, a) \in Nat
<1>1. /\ s.acc[a].principal[m] \in Nat /\ s.mk[m].borrow_index \in Nat
      /\ s.acc[a].interest_index[m] \in Pos
  BY Numbers DEF Pos
<1> QED BY <1>1, MulIsNat, DivIsNat DEF borrow_balance_of_index

LEMMA IncentiveIsNat ==
  ASSUME NEW s \in Storage, NEW m \in Markets, NEW a \in Addr
  PROVE  supply_incentive(s, m, a) \in Nat /\ borrow_incentive(s, m, a) \in Nat
<1>1. /\ s.acc[a].lock[m] \in Nat /\ s.mk[m].borrow_index \in Pos
      /\ s.mk[m].incentive_supply_index \in Nat /\ s.acc[a].supply_index[m] \in Nat
      /\ s.mk[m].incentive_borrow_index \in Nat /\ s.acc[a].borrow_index[m] \in Nat
  BY Numbers DEF Pos
<1>2. mantissa_div(borrow_balance_of_index(s, m, a), s.mk[m].borrow_index) \in Nat
  BY <1>1, BalanceIsNat, DivIsNat
<1> QED BY <1>1, <1>2, SubIsNat, MulIsNat
        DEF supply_incentive, borrow_incentive, balance_of_index

LEMMA PaidKeeps ==
  ASSUME NEW s \in Storage, NEW a \in Addr, NEW x \in Nat, NEW w \in Accounts,
         SameHoldings(s.acc[a], w),
         Sane(s) => \A m \in Markets :
                      /\ One <= w.supply_index[m]
                      /\ w.supply_index[m] <= s.mk[m].incentive_supply_index
                      /\ One <= w.borrow_index[m]
                      /\ w.borrow_index[m] <= s.mk[m].incentive_borrow_index
  PROVE  Keeps(s, WithAcc(CoinPay(s, VLS, Bank, a, Payable(s, x)), a, w))
<1> DEFINE y == Payable(s, x)
           c == Moved(s.coin, VLS, Bank, a, y)
           q == WithCoin(s, c)
           r == WithAcc(q, a, w)
<1>0. a \in Addr /\ Bank \in Addr /\ VLS \in Coins
  BY BankAddr, BankAssumption
<1>1. s.coin \in Purses /\ s.coin[Bank][VLS] \in Nat
  BY <1>0, Parts DEF Purses
<1>2. y \in Nat /\ y <= s.coin[Bank][VLS]
  BY <1>1 DEF Payable
<1> HIDE DEF y
<1>3. c \in Purses /\ \A b \in Addr, k \in Coins : k # VLS => c[b][k] = s.coin[b][k]
  <2>1. CASE a = Bank
    BY <1>0, <1>1, <1>2, <2>1, MovedToSelf
  <2>2. CASE a # Bank
    BY <1>0, <1>1, <1>2, <2>2, MovedIs
  <2> QED BY <2>1, <2>2
<1> HIDE DEF c
<1>4. q \in Storage /\ q.acc = s.acc /\ q.store = s.store /\ q.mk = s.mk /\ q.coin = c
  BY <1>3, CoinSet
<1> HIDE DEF q
<1>5. /\ r \in Storage /\ r.mk = s.mk /\ r.store = s.store /\ r.coin = c
      /\ r.acc[a] = w /\ \A b \in Addr : b # a => r.acc[b] = s.acc[b]
  BY <1>0, <1>4, AccSet
<1>6. r = WithAcc(CoinPay(s, VLS, Bank, a, Payable(s, x)), a, w)
  BY DEF q, c, y, CoinPay
<1> HIDE DEF r
<1>7. \A b \in Addr : SameHoldings(s.acc[b], r.acc[b])
  BY <1>5 DEF SameHoldings
<1>8. ASSUME Sane(s) PROVE Sane(r)
  <2> SUFFICES ASSUME NEW b \in Addr, NEW m \in Markets
               PROVE  /\ One <= r.acc[b].interest_index[m]
                      /\ r.acc[b].interest_index[m] <= s.mk[m].borrow_index
                      /\ One <= r.acc[b].supply_index[m]
                      /\ r.acc[b].supply_index[m] <= s.mk[m].incentive_supply_index
                      /\ One <= r.acc[b].borrow_index[m]
                      /\ r.acc[b].borrow_index[m] <= s.mk[m].incentive_borrow_index
    BY <1>5 DEF Sane
  <2> QED BY <1>5, <1>7, <1>8 DEF Sane, SameHoldings
<1>9. \A m \in Markets : Kept(s.mk[m], r.mk[m])
  BY <1>5, KeptSelf, Parts
<1> QED BY <1>3, <1>5, <1>6, <1>7, <1>8, <1>9 DEF Keeps

LEMMA DistributesKeep ==
  ASSUME NEW s \in Storage, NEW m \in Markets, NEW a \in Addr
  PROVE  /\ Keeps(s, distribute_supply_incentive(s, m, a))
         /\ Keeps(s, distribute_borrow_incentive(s, m, a))
<1> DEFINE i == s.mk[m].incentive_supply_index
           j == s.mk[m].incentive_borrow_index
           w == [s.acc[a] EXCEPT !.supply_index[m] = i]
           v == [s.acc[a] EXCEPT !.borrow_index[m] = j]
<1>0. a \in Addr
  OBVIOUS
<1>1. s.acc[a] \in Accounts /\ i \in Pos /\ j \in Pos
  BY <1>0, Numbers
<1>2. Sane(s) => One <= i /\ One <= j
  <2>1. s.acc[a].supply_index[m] \in Nat /\ s.acc[a].borrow_index[m] \in Nat /\ i \in Nat /\ j \in Nat
    BY <1>0, Numbers DEF Pos
  <2> QED BY <1>0, <2>1, ScalePos DEF Sane, Pos
<1>3. i <= i /\ j <= j
  BY <1>1 DEF Pos
<1>4. supply_incentive(s, m, a) \in Nat /\ borrow_incentive(s, m, a) \in Nat
  BY <1>0, IncentiveIsNat
<1>5. Keeps(s, distribute_supply_incentive(s, m, a))
  <2>1. /\ w \in Accounts /\ SameHoldings(s.acc[a], w) /\ w.borrow_index = s.acc[a].borrow_index
        /\ w.supply_index[m] = i
        /\ \A k \in Markets : k # m => w.supply_index[k] = s.acc[a].supply_index[k]
    BY <1>1 DEF Accounts, SameHoldings
  <2> HIDE DEF w
  <2>2. Sane(s) => \A k \in Markets :
                      /\ One <= w.supply_index[k]
                      /\ w.supply_index[k] <= s.mk[k].incentive_supply_index
                      /\ One <= w.borrow_index[k]
                      /\ w.borrow_index[k] <= s.mk[k].incentive_borrow_index
    BY <1>0, <1>2, <1>3, <2>1 DEF Sane
  <2>3. distribute_supply_incentive(s, m, a) =
          WithAcc(CoinPay(s, VLS, Bank, a, Payable(s, supply_incentive(s, m, a))), a, w)
    BY DEF distribute_supply_incentive, w
  <2> QED BY <1>4, <2>1, <2>2, <2>3, PaidKeeps
<1>6. Keeps(s, distribute_borrow_incentive(s, m, a))
  <2>1. /\ v \in Accounts /\ SameHoldings(s.acc[a], v) /\ v.supply_index = s.acc[a].supply_index
        /\ v.borrow_index[m] = j
        /\ \A k \in Markets : k # m => v.borrow_index[k] = s.acc[a].borrow_index[k]
    BY <1>1 DEF Accounts, SameHoldings
  <2> HIDE DEF v
  <2>2. Sane(s) => \A k \in Markets :
                      /\ One <= v.supply_index[k]
                      /\ v.supply_index[k] <= s.mk[k].incentive_supply_index
                      /\ One <= v.borrow_index[k]
                      /\ v.borrow_index[k] <= s.mk[k].incentive_borrow_index
    BY <1>0, <1>2, <1>3, <2>1 DEF Sane
  <2>3. distribute_borrow_incentive(s, m, a) =
          WithAcc(CoinPay(s, VLS, Bank, a, Payable(s, borrow_incentive(s, m, a))), a, v)
    BY DEF distribute_borrow_incentive, v
  <2> QED BY <1>4, <2>1, <2>2, <2>3, PaidKeeps
<1> QED BY <1>5, <1>6

\* The interest is accrued and the sender's incentive paid, on either side.
LEMMA SidesKeep ==
  ASSUME NEW s \in Storage, NEW m \in Live, NEW a \in Addr, n \in 0 .. MaxMarkets, now \in Nat
  PROVE  Keeps(s, SupplySide(s, a, m)) /\ Keeps(s, BorrowSide(s, a, m))
<1>0. m \in Markets /\ a \in Addr
  BY LiveFinite, BankAddr
<1> DEFINE s1 == extend_user_tokens(s, a)
           s2 == accrue_interest(s1, m)
           s3 == check_for_incentive_speeds_refresh(s2)
           s4 == UpdateSupplyIndex(s3, m)
           s5 == UpdateBorrowIndex(s3, m)
<1>1. Keeps(s, s1) /\ s1 \in Storage
  BY <1>0, ExtendKeeps DEF Keeps
<1> HIDE DEF s1
<1>2. Keeps(s1, s2) /\ s2 \in Storage
  BY <1>1, AccrueKeeps, BooksKeep DEF Books
<1> HIDE DEF s2
<1>3. Keeps(s2, s3) /\ s3 \in Storage
  BY <1>2, CheckKeeps, BooksKeep DEF Books
<1> HIDE DEF s3
<1>4. Keeps(s3, s4) /\ s4 \in Storage /\ Keeps(s3, s5) /\ s5 \in Storage
  BY <1>3, UpdatesKeep, BooksKeep DEF Books
<1> HIDE DEF s4, s5
<1>5. Keeps(s4, distribute_supply_incentive(s4, m, a)) /\ Keeps(s5, distribute_borrow_incentive(s5, m, a))
  BY <1>0, <1>4, DistributesKeep
<1>6. Keeps(s, s3)
  BY <1>1, <1>2, <1>3, KeepsTwice
<1>7. Keeps(s, s4) /\ Keeps(s, s5)
  BY <1>3, <1>4, <1>6, KeepsTwice
<1>8. Keeps(s, distribute_supply_incentive(s4, m, a)) /\ Keeps(s, distribute_borrow_incentive(s5, m, a))
  BY <1>4, <1>5, <1>7, KeepsTwice
<1>9. /\ SupplySide(s, a, m) = distribute_supply_incentive(s4, m, a)
      /\ BorrowSide(s, a, m) = distribute_borrow_incentive(s5, m, a)
  BY DEF SupplySide, BorrowSide, s1, s2, s3, s4, s5
<1> QED BY <1>8, <1>9

LEMMA OracleKeeps ==
  ASSUME TypeOK, NEW m \in Live, OracleUsable(m), NEW s \in Storage
  PROVE  Books(s, FromOracle(s, m)) /\ FromOracle(s, m) \in Storage
<1>0. m \in Markets
  BY LiveFinite DEF TypeOK
<1> DEFINE v == orc[mk[m].coin].value
           t == orc[mk[m].coin].timestamp
           u == [s.mk[m] EXCEPT !.price = v, !.price_oracle_last_timestamp = t]
<1>1. mk[m] \in TokenInfos
  BY <1>0 DEF TypeOK, Here, Storage
<1>2. mk[m].coin \in Coins
  BY <1>1 DEF TokenInfos, OracleUsable
<1>3. v \in Nat /\ t \in Nat
  BY <1>2 DEF TypeOK
<1> HIDE DEF v, t
<1>4. s.mk[m] \in TokenInfos
  BY <1>0, Parts
<1>5. u \in TokenInfos
  BY <1>3, <1>4 DEF TokenInfos
<1>6. Kept(s.mk[m], u)
  BY <1>3, <1>4 DEF TokenInfos, Kept, Pos
<1>7. FromOracle(s, m) = WithMk(s, m, u)
  BY DEF FromOracle, v, t
<1> HIDE DEF u
<1>8. Books(s, FromOracle(s, m))
  BY <1>5, <1>6, <1>7, BooksOfMarket DEF TypeOK
<1> QED BY <1>8 DEF Books

LEMMA EntriesKeep ==
  ASSUME TypeOK, NEW m \in Live, NEW s \in Entries(m)
  PROVE  s \in Storage /\ Books(Here, s)
<1>1. Here \in Storage /\ Books(Here, Here)
  BY BooksSelf DEF TypeOK
<1>2. OracleUsable(m) => Books(Here, FromOracle(Here, m)) /\ FromOracle(Here, m) \in Storage
  BY <1>1, OracleKeeps
<1> HIDE DEF TypeOK
<1> QED BY <1>1, <1>2 DEF Entries

LEMMA SettleKeeps ==
  ASSUME NEW s \in Storage, NEW m \in Live, NEW a \in Addr, n \in 0 .. MaxMarkets, now \in Nat
  PROVE  Keeps(s, SettleMarket(s, m, a))
<1>0. m \in Markets /\ a \in Addr
  BY LiveFinite, BankAddr
<1> DEFINE s1 == UpdateSupplyIndex(s, m)
           s2 == distribute_supply_incentive(s1, m, a)
           s3 == UpdateBorrowIndex(s2, m)
           s4 == distribute_borrow_incentive(s3, m, a)
<1>1. Keeps(s, s1) /\ s1 \in Storage
  BY UpdatesKeep, BooksKeep DEF Books
<1> HIDE DEF s1
<1>2. Keeps(s1, s2) /\ s2 \in Storage
  BY <1>0, <1>1, DistributesKeep DEF Keeps
<1> HIDE DEF s2
<1>3. Keeps(s2, s3) /\ s3 \in Storage
  BY <1>2, UpdatesKeep, BooksKeep DEF Books
<1> HIDE DEF s3
<1>4. Keeps(s3, s4)
  BY <1>0, <1>3, DistributesKeep
<1> HIDE DEF s4
<1>5. Keeps(s, s3)
  BY <1>1, <1>2, <1>3, KeepsTwice
<1>6. Keeps(s, s4)
  BY <1>3, <1>4, <1>5, KeepsTwice
<1> QED BY <1>6 DEF SettleMarket, s1, s2, s3, s4

\* The loop of claim_incentive: its recursive function exists, and every turn
\* keeps what it should.
LEMMA SettledKeeps ==
  ASSUME TypeOK, NEW a \in Addr
  PROVE  Keeps(Here, Settled(a))
<1> DEFINE next(g, k) == IF k = 0 THEN Here ELSE SettleMarket(g[k - 1], k - 1, a)
           Is(g, j) == g = [k \in 0 .. j |-> next(g, k)]
           T == {j \in Nat : ~\E g : Is(g, j)}
<1>0. n \in Nat /\ n \in 0 .. MaxMarkets /\ now \in Nat /\ Here \in Storage
  BY BankAssumption DEF TypeOK
<1>1. T = {}
  <2> SUFFICES ASSUME T # {} PROVE FALSE
    OBVIOUS
  <2>1. PICK j \in T : \A i \in T : j <= i
    BY Least
  <2>2. j # 0
    <3> DEFINE g == [k \in 0 .. 0 |-> Here]
    <3>1. g = [k \in 0 .. 0 |-> next(g, k)]
      OBVIOUS
    <3> QED BY <3>1
  <2>3. j - 1 \in Nat /\ j - 1 \notin T
    <3>1. j \in Nat
      BY <2>1
    <3> HIDE DEF T
    <3> QED BY <2>1, <2>2, <3>1
  <2>4. PICK g : Is(g, j - 1)
    BY <2>3
  <2> DEFINE h == [k \in 0 .. j |-> IF k = j THEN next(g, j) ELSE g[k]]
  <2>5. \A k \in 0 .. j : k # j => g[k] = next(g, k)
    BY <2>3, <2>4
  <2>6. \A k \in 0 .. j : k # 0 => h[k - 1] = g[k - 1]
    BY <2>3
  <2>7. \A k \in 0 .. j : h[k] = next(h, k)
    <3> SUFFICES ASSUME NEW k \in 0 .. j PROVE h[k] = next(h, k)
      OBVIOUS
    <3>1. h[k] = next(g, k)
      BY <2>5
    <3>2. k # 0 => h[k - 1] = g[k - 1]
      BY <2>6
    <3> HIDE DEF h
    <3> QED BY <3>1, <3>2
  <2>8. Is(h, j)
    <3>1. h = [k \in 0 .. j |-> h[k]]
      OBVIOUS
    <3> HIDE DEF h
    <3>2. [k \in 0 .. j |-> h[k]] = [k \in 0 .. j |-> next(h, k)]
      BY <2>7
    <3> QED BY <3>1, <3>2
  <2> QED BY <2>8
<1>2. \E g : Is(g, n)
  BY <1>0, <1>1
<1> DEFINE f == CHOOSE g : Is(g, n)
<1>3. Is(f, n)
  BY <1>2
<1>4. Settled(a) = f[n]
  BY Zenon DEF Settled
<1> HIDE DEF f
<1>5. \A k \in 0 .. n : f[k] = next(f, k)
  BY <1>3
<1> DEFINE D == {k \in 0 .. n : ~Keeps(Here, f[k])}
<1>6. D = {}
  <2> SUFFICES ASSUME D # {} PROVE FALSE
    OBVIOUS
  <2>1. PICK k \in D : \A i \in D : k <= i
    <3>1. D \in SUBSET Nat
      BY <1>0
    <3> QED BY <3>1, Least
  <2>2. k # 0
    BY <1>0, <1>5, BooksSelf, BooksKeep
  <2>3. k - 1 \in Live /\ k - 1 \in 0 .. n /\ k - 1 \notin D
    BY <1>0, <2>1, <2>2 DEF Live
  <2>4. Keeps(Here, f[k - 1]) /\ f[k - 1] \in Storage
    BY <2>3 DEF Keeps
  <2>5. f[k] = SettleMarket(f[k - 1], k - 1, a)
    BY <1>5, <2>2
  <2>6. Keeps(f[k - 1], f[k])
    BY <1>0, <2>3, <2>4, <2>5, SettleKeeps
  <2>7. Keeps(Here, f[k])
    BY <1>0, <2>4, <2>6, KeepsTwice
  <2> QED BY <2>7
<1> QED BY <1>0, <1>4, <1>6

----------------------------------------------------------------------------
(* Sums over the accounts.                                                *)

LEMMA HeldSame ==
  ASSUME NEW s, NEW r, NEW m, \A a \in Addr : r.acc[a].val[m] = s.acc[a].val[m]
  PROVE  Held(r, m) = Held(s, m)
<1>1. [a \in Addr |-> r.acc[a].val[m]] = [a \in Addr |-> s.acc[a].val[m]]
  OBVIOUS
<1> QED BY <1>1 DEF Held

LEMMA LockedSame ==
  ASSUME NEW s, NEW r, NEW m, \A a \in Addr : r.acc[a].lock[m] = s.acc[a].lock[m]
  PROVE  Locked(r, m) = Locked(s, m)
<1>1. [a \in Addr |-> r.acc[a].lock[m]] = [a \in Addr |-> s.acc[a].lock[m]]
  OBVIOUS
<1> QED BY <1>1 DEF Locked

LEMMA HeldNat ==
  ASSUME NEW s \in Storage, NEW m \in Markets, NEW a \in Addr
  PROVE  Held(s, m) \in Nat /\ s.acc[a].val[m] <= Held(s, m)
<1> DEFINE f == [b \in Addr |-> s.acc[b].val[m]]
<1>1. \A b \in Addr : f[b] \in Nat
  BY Numbers
<1>2. f[a] = s.acc[a].val[m]
  OBVIOUS
<1> HIDE DEF f
<1> QED BY <1>1, <1>2, SumNat, AddrFinite DEF Held, f

LEMMA LockedNat ==
  ASSUME NEW s \in Storage, NEW m \in Markets, NEW a \in Addr
  PROVE  Locked(s, m) \in Nat /\ s.acc[a].lock[m] <= Locked(s, m)
<1> DEFINE f == [b \in Addr |-> s.acc[b].lock[m]]
<1>1. \A b \in Addr : f[b] \in Nat
  BY Numbers
<1>2. f[a] = s.acc[a].lock[m]
  OBVIOUS
<1> HIDE DEF f
<1> QED BY <1>1, <1>2, SumNat, AddrFinite DEF Locked, f

LEMMA HeldChange ==
  ASSUME NEW s \in Storage, NEW r \in Storage, NEW m \in Markets, NEW a \in Addr,
         \A b \in Addr : b # a => r.acc[b].val[m] = s.acc[b].val[m]
  PROVE  Held(r, m) = Held(s, m) + (r.acc[a].val[m] - s.acc[a].val[m])
<1> DEFINE f == [b \in Addr |-> s.acc[b].val[m]]
           g == [b \in Addr |-> r.acc[b].val[m]]
<1>1. \A b \in Addr : f[b] \in Int /\ g[b] \in Int
  BY Numbers
<1>2. f[a] = s.acc[a].val[m] /\ g[a] = r.acc[a].val[m] /\ \A b \in Addr \ {a} : g[b] = f[b]
  OBVIOUS
<1>3. Held(s, m) = SumFunctionOnSet(f, Addr) /\ Held(r, m) = SumFunctionOnSet(g, Addr)
  BY DEF Held
<1> HIDE DEF f, g
<1>4. SumFunctionOnSet(g, Addr) = SumFunctionOnSet(f, Addr) + (g[a] - f[a])
  BY <1>1, <1>2, SumChange, AddrFinite
<1> QED BY <1>2, <1>3, <1>4

LEMMA LockedChange ==
  ASSUME NEW s \in Storage, NEW r \in Storage, NEW m \in Markets, NEW a \in Addr,
         \A b \in Addr : b # a => r.acc[b].lock[m] = s.acc[b].lock[m]
  PROVE  Locked(r, m) = Locked(s, m) + (r.acc[a].lock[m] - s.acc[a].lock[m])
<1> DEFINE f == [b \in Addr |-> s.acc[b].lock[m]]
           g == [b \in Addr |-> r.acc[b].lock[m]]
<1>1. \A b \in Addr : f[b] \in Int /\ g[b] \in Int
  BY Numbers
<1>2. f[a] = s.acc[a].lock[m] /\ g[a] = r.acc[a].lock[m] /\ \A b \in Addr \ {a} : g[b] = f[b]
  OBVIOUS
<1>3. Locked(s, m) = SumFunctionOnSet(f, Addr) /\ Locked(r, m) = SumFunctionOnSet(g, Addr)
  BY DEF Locked
<1> HIDE DEF f, g
<1>4. SumFunctionOnSet(g, Addr) = SumFunctionOnSet(f, Addr) + (g[a] - f[a])
  BY <1>1, <1>2, SumChange, AddrFinite
<1> QED BY <1>2, <1>3, <1>4

----------------------------------------------------------------------------
(* The operations' own work.                                              *)

\* Nothing but balances, debts and supplies changes.
Moves(s, r) ==
  /\ r \in Storage /\ r.store = s.store
  /\ \A m \in Markets :
       /\ r.mk[m].owner = s.mk[m].owner /\ r.mk[m].coin = s.mk[m].coin
       /\ r.mk[m].borrow_index = s.mk[m].borrow_index
       /\ r.mk[m].incentive_supply_index = s.mk[m].incentive_supply_index
       /\ r.mk[m].incentive_borrow_index = s.mk[m].incentive_borrow_index
       /\ r.mk[m].total_reserves = s.mk[m].total_reserves /\ r.mk[m].price = s.mk[m].price
  /\ \A m \in Markets \ Live : r.mk[m] = s.mk[m]
  /\ Conserved(s) => Conserved(r)
  /\ Sane(s) => Sane(r)

LEMMA MovesTwice ==
  ASSUME NEW s, NEW r, NEW q, Moves(s, r), Moves(r, q)
  PROVE  Moves(s, q)
BY DEF Moves

\* An account whose holdings of token 2m are the only ones to change.
SameBut(w, v) ==
  /\ v.lock = w.lock /\ v.principal = w.principal /\ v.interest_index = w.interest_index
  /\ v.supply_index = w.supply_index /\ v.borrow_index = w.borrow_index

LEMMA SaneSame ==
  ASSUME NEW s, NEW r, r.mk = s.mk, Sane(s), \A a \in Addr : SameBut(s.acc[a], r.acc[a])
  PROVE  Sane(r)
BY DEF Sane, SameBut

LEMMA WithdrawIs ==
  ASSUME NEW w \in Accounts, NEW m \in Markets, NEW x \in Nat, x <= w.val[m]
  PROVE  LET v == withdraw_from(w, m, x) IN
         /\ v \in Accounts /\ SameBut(w, v) /\ v.val[m] = w.val[m] - x
         /\ \A k \in Markets : k # m => v.val[k] = w.val[k]
<1>1. w.val \in [Markets -> Nat] /\ w.val[m] - x \in Nat
  BY DEF Accounts
<1> QED BY <1>1 DEF withdraw_from, Accounts, SameBut

LEMMA DepositIs ==
  ASSUME NEW w \in Accounts, NEW m \in Markets, NEW x \in Nat, n \in 0 .. MaxMarkets
  PROVE  LET v == deposit(w, m, x) IN
         /\ v \in Accounts /\ SameBut(w, v) /\ v.val[m] = w.val[m] + x
         /\ \A k \in Markets : k # m => v.val[k] = w.val[k]
<1> DEFINE u == Extended(w)
<1>1. n \in Nat /\ w.val[m] \in Nat
  BY BankAssumption DEF Accounts
<1>2. u \in Accounts /\ SameBut(w, u) /\ u.val = w.val
  BY <1>1 DEF Extended, Accounts, SameBut
<1>3. u.val[m] + x \in Nat
  BY <1>1, <1>2
<1>4. deposit(w, m, x) = [u EXCEPT !.val[m] = u.val[m] + x]
  BY DEF deposit
<1> HIDE DEF u
<1> QED BY <1>2, <1>3, <1>4 DEF Accounts, SameBut

LEMMA PayIs ==
  ASSUME NEW s \in Storage, NEW m \in Markets, NEW p \in Addr, NEW q \in Addr, p # q,
         NEW x \in Nat, x <= s.acc[p].val[m], n \in 0 .. MaxMarkets
  PROVE  LET r == Pay(s, m, p, q, x) IN
         /\ Moves(s, r) /\ r.mk = s.mk /\ r.coin = s.coin
         /\ \A a \in Addr : SameBut(s.acc[a], r.acc[a])
         /\ r.acc[p].val[m] = s.acc[p].val[m] - x /\ r.acc[q].val[m] = s.acc[q].val[m] + x
         /\ \A a \in Addr, k \in Markets : a \notin {p, q} \/ k # m => r.acc[a].val[k] = s.acc[a].val[k]
<1> DEFINE v == withdraw_from(s.acc[p], m, x)
           w == deposit(s.acc[q], m, x)
           t == WithAcc(s, p, v)
           r == WithAcc(t, q, w)
<1>1. s.acc[p] \in Accounts /\ s.acc[q] \in Accounts
  BY Parts
<1>2. /\ v \in Accounts /\ SameBut(s.acc[p], v) /\ v.val[m] = s.acc[p].val[m] - x
      /\ \A k \in Markets : k # m => v.val[k] = s.acc[p].val[k]
  BY <1>1, WithdrawIs
<1>3. /\ w \in Accounts /\ SameBut(s.acc[q], w) /\ w.val[m] = s.acc[q].val[m] + x
      /\ \A k \in Markets : k # m => w.val[k] = s.acc[q].val[k]
  BY <1>1, DepositIs
<1> HIDE DEF v, w
<1>4. /\ t \in Storage /\ t.mk = s.mk /\ t.store = s.store /\ t.coin = s.coin
      /\ t.acc[p] = v /\ \A b \in Addr : b # p => t.acc[b] = s.acc[b]
  BY <1>2, AccSet
<1> HIDE DEF t
<1>5. /\ r \in Storage /\ r.mk = s.mk /\ r.store = s.store /\ r.coin = s.coin
      /\ r.acc[q] = w /\ \A b \in Addr : b # q => r.acc[b] = t.acc[b]
  BY <1>3, <1>4, AccSet
<1>6. Pay(s, m, p, q, x) = r
  BY DEF Pay, v, w, t
<1> HIDE DEF r
<1>7. \A a \in Addr : SameBut(s.acc[a], r.acc[a])
  BY <1>2, <1>3, <1>4, <1>5 DEF SameBut
<1>8. /\ r.acc[p].val[m] = s.acc[p].val[m] - x /\ r.acc[q].val[m] = s.acc[q].val[m] + x
      /\ \A a \in Addr, k \in Markets : a \notin {p, q} \/ k # m => r.acc[a].val[k] = s.acc[a].val[k]
  BY <1>2, <1>3, <1>4, <1>5
<1>9. ASSUME NEW k \in Markets PROVE Held(r, k) = Held(s, k) /\ Locked(r, k) = Locked(s, k)
  <2>1. Locked(r, k) = Locked(s, k)
    BY <1>7, LockedSame DEF SameBut
  <2>2. CASE k # m
    BY <1>8, <2>1, <2>2, HeldSame
  <2>3. CASE k = m
    <3>1. Held(t, m) = Held(s, m) + (t.acc[p].val[m] - s.acc[p].val[m])
      BY <1>4, HeldChange
    <3>2. Held(r, m) = Held(t, m) + (r.acc[q].val[m] - t.acc[q].val[m])
      BY <1>4, <1>5, HeldChange
    <3>3. t.acc[p].val[m] = s.acc[p].val[m] - x /\ t.acc[q] = s.acc[q]
      BY <1>2, <1>4
    <3>4. Held(s, m) \in Nat /\ s.acc[p].val[m] \in Nat /\ s.acc[q].val[m] \in Nat
      BY HeldNat, Numbers
    <3> QED BY <2>1, <2>3, <3>1, <3>2, <3>3, <3>4, <1>8
  <2> QED BY <2>2, <2>3
<1>10. Moves(s, r)
  BY <1>5, <1>7, <1>9, SaneSame DEF Moves, Conserved
<1> QED BY <1>5, <1>6, <1>7, <1>8, <1>10

\* An account and a market change together.
LEMMA BothSet ==
  ASSUME NEW s \in Storage, NEW a \in Addr, NEW w \in Accounts, NEW m \in Markets, NEW u \in TokenInfos
  PROVE  LET r == WithMk(WithAcc(s, a, w), m, u) IN
         /\ r \in Storage /\ r.store = s.store /\ r.coin = s.coin
         /\ r.acc[a] = w /\ \A b \in Addr : b # a => r.acc[b] = s.acc[b]
         /\ r.mk[m] = u /\ \A k \in Markets : k # m => r.mk[k] = s.mk[k]
<1> DEFINE t == WithAcc(s, a, w)
           r == WithMk(t, m, u)
<1>1. /\ t \in Storage /\ t.mk = s.mk /\ t.store = s.store /\ t.coin = s.coin
      /\ t.acc[a] = w /\ \A b \in Addr : b # a => t.acc[b] = s.acc[b]
  BY AccSet
<1> HIDE DEF t
<1>2. /\ r \in Storage /\ r.acc = t.acc /\ r.store = t.store /\ r.coin = t.coin
      /\ r.mk[m] = u /\ \A k \in Markets : k # m => r.mk[k] = t.mk[k]
  BY <1>1, MkSet
<1> HIDE DEF r
<1>3. /\ r \in Storage /\ r.store = s.store /\ r.coin = s.coin
      /\ r.acc[a] = w /\ \A b \in Addr : b # a => r.acc[b] = s.acc[b]
      /\ r.mk[m] = u /\ \A k \in Markets : k # m => r.mk[k] = s.mk[k]
  BY <1>1, <1>2
<1> QED BY <1>3 DEF r, t

\* What the markets' own part of such a change may be.
SameMarket(t, u) ==
  /\ u.owner = t.owner /\ u.coin = t.coin /\ u.borrow_index = t.borrow_index
  /\ u.incentive_supply_index = t.incentive_supply_index
  /\ u.incentive_borrow_index = t.incentive_borrow_index
  /\ u.total_reserves = t.total_reserves /\ u.price = t.price

\* A change of one account and of its market's supplies keeps them in step.
LEMMA BothMove ==
  ASSUME NEW s \in Storage, NEW r \in Storage, r.store = s.store, NEW a \in Addr, NEW m \in Live,
         n \in 0 .. MaxMarkets,
         \A b \in Addr : b # a => r.acc[b] = s.acc[b],
         \A k \in Markets : k # m => r.mk[k] = s.mk[k],
         SameMarket(s.mk[m], r.mk[m]),
         \A k \in Markets : k # m => /\ r.acc[a].val[k] = s.acc[a].val[k]
                                     /\ r.acc[a].lock[k] = s.acc[a].lock[k],
         Conserved(s) =>
           /\ r.mk[m].total_supply = s.mk[m].total_supply + (r.acc[a].val[m] - s.acc[a].val[m])
           /\ r.mk[m].lock_supply = s.mk[m].lock_supply + (r.acc[a].lock[m] - s.acc[a].lock[m]),
         Sane(s) => \A k \in Markets :
           /\ One <= r.acc[a].interest_index[k]
           /\ r.acc[a].interest_index[k] <= s.mk[k].borrow_index,
         r.acc[a].supply_index = s.acc[a].supply_index,
         r.acc[a].borrow_index = s.acc[a].borrow_index
  PROVE  Moves(s, r)
<1>0. m \in Markets
  BY LiveFinite
<1>1. ASSUME Conserved(s) PROVE Conserved(r)
  <2> SUFFICES ASSUME NEW k \in Markets
               PROVE  Held(r, k) = r.mk[k].total_supply /\ Locked(r, k) = r.mk[k].lock_supply
    BY DEF Conserved
  <2>1. CASE k # m
    <3>1. \A b \in Addr : r.acc[b].val[k] = s.acc[b].val[k] /\ r.acc[b].lock[k] = s.acc[b].lock[k]
      BY <2>1
    <3> QED BY <1>1, <2>1, <3>1, HeldSame, LockedSame DEF Conserved
  <2>2. CASE k = m
    <3>1. Held(r, m) = Held(s, m) + (r.acc[a].val[m] - s.acc[a].val[m])
      BY <1>0, HeldChange
    <3>2. Locked(r, m) = Locked(s, m) + (r.acc[a].lock[m] - s.acc[a].lock[m])
      BY <1>0, LockedChange
    <3> QED BY <1>1, <2>2, <3>1, <3>2 DEF Conserved
  <2> QED BY <2>1, <2>2
<1>2. \A k \in Markets : SameMarket(s.mk[k], r.mk[k])
  BY DEF SameMarket
<1>3. ASSUME Sane(s) PROVE Sane(r)
  <2> SUFFICES ASSUME NEW b \in Addr, NEW k \in Markets
               PROVE  /\ One <= r.acc[b].interest_index[k]
                      /\ r.acc[b].interest_index[k] <= s.mk[k].borrow_index
                      /\ One <= r.acc[b].supply_index[k]
                      /\ r.acc[b].supply_index[k] <= s.mk[k].incentive_supply_index
                      /\ One <= r.acc[b].borrow_index[k]
                      /\ r.acc[b].borrow_index[k] <= s.mk[k].incentive_borrow_index
    BY <1>2 DEF Sane, SameMarket
  <2> QED BY <1>3 DEF Sane
<1>4. \A k \in Markets \ Live : r.mk[k] = s.mk[k]
  OBVIOUS
<1> QED BY <1>1, <1>2, <1>3, <1>4 DEF Moves, SameMarket

LEMMA IssueIs ==
  ASSUME NEW s \in Storage, NEW m \in Live, NEW a \in Addr, NEW x \in Nat, n \in 0 .. MaxMarkets
  PROVE  LET r == Issue(s, m, a, x) IN
         /\ Moves(s, r) /\ r.coin = s.coin
         /\ \A b \in Addr : SameBut(s.acc[b], r.acc[b])
         /\ \A b \in Addr, k \in Markets : s.acc[b].val[k] <= r.acc[b].val[k]
         /\ \A k \in Markets : k # m => r.mk[k] = s.mk[k]
         /\ r.mk[m].total_supply = s.mk[m].total_supply + x
         /\ r.mk[m].lock_supply = s.mk[m].lock_supply /\ r.mk[m].total_borrows = s.mk[m].total_borrows
<1>0. m \in Markets
  BY LiveFinite
<1> DEFINE w == deposit(s.acc[a], m, x)
           t == s.mk[m]
           u == [t EXCEPT !.total_supply = t.total_supply + x]
           r == WithMk(WithAcc(s, a, w), m, u)
<1>1. s.acc[a] \in Accounts /\ t \in TokenInfos /\ t.total_supply \in Nat /\ s.acc[a].val[m] \in Nat
  BY <1>0, Numbers
<1>2. /\ w \in Accounts /\ SameBut(s.acc[a], w) /\ w.val[m] = s.acc[a].val[m] + x
      /\ \A k \in Markets : k # m => w.val[k] = s.acc[a].val[k]
  BY <1>0, <1>1, DepositIs
<1>3. t.total_supply + x \in Nat
  BY <1>1
<1>4. /\ u \in TokenInfos /\ u.total_supply = t.total_supply + x /\ u.lock_supply = t.lock_supply
      /\ u.total_borrows = t.total_borrows /\ SameMarket(t, u)
  BY <1>1, <1>3 DEF TokenInfos, SameMarket
<1>5. Issue(s, m, a, x) = r
  BY DEF Issue
<1> HIDE DEF w, u
<1>6. /\ r \in Storage /\ r.store = s.store /\ r.coin = s.coin
      /\ r.acc[a] = w /\ \A b \in Addr : b # a => r.acc[b] = s.acc[b]
      /\ r.mk[m] = u /\ \A k \in Markets : k # m => r.mk[k] = s.mk[k]
  BY <1>0, <1>2, <1>4, BothSet
<1> HIDE DEF r
<1>7. /\ r.mk[m].total_supply = s.mk[m].total_supply + (r.acc[a].val[m] - s.acc[a].val[m])
      /\ r.mk[m].lock_supply = s.mk[m].lock_supply + (r.acc[a].lock[m] - s.acc[a].lock[m])
  <2>1. s.acc[a].lock[m] \in Nat /\ s.mk[m].lock_supply \in Nat
    BY <1>0, Numbers
  <2> QED BY <1>1, <1>2, <1>4, <1>6, <2>1 DEF SameBut
<1>8. Moves(s, r)
  <2>1. SameMarket(s.mk[m], r.mk[m])
    BY <1>4, <1>6
  <2>2. \A k \in Markets : k # m => /\ r.acc[a].val[k] = s.acc[a].val[k]
                                    /\ r.acc[a].lock[k] = s.acc[a].lock[k]
    BY <1>2, <1>6 DEF SameBut
  <2>3. /\ r.acc[a].supply_index = s.acc[a].supply_index
        /\ r.acc[a].borrow_index = s.acc[a].borrow_index
        /\ r.acc[a].interest_index = s.acc[a].interest_index
    BY <1>2, <1>6 DEF SameBut
  <2>4. Sane(s) => \A k \in Markets : /\ One <= r.acc[a].interest_index[k]
                                      /\ r.acc[a].interest_index[k] <= s.mk[k].borrow_index
    BY <2>3 DEF Sane
  <2> QED BY <1>6, <1>7, <2>1, <2>2, <2>3, <2>4, BothMove
<1>9. \A b \in Addr : SameBut(s.acc[b], r.acc[b])
  BY <1>2, <1>6 DEF SameBut
<1>10. ASSUME NEW b \in Addr, NEW k \in Markets PROVE s.acc[b].val[k] <= r.acc[b].val[k]
  <2>1. s.acc[b].val[k] \in Nat
    BY Numbers
  <2> QED BY <1>1, <1>2, <1>6, <2>1
<1> QED BY <1>4, <1>5, <1>6, <1>8, <1>9, <1>10

LEMMA RetireIs ==
  ASSUME NEW s \in Storage, NEW m \in Live, NEW a \in Addr, NEW x \in Nat, n \in 0 .. MaxMarkets,
         x <= s.acc[a].val[m], Conserved(s)
  PROVE  LET r == Retire(s, m, a, x) IN
         /\ Moves(s, r) /\ r.coin = s.coin
         /\ \A b \in Addr : b # a => r.acc[b] = s.acc[b]
         /\ \A b \in Addr : SameBut(s.acc[b], r.acc[b])
         /\ \A k \in Markets : k # m => r.mk[k] = s.mk[k]
         /\ r.mk[m].total_supply = s.mk[m].total_supply - x
         /\ r.mk[m].lock_supply = s.mk[m].lock_supply /\ r.mk[m].total_borrows = s.mk[m].total_borrows
<1>0. m \in Markets
  BY LiveFinite
<1> DEFINE w == withdraw_from(s.acc[a], m, x)
           t == s.mk[m]
           u == [t EXCEPT !.total_supply = safe_sub(t.total_supply, x)]
           r == WithMk(WithAcc(s, a, w), m, u)
<1>1. s.acc[a] \in Accounts /\ t \in TokenInfos /\ t.total_supply \in Nat /\ s.acc[a].val[m] \in Nat
  BY <1>0, Numbers
<1>2. /\ w \in Accounts /\ SameBut(s.acc[a], w) /\ w.val[m] = s.acc[a].val[m] - x
      /\ \A k \in Markets : k # m => w.val[k] = s.acc[a].val[k]
  BY <1>0, <1>1, WithdrawIs
<1>3. safe_sub(t.total_supply, x) \in Nat /\ safe_sub(t.total_supply, x) = t.total_supply - x
  <2>1. Held(s, m) = t.total_supply
    BY <1>0 DEF Conserved
  <2>2. s.acc[a].val[m] <= Held(s, m)
    BY <1>0, HeldNat
  <2>3. x <= t.total_supply
    BY <1>1, <2>1, <2>2
  <2> QED BY <1>1, <2>3, SubIsNat
<1>4. /\ u \in TokenInfos /\ u.total_supply = t.total_supply - x /\ u.lock_supply = t.lock_supply
      /\ u.total_borrows = t.total_borrows /\ SameMarket(t, u)
  BY <1>1, <1>3 DEF TokenInfos, SameMarket
<1>5. Retire(s, m, a, x) = r
  BY DEF Retire
<1> HIDE DEF w, u
<1>6. /\ r \in Storage /\ r.store = s.store /\ r.coin = s.coin
      /\ r.acc[a] = w /\ \A b \in Addr : b # a => r.acc[b] = s.acc[b]
      /\ r.mk[m] = u /\ \A k \in Markets : k # m => r.mk[k] = s.mk[k]
  BY <1>0, <1>2, <1>4, BothSet
<1> HIDE DEF r
<1>7. /\ r.mk[m].total_supply = s.mk[m].total_supply + (r.acc[a].val[m] - s.acc[a].val[m])
      /\ r.mk[m].lock_supply = s.mk[m].lock_supply + (r.acc[a].lock[m] - s.acc[a].lock[m])
  <2>1. s.acc[a].lock[m] \in Nat /\ s.mk[m].lock_supply \in Nat
    BY <1>0, Numbers
  <2> QED BY <1>1, <1>2, <1>4, <1>6, <2>1 DEF SameBut
<1>8. Moves(s, r)
  <2>1. SameMarket(s.mk[m], r.mk[m])
    BY <1>4, <1>6
  <2>2. \A k \in Markets : k # m => /\ r.acc[a].val[k] = s.acc[a].val[k]
                                    /\ r.acc[a].lock[k] = s.acc[a].lock[k]
    BY <1>2, <1>6 DEF SameBut
  <2>3. /\ r.acc[a].supply_index = s.acc[a].supply_index
        /\ r.acc[a].borrow_index = s.acc[a].borrow_index
        /\ r.acc[a].interest_index = s.acc[a].interest_index
    BY <1>2, <1>6 DEF SameBut
  <2>4. Sane(s) => \A k \in Markets : /\ One <= r.acc[a].interest_index[k]
                                      /\ r.acc[a].interest_index[k] <= s.mk[k].borrow_index
    BY <2>3 DEF Sane
  <2> QED BY <1>6, <1>7, <2>1, <2>2, <2>3, <2>4, BothMove
<1>9. \A b \in Addr : SameBut(s.acc[b], r.acc[b])
  BY <1>2, <1>6 DEF SameBut
<1> QED BY <1>4, <1>5, <1>6, <1>8, <1>9

\* What an account has locked and the supply of bank tokens become y and z.
LockedAs(s, m, a, y, z) ==
  WithMk(WithAcc(s, a, [s.acc[a] EXCEPT !.lock[m] = y]), m, [s.mk[m] EXCEPT !.lock_supply = z])

InStep(s, m, a, y, z) == z = s.mk[m].lock_supply + (y - s.acc[a].lock[m])

LEMMA LockSet ==
  ASSUME NEW s \in Storage, NEW m \in Live, NEW a \in Addr, NEW y \in Nat, NEW z \in Nat,
         n \in 0 .. MaxMarkets, InStep(s, m, a, y, z)
  PROVE  LET r == LockedAs(s, m, a, y, z) IN
         /\ Moves(s, r) /\ r.coin = s.coin
         /\ \A b \in Addr : r.acc[b].val = s.acc[b].val
         /\ \A k \in Markets : k # m => r.mk[k] = s.mk[k]
         /\ r.mk[m].total_supply = s.mk[m].total_supply
         /\ r.mk[m].lock_supply = z /\ r.mk[m].total_borrows = s.mk[m].total_borrows
         /\ \A b \in Addr : r.acc[b].principal = s.acc[b].principal
<1>0. m \in Markets
  BY LiveFinite
<1> DEFINE w == [s.acc[a] EXCEPT !.lock[m] = y]
           u == [s.mk[m] EXCEPT !.lock_supply = z]
           r == WithMk(WithAcc(s, a, w), m, u)
<1>1. s.acc[a] \in Accounts /\ s.mk[m] \in TokenInfos /\ s.acc[a].val[m] \in Nat
      /\ s.mk[m].total_supply \in Nat
  BY <1>0, Numbers
<1>2. /\ w \in Accounts /\ w.val = s.acc[a].val /\ w.interest_index = s.acc[a].interest_index
      /\ w.supply_index = s.acc[a].supply_index /\ w.borrow_index = s.acc[a].borrow_index
      /\ w.principal = s.acc[a].principal
      /\ w.lock[m] = y /\ \A k \in Markets : k # m => w.lock[k] = s.acc[a].lock[k]
  BY <1>0, <1>1 DEF Accounts
<1>3. /\ u \in TokenInfos /\ u.total_supply = s.mk[m].total_supply /\ u.lock_supply = z
      /\ u.total_borrows = s.mk[m].total_borrows /\ SameMarket(s.mk[m], u)
  BY <1>1 DEF TokenInfos, SameMarket
<1>r. LockedAs(s, m, a, y, z) = r
  BY DEF LockedAs
<1> HIDE DEF w, u
<1>4. /\ r \in Storage /\ r.store = s.store /\ r.coin = s.coin
      /\ r.acc[a] = w /\ \A b \in Addr : b # a => r.acc[b] = s.acc[b]
      /\ r.mk[m] = u /\ \A k \in Markets : k # m => r.mk[k] = s.mk[k]
  BY <1>0, <1>2, <1>3, BothSet
<1> HIDE DEF r
<1>5. SameMarket(s.mk[m], r.mk[m])
  BY <1>3, <1>4
<1>6. Sane(s) => \A k \in Markets : /\ One <= r.acc[a].interest_index[k]
                                    /\ r.acc[a].interest_index[k] <= s.mk[k].borrow_index
  BY <1>2, <1>4 DEF Sane
<1>7. /\ r.mk[m].total_supply = s.mk[m].total_supply + (r.acc[a].val[m] - s.acc[a].val[m])
      /\ r.mk[m].lock_supply = s.mk[m].lock_supply + (r.acc[a].lock[m] - s.acc[a].lock[m])
  BY <1>1, <1>2, <1>3, <1>4 DEF InStep
<1>8. \A k \in Markets : k # m => /\ r.acc[a].val[k] = s.acc[a].val[k]
                                  /\ r.acc[a].lock[k] = s.acc[a].lock[k]
  BY <1>2, <1>4
<1>9. /\ r.acc[a].supply_index = s.acc[a].supply_index
      /\ r.acc[a].borrow_index = s.acc[a].borrow_index
  BY <1>2, <1>4
<1>10. Moves(s, r)
  BY <1>4, <1>5, <1>6, <1>7, <1>8, <1>9, BothMove
<1> QED BY <1>2, <1>3, <1>4, <1>10, <1>r

LEMMA MintIs ==
  ASSUME NEW s \in Storage, NEW m \in Live, NEW a \in Addr, NEW t \in Nat, n \in 0 .. MaxMarkets
  PROVE  LET r == bank_mint(s, m, a, t) IN
         /\ Moves(s, r) /\ r.coin = s.coin
         /\ \A b \in Addr : r.acc[b].val = s.acc[b].val
         /\ \A k \in Markets : k # m => r.mk[k] = s.mk[k]
         /\ r.mk[m].total_supply = s.mk[m].total_supply
         /\ r.mk[m].total_borrows = s.mk[m].total_borrows
<1> DEFINE y == s.acc[a].lock[m] + t
           z == s.mk[m].lock_supply + t
<1>1. m \in Markets /\ s.acc[a].lock[m] \in Nat /\ s.mk[m].lock_supply \in Nat
  BY LiveFinite, Numbers
<1>2. y \in Nat /\ z \in Nat /\ InStep(s, m, a, y, z)
  BY <1>1 DEF InStep
<1>3. bank_mint(s, m, a, t) = LockedAs(s, m, a, y, z)
  BY DEF bank_mint, LockedAs
<1> HIDE DEF y, z
<1> QED BY <1>2, <1>3, LockSet

LEMMA BurnIs ==
  ASSUME NEW s \in Storage, NEW m \in Live, NEW a \in Addr, NEW t \in Nat, n \in 0 .. MaxMarkets,
         t <= s.acc[a].lock[m], Conserved(s)
  PROVE  LET r == Burn(s, m, a, t) IN
         /\ Moves(s, r) /\ r.coin = s.coin
         /\ \A b \in Addr : r.acc[b].val = s.acc[b].val
         /\ \A k \in Markets : k # m => r.mk[k] = s.mk[k]
         /\ r.mk[m].total_supply = s.mk[m].total_supply
         /\ r.mk[m].total_borrows = s.mk[m].total_borrows
         /\ t <= s.mk[m].lock_supply /\ r.mk[m].lock_supply = s.mk[m].lock_supply - t
         /\ \A b \in Addr : r.acc[b].principal = s.acc[b].principal
<1> DEFINE y == s.acc[a].lock[m] - t
           z == safe_sub(s.mk[m].lock_supply, t)
<1>1. m \in Markets /\ s.acc[a].lock[m] \in Nat /\ s.mk[m].lock_supply \in Nat
  BY LiveFinite, Numbers
<1>2. t <= s.mk[m].lock_supply
  <2>1. Locked(s, m) = s.mk[m].lock_supply /\ s.acc[a].lock[m] <= Locked(s, m)
    BY <1>1, LockedNat DEF Conserved
  <2> QED BY <1>1, <2>1
<1>3. z = s.mk[m].lock_supply - t
  BY <1>1, <1>2, SubIsNat
<1>4. y \in Nat /\ z \in Nat /\ InStep(s, m, a, y, z)
  BY <1>1, <1>2, <1>3 DEF InStep
<1>5. Burn(s, m, a, t) = LockedAs(s, m, a, y, z)
  BY DEF Burn, LockedAs
<1> HIDE DEF y, z
<1> QED BY <1>2, <1>3, <1>4, <1>5, LockSet

LEMMA OwesIs ==
  ASSUME NEW s \in Storage, NEW m \in Live, NEW a \in Addr, NEW y \in Nat, NEW z \in Nat,
         n \in 0 .. MaxMarkets
  PROVE  LET r == Owes(s, m, a, y, z) IN
         /\ Moves(s, r) /\ r.coin = s.coin
         /\ \A b \in Addr : r.acc[b].val = s.acc[b].val
         /\ \A k \in Markets : k # m => r.mk[k] = s.mk[k]
         /\ r.mk[m].total_supply = s.mk[m].total_supply
         /\ r.mk[m].lock_supply = s.mk[m].lock_supply /\ r.mk[m].total_borrows = z
         /\ r.mk[m].collateral_factor = s.mk[m].collateral_factor
         /\ \A b \in Addr \ {a} : r.acc[b] = s.acc[b]
         /\ r.acc[a].lock = s.acc[a].lock
         /\ r.acc[a].principal[m] = y /\ r.acc[a].interest_index[m] = s.mk[m].borrow_index
         /\ \A k \in Markets : k # m =>
              /\ r.acc[a].principal[k] = s.acc[a].principal[k]
              /\ r.acc[a].interest_index[k] = s.acc[a].interest_index[k]
<1>0. m \in Markets
  BY LiveFinite
<1> DEFINE i == s.mk[m].borrow_index
           v == [s.acc[a] EXCEPT !.principal[m] = y]
           w == [v EXCEPT !.interest_index[m] = i]
           u == [s.mk[m] EXCEPT !.total_borrows = z]
           r == WithMk(WithAcc(s, a, w), m, u)
<1>1. /\ s.acc[a] \in Accounts /\ s.mk[m] \in TokenInfos /\ i \in Pos
      /\ s.acc[a].interest_index[m] \in Pos
      /\ s.acc[a].val[m] \in Nat /\ s.acc[a].lock[m] \in Nat
      /\ s.mk[m].total_supply \in Nat /\ s.mk[m].lock_supply \in Nat
  BY <1>0, Numbers
<1>2. Owes(s, m, a, y, z) = r
  BY DEF Owes
<1>3. Sane(s) => One <= i /\ i <= i
  BY <1>0, <1>1, ScalePos DEF Sane, Pos
<1> HIDE DEF i
<1>4. /\ v \in Accounts /\ v.val = s.acc[a].val /\ v.lock = s.acc[a].lock
      /\ v.supply_index = s.acc[a].supply_index /\ v.borrow_index = s.acc[a].borrow_index
      /\ v.interest_index = s.acc[a].interest_index
      /\ v.principal[m] = y /\ \A k \in Markets : k # m => v.principal[k] = s.acc[a].principal[k]
  BY <1>0, <1>1 DEF Accounts
<1> HIDE DEF v
<1>5. /\ w \in Accounts /\ w.val = v.val /\ w.lock = v.lock
      /\ w.supply_index = v.supply_index /\ w.borrow_index = v.borrow_index
      /\ w.interest_index[m] = i /\ w.principal = v.principal
      /\ \A k \in Markets : k # m => w.interest_index[k] = v.interest_index[k]
  BY <1>0, <1>1, <1>4 DEF Accounts
<1>6. /\ u \in TokenInfos /\ u.total_supply = s.mk[m].total_supply
      /\ u.lock_supply = s.mk[m].lock_supply
      /\ u.total_borrows = z /\ u.collateral_factor = s.mk[m].collateral_factor
      /\ SameMarket(s.mk[m], u)
  BY <1>1 DEF TokenInfos, SameMarket
<1> HIDE DEF w, u
<1>7. /\ r \in Storage /\ r.store = s.store /\ r.coin = s.coin
      /\ r.acc[a] = w /\ \A b \in Addr : b # a => r.acc[b] = s.acc[b]
      /\ r.mk[m] = u /\ \A k \in Markets : k # m => r.mk[k] = s.mk[k]
  BY <1>0, <1>5, <1>6, BothSet
<1> HIDE DEF r
<1>8. Moves(s, r)
  <2>1. SameMarket(s.mk[m], r.mk[m])
    BY <1>6, <1>7
  <2>2. Sane(s) => \A k \in Markets : /\ One <= r.acc[a].interest_index[k]
                                      /\ r.acc[a].interest_index[k] <= s.mk[k].borrow_index
    BY <1>3, <1>4, <1>5, <1>7 DEF Sane, i
  <2>3. Conserved(s) =>
           /\ r.mk[m].total_supply = s.mk[m].total_supply + (r.acc[a].val[m] - s.acc[a].val[m])
           /\ r.mk[m].lock_supply = s.mk[m].lock_supply + (r.acc[a].lock[m] - s.acc[a].lock[m])
    BY <1>1, <1>4, <1>5, <1>6, <1>7
  <2>4. \A k \in Markets : k # m => /\ r.acc[a].val[k] = s.acc[a].val[k]
                                    /\ r.acc[a].lock[k] = s.acc[a].lock[k]
    BY <1>4, <1>5, <1>7
  <2>5. /\ r.acc[a].supply_index = s.acc[a].supply_index
        /\ r.acc[a].borrow_index = s.acc[a].borrow_index
    BY <1>4, <1>5, <1>7
  <2> QED BY <1>7, <2>1, <2>2, <2>3, <2>4, <2>5, BothMove
<1>9. \A b \in Addr : r.acc[b].val = s.acc[b].val
  BY <1>4, <1>5, <1>7
<1>10. /\ r.acc[a].lock = s.acc[a].lock
       /\ r.acc[a].principal[m] = y /\ r.acc[a].interest_index[m] = s.mk[m].borrow_index
       /\ \A k \in Markets : k # m =>
            /\ r.acc[a].principal[k] = s.acc[a].principal[k]
            /\ r.acc[a].interest_index[k] = s.acc[a].interest_index[k]
  <2>1. r.acc[a].lock = s.acc[a].lock /\ r.acc[a].principal = v.principal
        /\ r.acc[a].interest_index = w.interest_index
    BY <1>4, <1>5, <1>7
  <2>2. i = s.mk[m].borrow_index
    BY DEF i
  <2> QED BY <1>4, <1>5, <2>1, <2>2
<1> QED BY <1>2, <1>6, <1>7, <1>8, <1>9, <1>10

\* Bank tokens change hands.
LEMMA SeizedIs ==
  ASSUME NEW s \in Storage, NEW m \in Markets, NEW p \in Addr, NEW q \in Addr, p # q,
         NEW x \in Nat, x <= s.acc[p].lock[m]
  PROVE  LET r == WithAcc(WithAcc(s, p, [s.acc[p] EXCEPT !.lock[m] = @ - x]),
                          q, [s.acc[q] EXCEPT !.lock[m] = @ + x])
         IN  /\ Moves(s, r) /\ r.mk = s.mk /\ r.coin = s.coin
             /\ \A b \in Addr : r.acc[b].val = s.acc[b].val
<1> DEFINE y == s.acc[p].lock[m] - x
           z == s.acc[q].lock[m] + x
           v == [s.acc[p] EXCEPT !.lock[m] = y]
           w == [s.acc[q] EXCEPT !.lock[m] = z]
           t == WithAcc(s, p, v)
           r == WithAcc(t, q, w)
<1>1. /\ s.acc[p] \in Accounts /\ s.acc[q] \in Accounts
      /\ s.acc[p].lock[m] \in Nat /\ s.acc[q].lock[m] \in Nat
  BY Numbers
<1>2. y \in Nat /\ z \in Nat /\ y + z = s.acc[p].lock[m] + s.acc[q].lock[m]
  BY <1>1
<1>3. r = WithAcc(WithAcc(s, p, [s.acc[p] EXCEPT !.lock[m] = @ - x]),
                  q, [s.acc[q] EXCEPT !.lock[m] = @ + x])
  OBVIOUS
<1> HIDE DEF y, z
<1>4. /\ v \in Accounts /\ v.val = s.acc[p].val /\ v.interest_index = s.acc[p].interest_index
      /\ v.supply_index = s.acc[p].supply_index /\ v.borrow_index = s.acc[p].borrow_index
      /\ v.lock[m] = y /\ \A k \in Markets : k # m => v.lock[k] = s.acc[p].lock[k]
  BY <1>1, <1>2 DEF Accounts
<1>5. /\ w \in Accounts /\ w.val = s.acc[q].val /\ w.interest_index = s.acc[q].interest_index
      /\ w.supply_index = s.acc[q].supply_index /\ w.borrow_index = s.acc[q].borrow_index
      /\ w.lock[m] = z /\ \A k \in Markets : k # m => w.lock[k] = s.acc[q].lock[k]
  BY <1>1, <1>2 DEF Accounts
<1> HIDE DEF v, w
<1>6. /\ t \in Storage /\ t.mk = s.mk /\ t.store = s.store /\ t.coin = s.coin
      /\ t.acc[p] = v /\ \A b \in Addr : b # p => t.acc[b] = s.acc[b]
  BY <1>4, AccSet
<1> HIDE DEF t
<1>7. /\ r \in Storage /\ r.mk = s.mk /\ r.store = s.store /\ r.coin = s.coin
      /\ r.acc[q] = w /\ \A b \in Addr : b # q => r.acc[b] = t.acc[b]
  BY <1>5, <1>6, AccSet
<1> HIDE DEF r
<1>8. \A b \in Addr : /\ r.acc[b].val = s.acc[b].val
                      /\ r.acc[b].interest_index = s.acc[b].interest_index
                      /\ r.acc[b].supply_index = s.acc[b].supply_index
                      /\ r.acc[b].borrow_index = s.acc[b].borrow_index
  BY <1>4, <1>5, <1>6, <1>7
<1>9. ASSUME NEW k \in Markets PROVE Held(r, k) = Held(s, k) /\ Locked(r, k) = Locked(s, k)
  <2>1. Held(r, k) = Held(s, k)
    BY <1>8, HeldSame
  <2>2. CASE k # m
    <3>1. \A b \in Addr : r.acc[b].lock[k] = s.acc[b].lock[k]
      BY <1>4, <1>5, <1>6, <1>7, <2>2
    <3> QED BY <2>1, <3>1, LockedSame
  <2>3. CASE k = m
    <3>1. Locked(t, m) = Locked(s, m) + (t.acc[p].lock[m] - s.acc[p].lock[m])
      BY <1>6, LockedChange
    <3>2. Locked(r, m) = Locked(t, m) + (r.acc[q].lock[m] - t.acc[q].lock[m])
      BY <1>6, <1>7, LockedChange
    <3>3. t.acc[p].lock[m] = y /\ t.acc[q] = s.acc[q] /\ r.acc[q].lock[m] = z
      BY <1>4, <1>5, <1>6, <1>7
    <3>4. Locked(s, m) \in Nat
      BY LockedNat
    <3> QED BY <1>1, <1>2, <2>1, <2>3, <3>1, <3>2, <3>3, <3>4
  <2> QED BY <2>2, <2>3
<1>10. Sane(s) => Sane(r)
  BY <1>7, <1>8 DEF Sane
<1>11. Moves(s, r)
  BY <1>7, <1>9, <1>10 DEF Moves, Conserved
<1> QED BY <1>3, <1>7, <1>8, <1>11

----------------------------------------------------------------------------
(* A transaction, from storage h to storage r.                            *)

\* Account a draws a loan in market m; whoever does so is covered.
Draws(h, r, a, m) ==
  /\ r.acc[a].val[m] > h.acc[a].val[m]
  /\ r.acc[a].principal[m] > h.acc[a].principal[m]
Covered(h, r) ==
  \A a \in Users, m \in Live : Draws(h, r, a, m) => Collateral(r, a) + 1 >= Debt(r, a)

Orderly(h, r) ==
  /\ r \in Storage /\ Good(r)
  /\ \A m \in Live : /\ h.mk[m].borrow_index <= r.mk[m].borrow_index
                     /\ h.mk[m].incentive_supply_index <= r.mk[m].incentive_supply_index
                     /\ h.mk[m].incentive_borrow_index <= r.mk[m].incentive_borrow_index
  /\ h.store.disabled =>
       /\ r.store.disabled
       /\ \A a \in Addr : r.acc[a].lock = h.acc[a].lock /\ r.acc[a].principal = h.acc[a].principal
       /\ \A c \in Coins : h.coin[Bank][c] <= r.coin[Bank][c]
  /\ Covered(h, r)

\* Whatever anybody but the contract's account does, no rate is lost.
Lawful(h, r) == Orderly(h, r) /\ \A m \in Live : Solvent(h, m) => Rated(r, m)

\* Who owes no more than before draws no loan, nor who has no more to spend.
LEMMA NoDebtCovers ==
  ASSUME NEW h \in Storage, NEW r, n \in 0 .. MaxMarkets,
         \A a \in Users, m \in Live : \/ r.acc[a].principal[m] <= h.acc[a].principal[m]
                                    \/ r.acc[a].val[m] <= h.acc[a].val[m],
         r \in Storage
  PROVE  Covered(h, r)
<1> SUFFICES ASSUME NEW a \in Users, NEW m \in Live PROVE ~Draws(h, r, a, m)
  BY DEF Covered
<1>1. /\ h.acc[a].principal[m] \in Nat /\ r.acc[a].principal[m] \in Nat
      /\ h.acc[a].val[m] \in Nat /\ r.acc[a].val[m] \in Nat
  BY LiveFinite, BankAddr, Numbers
<1> QED BY <1>1 DEF Draws

LEMMA SameDebtCovers ==
  ASSUME NEW h \in Storage, NEW r \in Storage, n \in 0 .. MaxMarkets,
         \A a \in Addr : r.acc[a].principal = h.acc[a].principal
  PROVE  Covered(h, r)
<1>1. ASSUME NEW a \in Users, NEW m \in Live
      PROVE  r.acc[a].principal[m] <= h.acc[a].principal[m]
  <2>1. h.acc[a].principal[m] \in Nat /\ r.acc[a].principal = h.acc[a].principal
    BY LiveFinite, BankAddr, Numbers
  <2> QED BY <2>1
<1> QED BY <1>1, NoDebtCovers

LEMMA StaysSolvent ==
  ASSUME NEW s \in Storage, NEW r \in Storage, NEW m \in Markets, Solvent(s, m),
         Cash(s, m) + s.mk[m].total_borrows + r.mk[m].total_reserves
           <= Cash(r, m) + r.mk[m].total_borrows + s.mk[m].total_reserves
  PROVE  Solvent(r, m)
<1>1. /\ Cash(s, m) \in Nat /\ s.mk[m].total_borrows \in Nat /\ s.mk[m].total_reserves \in Nat
      /\ Cash(r, m) \in Nat /\ r.mk[m].total_borrows \in Nat /\ r.mk[m].total_reserves \in Nat
  BY Numbers, BankAddr DEF Cash
<1> QED BY <1>1 DEF Solvent

LEMMA KeepsSolvent ==
  ASSUME NEW s \in Storage, NEW r, Keeps(s, r), NEW m \in Markets, Solvent(s, m)
  PROVE  Solvent(r, m)
<1>1. r \in Storage
  BY DEF Keeps
<1>2. Cash(r, m) = Cash(s, m)
  BY BankAddr DEF Cash, Keeps, SameHoldings
<1>3. /\ Cash(s, m) \in Nat /\ s.mk[m].total_borrows \in Nat /\ s.mk[m].total_reserves \in Nat
      /\ r.mk[m].total_borrows \in Nat /\ r.mk[m].total_reserves \in Nat
  BY <1>1, Numbers, BankAddr DEF Cash
<1>4. s.mk[m].total_borrows + r.mk[m].total_reserves <= r.mk[m].total_borrows + s.mk[m].total_reserves
  BY DEF Keeps, Kept
<1> QED BY <1>1, <1>2, <1>3, <1>4, StaysSolvent

\* Bookkeeping alone is lawful, if it pays nothing after disable.
LEMMA KeepsLawful ==
  ASSUME NEW h \in Storage, Good(h), NEW r, Keeps(h, r), n \in 0 .. MaxMarkets,
         h.store.disabled => \A c \in Coins : h.coin[Bank][c] <= r.coin[Bank][c]
  PROVE  Lawful(h, r)
<1>1. r \in Storage /\ Good(r)
  BY KeepsGood DEF Keeps
<1>2. \A m \in Live : m \in Markets /\ Kept(h.mk[m], r.mk[m])
  BY LiveFinite DEF Keeps
<1>3. \A a \in Addr : r.acc[a].lock = h.acc[a].lock /\ r.acc[a].principal = h.acc[a].principal
  BY DEF Keeps, SameHoldings
<1>4. \A m \in Live : Solvent(h, m) => Rated(r, m)
  BY <1>2, KeepsSolvent DEF Rated
<1>5. Covered(h, r)
  BY <1>1, <1>3, SameDebtCovers
<1> QED BY <1>1, <1>2, <1>3, <1>4, <1>5 DEF Lawful, Orderly, Kept, Keeps

LEMMA BooksLawful ==
  ASSUME NEW h \in Storage, Good(h), NEW r, Books(h, r), n \in 0 .. MaxMarkets
  PROVE  Lawful(h, r)
<1>1. \A c \in Coins : h.coin[Bank][c] <= r.coin[Bank][c]
  <2>1. r.coin = h.coin /\ \A c \in Coins : h.coin[Bank][c] \in Nat
    BY Parts, BankAddr DEF Books, Purses
  <2> QED BY <2>1
<1> QED BY <1>1, BooksKeep, KeepsLawful

LEMMA MovesGood ==
  ASSUME NEW s \in Storage, Good(s), NEW r, Moves(s, r), Backed(r), n \in 0 .. MaxMarkets
  PROVE  Good(r)
<1>1. Blank(r)
  BY DEF Good, Blank, Moves
<1>2. OneCoin(r)
  BY LiveFinite DEF Good, OneCoin, Moves
<1> QED BY <1>1, <1>2 DEF Good, Moves

\* The four operations on locked tokens and loans, and the liquidation.
LEMMA LendingLawful ==
  ASSUME NEW h \in Storage, Good(h), ~h.store.disabled, n \in 0 .. MaxMarkets,
         NEW s, Keeps(h, s), NEW r, Moves(s, r), r.coin = s.coin,
         \A m \in Markets : r.mk[m].total_supply = s.mk[m].total_supply,
         \A m \in Live : Solvent(s, m) => Rated(r, m),
         Covered(s, r)
  PROVE  Lawful(h, r)
<1>1. s \in Storage /\ Good(s) /\ r \in Storage
  BY KeepsGood DEF Keeps, Moves
<1>2. Backed(r)
  BY <1>1, LiveFinite DEF Good, Backed, Moves
<1>3. Good(r)
  BY <1>1, <1>2, MovesGood
<1>4. \A m \in Live : /\ h.mk[m].borrow_index <= r.mk[m].borrow_index
                      /\ h.mk[m].incentive_supply_index <= r.mk[m].incentive_supply_index
                      /\ h.mk[m].incentive_borrow_index <= r.mk[m].incentive_borrow_index
  BY LiveFinite DEF Keeps, Kept, Moves
<1>5. \A m \in Live : Solvent(h, m) => Rated(r, m)
  BY LiveFinite, KeepsSolvent
<1>6. Covered(h, r)
  BY BankAddr DEF Covered, Draws, Keeps, SameHoldings
<1> QED BY <1>1, <1>3, <1>4, <1>5, <1>6 DEF Lawful, Orderly

LEMMA RateNat ==
  ASSUME NEW s \in Storage, NEW m \in Markets, Rated(s, m)
  PROVE  /\ exchange_rate(s, m) \in Nat
         /\ s.mk[m].lock_supply # 0 =>
              exchange_rate(s, m) * s.mk[m].lock_supply
                <= (Cash(s, m) + s.mk[m].total_borrows - s.mk[m].total_reserves) * SCALE
<1> DEFINE L == s.mk[m].lock_supply
           V == Cash(s, m) + s.mk[m].total_borrows - s.mk[m].total_reserves
<1>1. L \in Nat /\ s.mk[m].total_borrows \in Nat /\ s.mk[m].total_reserves \in Nat /\ Cash(s, m) \in Nat
  BY Numbers, BankAddr DEF Cash
<1>2. exchange_rate(s, m) = IF L = 0 THEN new_mantissa(1, 100) ELSE new_mantissa(V, L)
  BY DEF exchange_rate
<1>3. L # 0 => V \in Nat
  BY <1>1 DEF Rated, Solvent
<1>4. new_mantissa(1, 100) \in Nat
  BY DivIsNat, 100 \in Pos DEF Pos
<1> HIDE DEF L, V
<1>5. ASSUME L # 0 PROVE new_mantissa(V, L) \in Nat /\ new_mantissa(V, L) * L <= V * SCALE
  <2>1. L \in Pos /\ V * SCALE \in Nat
    BY <1>1, <1>3, <1>5, ScalePos, MulNat DEF Pos
  <2> QED BY <2>1, DivNat DEF new_mantissa
<1> QED BY <1>2, <1>4, <1>5 DEF L, V

LEMMA LockLawful ==
  ASSUME NEW h \in Storage, Good(h), ~h.store.disabled, n \in 0 .. MaxMarkets,
         NEW s, Keeps(h, s), NEW m \in Live, NEW a \in Addr, NEW x \in Nat, NEW t \in Nat,
         CanPay(s, m, a, Bank, x)
  PROVE  Lawful(h, bank_mint(Pay(s, m, a, Bank, x), m, a, t))
<1>0. m \in Markets /\ Bank \in Addr /\ s \in Storage
  BY LiveFinite, BankAddr DEF Keeps
<1> DEFINE p == Pay(s, m, a, Bank, x)
           r == bank_mint(p, m, a, t)
<1>1. a # Bank /\ x <= s.acc[a].val[m] /\ s.acc[a].val[m] \in Nat /\ s.acc[Bank].val[m] \in Nat
  BY <1>0, Numbers DEF CanPay
<1>2. /\ Moves(s, p) /\ p.mk = s.mk /\ p.coin = s.coin
      /\ p.acc[Bank].val[m] = s.acc[Bank].val[m] + x
      /\ \A k \in Markets : k # m => p.acc[Bank].val[k] = s.acc[Bank].val[k]
      /\ p.acc[a].val[m] = s.acc[a].val[m] - x
      /\ \A b \in Addr, k \in Markets : b \notin {a, Bank} \/ k # m => p.acc[b].val[k] = s.acc[b].val[k]
  BY <1>0, <1>1, PayIs
<1>3. p \in Storage
  BY <1>2 DEF Moves
<1> HIDE DEF p
<1>4. /\ Moves(p, r) /\ r.coin = p.coin
      /\ \A b \in Addr : r.acc[b].val = p.acc[b].val
      /\ \A k \in Markets : k # m => r.mk[k] = p.mk[k]
      /\ r.mk[m].total_supply = p.mk[m].total_supply
      /\ r.mk[m].total_borrows = p.mk[m].total_borrows
  BY <1>3, MintIs
<1> HIDE DEF r
<1>5. Moves(s, r) /\ r \in Storage
  BY <1>2, <1>4, MovesTwice DEF Moves
<1>6. \A k \in Markets : r.mk[k].total_supply = s.mk[k].total_supply
  BY <1>2, <1>4
<1>7. ASSUME NEW k \in Live, Solvent(s, k) PROVE Rated(r, k)
  <2>0. k \in Markets
    BY LiveFinite
  <2>1. /\ Cash(s, k) <= Cash(r, k) /\ r.mk[k].total_borrows = s.mk[k].total_borrows
        /\ r.mk[k].total_reserves = s.mk[k].total_reserves
        /\ Cash(s, k) \in Nat /\ Cash(r, k) \in Nat
        /\ s.mk[k].total_borrows \in Nat /\ s.mk[k].total_reserves \in Nat
    <3>1. Cash(s, k) \in Nat /\ s.mk[k].total_borrows \in Nat /\ s.mk[k].total_reserves \in Nat
      BY <1>0, <2>0, Numbers DEF Cash
    <3>2. Cash(r, k) = IF k = m THEN Cash(s, k) + x ELSE Cash(s, k)
      BY <1>0, <1>2, <1>4, <2>0 DEF Cash
    <3>3. r.mk[k].total_borrows = s.mk[k].total_borrows
      BY <1>2, <1>4, <2>0
    <3>4. r.mk[k].total_reserves = s.mk[k].total_reserves
      BY <1>5, <2>0 DEF Moves
    <3> QED BY <3>1, <3>2, <3>3, <3>4
  <2>2. Solvent(r, k)
    BY <1>0, <1>5, <1>7, <2>0, <2>1, StaysSolvent
  <2> QED BY <2>2 DEF Rated
<1>8. Covered(s, r)
  <2>1. ASSUME NEW b \in Users, NEW k \in Live PROVE r.acc[b].val[k] <= s.acc[b].val[k]
    <3>1. k \in Markets /\ b \in Addr /\ b # Bank /\ s.acc[b].val[k] \in Nat
      BY <1>0, LiveFinite, BankAddr, Numbers
    <3>2. r.acc[b].val[k] = s.acc[b].val[k] \/ (b = a /\ k = m)
      BY <1>2, <1>4, <3>1
    <3> QED BY <1>1, <1>2, <1>4, <3>1, <3>2
  <2> QED BY <1>0, <1>5, <2>1, NoDebtCovers
<1>9. Lawful(h, r)
  BY <1>2, <1>4, <1>5, <1>6, <1>7, <1>8, LendingLawful
<1> QED BY <1>9 DEF r, p

\* A change of one market leaves the others as solvent as they are.
LEMMA OthersRated ==
  ASSUME NEW s \in Storage, NEW r \in Storage, NEW m \in Live, n \in 0 .. MaxMarkets,
         \A k \in Markets : k # m => r.mk[k] = s.mk[k],
         \A k \in Markets : k # m => r.acc[Bank].val[k] = s.acc[Bank].val[k],
         Solvent(s, m) => Rated(r, m)
  PROVE  \A k \in Live : Solvent(s, k) => Rated(r, k)
<1> SUFFICES ASSUME NEW k \in Live, k # m, Solvent(s, k) PROVE Rated(r, k)
  OBVIOUS
<1>1. k \in Markets /\ r.mk[k] = s.mk[k] /\ Cash(r, k) = Cash(s, k)
  BY LiveFinite DEF Cash
<1> QED BY <1>1 DEF Rated, Solvent

\* x units for t bank tokens, rounded down, while others remain: those who
\* redeem get no more than the market is worth.
LEMMA UnitsForTokens ==
  ASSUME NEW x \in Nat, NEW er \in Pos, NEW L \in Nat, NEW V \in Nat,
         mantissa_div(x, er) < L, er * L <= V * SCALE
  PROVE  x <= V
<1> DEFINE t == mantissa_div(x, er)
<1>1. x * SCALE \in Nat /\ SCALE \in Pos /\ er \in Nat
  BY ScalePos, MulNat DEF Pos
<1>2. t \in Nat /\ x * SCALE < t * er + er
  BY <1>1, DivNat DEF mantissa_div
<1>3. t + 1 <= L
  BY <1>2
<1> HIDE DEF t
<1>4. (t + 1) * er <= L * er
  BY <1>1, <1>2, <1>3
<1>5. (t + 1) * er = t * er + er /\ L * er = er * L
  BY <1>1, <1>2
<1>6. x * SCALE < V * SCALE
  <2>1. t * er \in Nat /\ L * er \in Nat /\ V * SCALE \in Nat
    BY <1>1, <1>2, MulNat DEF Pos
  <2> QED BY <1>1, <1>2, <1>4, <1>5, <2>1
<1> SUFFICES ASSUME V < x PROVE FALSE
  OBVIOUS
<1>7. V * SCALE <= x * SCALE
  BY <1>1 DEF Pos
<1>8. V * SCALE \in Nat
  BY <1>1, MulNat DEF Pos
<1> QED BY <1>1, <1>6, <1>7, <1>8

LEMMA TokensForUnits ==
  ASSUME NEW t \in Nat, NEW er \in Nat, NEW L \in Nat, NEW V \in Nat,
         t <= L, er * L <= V * SCALE
  PROVE  mantissa_mul(t, er) <= V
<1> DEFINE q == mantissa_mul(t, er)
<1>1. SCALE \in Pos /\ SCALE \in Nat /\ t * er \in Nat /\ L * er \in Nat /\ V * SCALE \in Nat
  BY ScalePos, MulNat DEF Pos
<1>2. q \in Nat /\ q * SCALE <= t * er
  BY <1>1, DivNat DEF mantissa_mul
<1>3. t * er <= L * er /\ L * er = er * L
  OBVIOUS
<1> HIDE DEF q
<1>4. q * SCALE \in Nat
  BY <1>1, <1>2, MulNat
<1>5. q * SCALE <= V * SCALE
  BY <1>1, <1>2, <1>3, <1>4
<1> SUFFICES ASSUME V < q PROVE FALSE
  BY <1>2 DEF q
<1>6. V + 1 <= q
  BY <1>2
<1>7. (V + 1) * SCALE <= q * SCALE /\ (V + 1) * SCALE = V * SCALE + SCALE
  BY <1>1, <1>2, <1>6
<1> QED BY <1>1, <1>4, <1>5, <1>7 DEF Pos

\* A debt or a lock is written down, to give q, and then the units are paid.
ThenPaid(s, q, r, m, p, b, x) ==
  /\ Moves(s, r) /\ r \in Storage /\ r.coin = s.coin /\ r.mk = q.mk
  /\ \A k \in Markets : r.mk[k].total_supply = s.mk[k].total_supply
  /\ \A k \in Markets : k # m => r.mk[k] = s.mk[k]
  /\ \A k \in Markets : k # m => r.acc[Bank].val[k] = s.acc[Bank].val[k]
  /\ r.acc[p].val[m] = s.acc[p].val[m] - x /\ r.acc[b].val[m] = s.acc[b].val[m] + x
  /\ r.mk[m].total_reserves = s.mk[m].total_reserves
  /\ \A c \in Addr : SameBut(q.acc[c], r.acc[c])
  /\ \A c \in Addr, k \in Markets : c \notin {p, b} \/ k # m => r.acc[c].val[k] = s.acc[c].val[k]

LEMMA ThenPay ==
  ASSUME NEW s \in Storage, NEW q, Moves(s, q), q.coin = s.coin, NEW m \in Live, n \in 0 .. MaxMarkets,
         \A b \in Addr : q.acc[b].val = s.acc[b].val,
         \A k \in Markets : k # m => q.mk[k] = s.mk[k],
         q.mk[m].total_supply = s.mk[m].total_supply,
         NEW p \in Addr, NEW b \in Addr, NEW x \in Nat, CanPay(s, m, p, b, x)
  PROVE  ThenPaid(s, q, Pay(q, m, p, b, x), m, p, b, x)
<1>0. m \in Markets /\ Bank \in Addr /\ q \in Storage
  BY LiveFinite, BankAddr DEF Moves
<1> DEFINE r == Pay(q, m, p, b, x)
<1>1. p # b /\ x <= q.acc[p].val[m]
  BY <1>0, Numbers DEF CanPay
<1>2. /\ Moves(q, r) /\ r.mk = q.mk /\ r.coin = q.coin
      /\ r.acc[p].val[m] = q.acc[p].val[m] - x /\ r.acc[b].val[m] = q.acc[b].val[m] + x
      /\ \A a \in Addr, k \in Markets : a \notin {p, b} \/ k # m => r.acc[a].val[k] = q.acc[a].val[k]
      /\ \A a \in Addr : SameBut(q.acc[a], r.acc[a])
  BY <1>0, <1>1, PayIs
<1> HIDE DEF r
<1>3. Moves(s, r) /\ r \in Storage
  BY <1>2, MovesTwice DEF Moves
<1>4. r.mk[m].total_reserves = s.mk[m].total_reserves
  BY <1>0, <1>3 DEF Moves
<1>5. ThenPaid(s, q, r, m, p, b, x)
  BY <1>0, <1>2, <1>3, <1>4 DEF ThenPaid
<1> QED BY <1>5 DEF r

LEMMA RedeemLawful ==
  ASSUME NEW h \in Storage, Good(h), ~h.store.disabled, n \in 0 .. MaxMarkets,
         NEW s, Keeps(h, s), NEW m \in Live, NEW a \in Addr, NEW t \in Nat, NEW x \in Nat,
         t <= s.acc[a].lock[m], CanPay(s, m, Bank, a, x), Rated(s, m), exchange_rate(s, m) > 0,
         t = mantissa_div(x, exchange_rate(s, m)) \/ x = mantissa_mul(t, exchange_rate(s, m))
  PROVE  Lawful(h, Pay(Burn(s, m, a, t), m, Bank, a, x))
<1>0. m \in Markets /\ Bank \in Addr /\ s \in Storage /\ Good(s) /\ Conserved(s)
  BY LiveFinite, BankAddr, KeepsGood DEF Keeps, Good
<1> DEFINE q == Burn(s, m, a, t)
           r == Pay(q, m, Bank, a, x)
           L == s.mk[m].lock_supply
           V == Cash(s, m) + s.mk[m].total_borrows - s.mk[m].total_reserves
           er == exchange_rate(s, m)
<1>1. /\ Moves(s, q) /\ q.coin = s.coin
      /\ \A b \in Addr : q.acc[b].val = s.acc[b].val
      /\ \A k \in Markets : k # m => q.mk[k] = s.mk[k]
      /\ q.mk[m].total_supply = s.mk[m].total_supply
      /\ q.mk[m].total_borrows = s.mk[m].total_borrows
      /\ t <= L /\ q.mk[m].lock_supply = L - t
      /\ \A b \in Addr : q.acc[b].principal = s.acc[b].principal
  BY <1>0, BurnIs
<1> HIDE DEF q
<1>2. ThenPaid(s, q, r, m, Bank, a, x)
  BY <1>0, <1>1, ThenPay
<1> HIDE DEF r
<1>3. /\ L \in Nat /\ Cash(s, m) \in Nat /\ s.mk[m].total_borrows \in Nat
      /\ s.mk[m].total_reserves \in Nat
  BY <1>0, Numbers DEF Cash
<1>4. er \in Pos /\ (L # 0 => er * L <= V * SCALE)
  BY <1>0, RateNat DEF Pos
<1>5. Cash(r, m) = Cash(s, m) - x
  BY <1>0, <1>2 DEF ThenPaid, Cash
<1>6. /\ r.mk[m].total_borrows = s.mk[m].total_borrows /\ r.mk[m].lock_supply = L - t
      /\ r.mk[m].total_reserves = s.mk[m].total_reserves
  BY <1>0, <1>1, <1>2 DEF ThenPaid
<1>7. ASSUME Solvent(s, m), L - t # 0 PROVE x <= V
  <2>1. V \in Nat
    BY <1>3, <1>7 DEF Solvent
  <2> HIDE DEF V, L, er
  <2>2. L # 0 /\ t < L /\ er \in Nat
    <3>1. L - t # 0 /\ t <= L
      BY <1>1, <1>7
    <3> QED BY <1>3, <1>4, <3>1 DEF Pos
  <2>3. CASE t = mantissa_div(x, er)
    BY <1>3, <1>4, <2>1, <2>2, <2>3, UnitsForTokens
  <2>4. CASE x = mantissa_mul(t, er)
    BY <1>1, <1>3, <1>4, <2>1, <2>2, <2>4, TokensForUnits
  <2> QED BY <2>3, <2>4 DEF er
<1>8. Solvent(s, m) => Rated(r, m)
  BY <1>3, <1>5, <1>6, <1>7 DEF Rated, Solvent
<1>9. \A k \in Live : Solvent(s, k) => Rated(r, k)
  BY <1>0, <1>2, <1>8, OthersRated DEF ThenPaid
<1>10. Covered(s, r)
  <2>1. \A b \in Addr : r.acc[b].principal = s.acc[b].principal
    BY <1>1, <1>2 DEF ThenPaid, SameBut
  <2> QED BY <1>0, <1>2, <2>1, SameDebtCovers DEF ThenPaid
<1>11. Lawful(h, r)
  BY <1>2, <1>9, <1>10, LendingLawful DEF ThenPaid
<1> QED BY <1>11 DEF r, q

LEMMA LendIs ==
  ASSUME NEW s \in Storage, n \in 0 .. MaxMarkets,
         NEW m \in Live, NEW a \in Addr, NEW x \in Nat, CanPay(s, m, Bank, a, x)
  PROVE  LET r == Lend(s, a, m, x) IN
         /\ Moves(s, r) /\ r \in Storage /\ r.coin = s.coin
         /\ \A k \in Markets : r.mk[k].total_supply = s.mk[k].total_supply
         /\ \A k \in Live : Solvent(s, k) => Rated(r, k)
<1>0. m \in Markets /\ Bank \in Addr
  BY LiveFinite, BankAddr
<1> DEFINE B == s.mk[m].total_borrows
           y == borrow_balance_of_index(s, m, a) + x
           z == B + x
           q == Owes(s, m, a, y, z)
           r == Pay(q, m, Bank, a, x)
<1>1. B \in Nat /\ Cash(s, m) \in Nat /\ s.mk[m].total_reserves \in Nat
  BY <1>0, Numbers DEF Cash
<1>2. y \in Nat /\ z \in Nat
  BY <1>0, <1>1, BalanceIsNat
<1>3. Lend(s, a, m, x) = r
  BY DEF Lend
<1> HIDE DEF y, z
<1>4. /\ Moves(s, q) /\ q.coin = s.coin
      /\ \A b \in Addr : q.acc[b].val = s.acc[b].val
      /\ \A k \in Markets : k # m => q.mk[k] = s.mk[k]
      /\ q.mk[m].total_supply = s.mk[m].total_supply
      /\ q.mk[m].total_borrows = z
  BY <1>0, <1>2, OwesIs
<1> HIDE DEF q
<1>5. ThenPaid(s, q, r, m, Bank, a, x)
  BY <1>0, <1>4, ThenPay
<1> HIDE DEF r
<1>6. /\ Cash(r, m) = Cash(s, m) - x /\ r.mk[m].total_borrows = z
      /\ r.mk[m].total_reserves = s.mk[m].total_reserves
  BY <1>0, <1>4, <1>5 DEF ThenPaid, Cash
<1>7. Solvent(s, m) => Rated(r, m)
  BY <1>1, <1>6 DEF Rated, Solvent, z
<1>8. \A k \in Live : Solvent(s, k) => Rated(r, k)
  BY <1>0, <1>5, <1>7, OthersRated DEF ThenPaid
<1> QED BY <1>3, <1>5, <1>8 DEF ThenPaid

\* The balance of an account is its principal, once its index is the market's:
\* the two roundings of borrow_balance_of_index only take away.
LEMMA RoundsDown ==
  ASSUME NEW y \in Nat, NEW i \in Pos
  PROVE  mantissa_div(mantissa_mul(y, i), i) <= y
<1> DEFINE q == (y * i) \div SCALE
           d == (q * SCALE) \div i
<1>1. i \in Nat /\ SCALE \in Nat /\ y * i \in Nat
  BY ScalePos, MulNat DEF Pos
<1>2. q \in Nat /\ q * SCALE <= y * i
  BY <1>1, ScalePos, DivNat
<1>3. q * SCALE \in Nat
  BY <1>1, <1>2, MulNat
<1>4. d \in Nat /\ d * i <= q * SCALE
  BY <1>3, DivNat
<1>5. d = mantissa_div(mantissa_mul(y, i), i)
  BY DEF mantissa_div, mantissa_mul
<1> HIDE DEF d, q
<1>6. d <= y
  <2> SUFFICES ASSUME y + 1 <= d PROVE FALSE
    BY <1>4
  <2>1. (y + 1) * i <= d * i
    BY <1>1, <1>4
  <2>2. (y + 1) * i = y * i + i
    BY <1>1
  <2>3. d * i \in Nat
    BY <1>1, <1>4, MulNat
  <2> QED BY <1>1, <1>2, <1>3, <1>4, <2>1, <2>2, <2>3 DEF Pos
<1> QED BY <1>5, <1>6

\* The value of a sum is at most one more than the sum of the values.
LEMMA ValueSplits ==
  ASSUME NEW b \in Nat, NEW x \in Nat, NEW d \in Nat, d <= b + x, NEW p \in Nat
  PROVE  mantissa_mul(d, p) <= mantissa_mul(b, p) + mantissa_mul(x, p) + 1
<1> DEFINE u == (b * p) \div SCALE
           v == (x * p) \div SCALE
           w == (d * p) \div SCALE
<1>1. SCALE \in Nat /\ SCALE > 0 /\ b * p \in Nat /\ x * p \in Nat /\ d * p \in Nat
  BY ScalePos, MulNat DEF Pos
<1>2. /\ u \in Nat /\ b * p < u * SCALE + SCALE
      /\ v \in Nat /\ x * p < v * SCALE + SCALE
      /\ w \in Nat /\ w * SCALE <= d * p
  BY <1>1, ScalePos, DivNat
<1>3. d * p <= b * p + x * p
  <2>1. d * p <= (b + x) * p
    BY <1>1
  <2>2. (b + x) * p = b * p + x * p
    OBVIOUS
  <2> QED BY <2>1, <2>2
<1> HIDE DEF u, v, w
<1>4. w <= u + v + 1
  <2> SUFFICES ASSUME u + v + 2 <= w PROVE FALSE
    BY <1>2
  <2>1. (u + v + 2) * SCALE <= w * SCALE
    BY <1>1, <1>2
  <2>2. (u + v + 2) * SCALE = u * SCALE + SCALE + (v * SCALE + SCALE)
    BY <1>1, <1>2
  <2>3. u * SCALE \in Nat /\ v * SCALE \in Nat /\ w * SCALE \in Nat
    BY <1>1, <1>2, MulNat
  <2> QED BY <1>1, <1>2, <1>3, <2>1, <2>2, <2>3
<1> QED BY <1>4 DEF u, v, w, mantissa_mul

\* What lending x of market m to account a leaves of a's own numbers, and of
\* the markets that account_liquidity looks at.
Lent(s, r, a, m, x) ==
  /\ r.acc[a].lock = s.acc[a].lock
  /\ r.acc[a].principal[m] = borrow_balance_of_index(s, m, a) + x
  /\ r.acc[a].interest_index[m] = r.mk[m].borrow_index
  /\ \A k \in Markets : k # m =>
       /\ r.acc[a].principal[k] = s.acc[a].principal[k]
       /\ r.acc[a].interest_index[k] = s.acc[a].interest_index[k]
       /\ r.mk[k] = s.mk[k] /\ Cash(r, k) = Cash(s, k)
  /\ r.mk[m].lock_supply = s.mk[m].lock_supply /\ r.mk[m].price = s.mk[m].price
  /\ r.mk[m].collateral_factor = s.mk[m].collateral_factor
  /\ Cash(r, m) + r.mk[m].total_borrows - r.mk[m].total_reserves
       = Cash(s, m) + s.mk[m].total_borrows - s.mk[m].total_reserves

LEMMA LendLent ==
  ASSUME NEW s \in Storage, n \in 0 .. MaxMarkets,
         NEW m \in Live, NEW a \in Addr, NEW x \in Nat, CanPay(s, m, Bank, a, x)
  PROVE  LET r == Lend(s, a, m, x) IN
         /\ r \in Storage /\ Lent(s, r, a, m, x)
         /\ \A b \in Addr \ {a} : r.acc[b].principal = s.acc[b].principal
<1>0. m \in Markets /\ Bank \in Addr /\ a # Bank
  BY LiveFinite, BankAddr DEF CanPay
<1> DEFINE B == s.mk[m].total_borrows
           y == borrow_balance_of_index(s, m, a) + x
           z == B + x
           q == Owes(s, m, a, y, z)
           r == Pay(q, m, Bank, a, x)
<1>1. B \in Nat /\ Cash(s, m) \in Nat /\ s.mk[m].total_reserves \in Nat
  BY <1>0, Numbers DEF Cash
<1>2. y \in Nat /\ z \in Nat
  BY <1>0, <1>1, BalanceIsNat
<1>3. Lend(s, a, m, x) = r
  BY DEF Lend
<1> HIDE DEF z
<1>4. /\ Moves(s, q) /\ q.coin = s.coin
      /\ \A b \in Addr : q.acc[b].val = s.acc[b].val
      /\ \A k \in Markets : k # m => q.mk[k] = s.mk[k]
      /\ q.mk[m].total_supply = s.mk[m].total_supply
      /\ q.mk[m].lock_supply = s.mk[m].lock_supply /\ q.mk[m].total_borrows = z
      /\ q.mk[m].collateral_factor = s.mk[m].collateral_factor
      /\ \A b \in Addr \ {a} : q.acc[b] = s.acc[b]
      /\ q.acc[a].lock = s.acc[a].lock
      /\ q.acc[a].principal[m] = y /\ q.acc[a].interest_index[m] = s.mk[m].borrow_index
      /\ \A k \in Markets : k # m =>
           /\ q.acc[a].principal[k] = s.acc[a].principal[k]
           /\ q.acc[a].interest_index[k] = s.acc[a].interest_index[k]
  BY <1>0, <1>2, OwesIs
<1> HIDE DEF q
<1>5. ThenPaid(s, q, r, m, Bank, a, x)
  BY <1>0, <1>4, ThenPay
<1> HIDE DEF r
<1>6. r \in Storage /\ r.mk = q.mk /\ \A b \in Addr : SameBut(q.acc[b], r.acc[b])
  BY <1>5 DEF ThenPaid
<1>7. /\ Cash(r, m) = Cash(s, m) - x /\ r.mk[m].total_borrows = z
      /\ r.mk[m].total_reserves = s.mk[m].total_reserves
      /\ \A k \in Markets : k # m => Cash(r, k) = Cash(s, k)
  BY <1>0, <1>4, <1>5 DEF ThenPaid, Cash
<1>8. r.mk[m].price = s.mk[m].price /\ r.mk[m].borrow_index = s.mk[m].borrow_index
  BY <1>0, <1>4, <1>6 DEF Moves
<1>9. Cash(r, m) + r.mk[m].total_borrows - r.mk[m].total_reserves
        = Cash(s, m) + s.mk[m].total_borrows - s.mk[m].total_reserves
  BY <1>1, <1>7 DEF z
<1>10. Lent(s, r, a, m, x)
  BY <1>0, <1>4, <1>6, <1>7, <1>8, <1>9 DEF Lent, SameBut
<1>11. \A b \in Addr \ {a} : r.acc[b].principal = s.acc[b].principal
  BY <1>4, <1>6 DEF SameBut
<1> QED BY <1>3, <1>6, <1>10, <1>11

\* A loan changes no collateral: what the contract pays out it is owed.
LEMMA LentCollateral ==
  ASSUME NEW s \in Storage, n \in 0 .. MaxMarkets,
         NEW m \in Live, NEW a \in Addr, NEW x \in Nat, NEW r, Lent(s, r, a, m, x)
  PROVE  Collateral(r, a) = Collateral(s, a)
<1> DEFINE T(t, k) == bank_token_2_base(balance_of_index(t, k, a), exchange_rate(t, k),
                                        t.mk[k].collateral_factor, t.mk[k].price)
<1>1. ASSUME NEW k \in Live PROVE T(r, k) = T(s, k)
  <2>1. k \in Markets
    BY LiveFinite
  <2>2. exchange_rate(r, k) = exchange_rate(s, k)
    BY <2>1 DEF Lent, exchange_rate
  <2>3. r.mk[k].collateral_factor = s.mk[k].collateral_factor /\ r.mk[k].price = s.mk[k].price
    BY <2>1 DEF Lent
  <2>4. balance_of_index(r, k, a) = balance_of_index(s, k, a)
    BY DEF Lent, balance_of_index
  <2> QED BY <2>2, <2>3, <2>4
<1>2. [k \in Live |-> T(r, k)] = [k \in Live |-> T(s, k)]
  BY <1>1
<1> QED BY <1>2 DEF Collateral

\* The debt grows by the value of the loan, and by one for the rounding.
LEMMA LentDebt ==
  ASSUME NEW s \in Storage, n \in 0 .. MaxMarkets, NEW m \in Live, NEW a \in Addr,
         NEW x \in Nat, NEW r \in Storage, Lent(s, r, a, m, x)
  PROVE  /\ Debt(r, a) \in Int /\ Debt(s, a) \in Int
         /\ Debt(r, a) <= Debt(s, a) + mantissa_mul(x, s.mk[m].price) + 1
<1> DEFINE f == [k \in Live |-> mantissa_mul(borrow_balance_of_index(s, k, a), s.mk[k].price)]
           g == [k \in Live |-> mantissa_mul(borrow_balance_of_index(r, k, a), r.mk[k].price)]
           p == s.mk[m].price
<1>0. m \in Markets /\ IsFiniteSet(Live) /\ p \in Nat
  BY LiveFinite, BankAddr, Numbers
<1>1. ASSUME NEW k \in Live PROVE f[k] \in Nat /\ g[k] \in Nat
  <2>1. /\ borrow_balance_of_index(s, k, a) \in Nat /\ s.mk[k].price \in Nat
        /\ borrow_balance_of_index(r, k, a) \in Nat /\ r.mk[k].price \in Nat
    BY LiveFinite, BalanceIsNat, Numbers
  <2> QED BY <2>1, MulIsNat
<1>2. ASSUME NEW k \in Live \ {m} PROVE g[k] = f[k]
  <2>1. k \in Markets /\ k # m
    BY LiveFinite
  <2>2. r.mk[k] = s.mk[k] /\ borrow_balance_of_index(r, k, a) = borrow_balance_of_index(s, k, a)
    BY <2>1 DEF Lent, borrow_balance_of_index
  <2> QED BY <2>2
<1>3. g[m] <= f[m] + mantissa_mul(x, p) + 1
  <2> DEFINE b == borrow_balance_of_index(s, m, a)
             d == borrow_balance_of_index(r, m, a)
  <2>1. b \in Nat /\ d \in Nat
    BY <1>0, BalanceIsNat
  <2>2. d <= b + x
    <3>1. r.mk[m].borrow_index \in Pos /\ r.acc[a].principal[m] = b + x
          /\ r.acc[a].interest_index[m] = r.mk[m].borrow_index
      BY <1>0, Numbers DEF Lent
    <3> HIDE DEF b
    <3>2. d = mantissa_div(mantissa_mul(b + x, r.mk[m].borrow_index), r.mk[m].borrow_index)
      BY <3>1 DEF borrow_balance_of_index
    <3>3. b + x \in Nat
      BY <2>1
    <3> HIDE DEF d
    <3> QED BY <3>1, <3>2, <3>3, RoundsDown
  <2>3. f[m] = mantissa_mul(b, p) /\ g[m] = mantissa_mul(d, p)
    BY DEF Lent
  <2> HIDE DEF b, d, p, f, g
  <2> QED BY <1>0, <2>1, <2>2, <2>3, ValueSplits
<1>4. Debt(s, a) = SumFunctionOnSet(f, Live) /\ Debt(r, a) = SumFunctionOnSet(g, Live)
  BY DEF Debt
<1>5. mantissa_mul(x, p) \in Nat
  BY <1>0, MulIsNat
<1> HIDE DEF f, g, p
<1>6. SumFunctionOnSet(g, Live) = SumFunctionOnSet(f, Live) + (g[m] - f[m])
  BY <1>0, <1>1, <1>2, SumChange
<1>7. SumFunctionOnSet(g, Live) \in Int /\ SumFunctionOnSet(f, Live) \in Int
  BY <1>0, <1>1, SumInt
<1> QED BY <1>1, <1>3, <1>4, <1>5, <1>6, <1>7 DEF p

LEMMA CollateralInt ==
  ASSUME NEW s \in Storage, n \in 0 .. MaxMarkets, NEW a \in Addr, AllRated(s)
  PROVE  Collateral(s, a) \in Int
<1> DEFINE f == [k \in Live |-> bank_token_2_base(balance_of_index(s, k, a), exchange_rate(s, k),
                                   s.mk[k].collateral_factor, s.mk[k].price)]
<1>1. ASSUME NEW k \in Live PROVE f[k] \in Int
  <2>1. k \in Markets /\ exchange_rate(s, k) \in Nat
    BY LiveFinite, RateNat DEF AllRated
  <2>2. /\ balance_of_index(s, k, a) \in Nat /\ s.mk[k].price \in Nat
        /\ s.mk[k].collateral_factor \in Nat
    BY <2>1, Numbers DEF balance_of_index, TokenInfos
  <2> DEFINE u == mantissa_mul(balance_of_index(s, k, a), exchange_rate(s, k))
             v == mantissa_mul(u, s.mk[k].collateral_factor)
  <2>3. u \in Nat
    BY <2>1, <2>2, MulIsNat
  <2>4. v \in Nat
    BY <2>2, <2>3, MulIsNat
  <2>5. mantissa_mul(v, s.mk[k].price) \in Nat
    BY <2>2, <2>4, MulIsNat
  <2> QED BY <2>5 DEF bank_token_2_base
<1>2. Collateral(s, a) = SumFunctionOnSet(f, Live)
  BY DEF Collateral
<1> HIDE DEF f
<1> QED BY <1>1, <1>2, LiveFinite, SumInt

\* Whoever draws the loan is the one account_liquidity was asked about.
LEMMA LendCovers ==
  ASSUME NEW s \in Storage, n \in 0 .. MaxMarkets,
         NEW m \in Live, NEW a \in Addr, NEW x \in Nat, CanPay(s, m, Bank, a, x),
         AllRated(s), Collateral(s, a) >= Debt(s, a) + mantissa_mul(x, s.mk[m].price)
  PROVE  Covered(s, Lend(s, a, m, x))
<1> DEFINE r == Lend(s, a, m, x)
           y == mantissa_mul(x, s.mk[m].price)
<1>1. /\ r \in Storage /\ Lent(s, r, a, m, x)
      /\ \A b \in Addr \ {a} : r.acc[b].principal = s.acc[b].principal
  BY LendLent
<1> HIDE DEF r
<1>2. Collateral(r, a) = Collateral(s, a) /\ Collateral(s, a) \in Int
  BY <1>1, LentCollateral, CollateralInt
<1>3. /\ Debt(r, a) \in Int /\ Debt(s, a) \in Int
      /\ Debt(r, a) <= Debt(s, a) + y + 1
  BY <1>1, LentDebt
<1>4. y \in Nat
  BY LiveFinite, Numbers, MulIsNat
<1>5. Collateral(s, a) >= Debt(s, a) + y
  OBVIOUS
<1> HIDE DEF y
<1>6. Collateral(r, a) + 1 >= Debt(r, a)
  BY <1>2, <1>3, <1>4, <1>5
<1>7. ASSUME NEW b \in Users, NEW k \in Live, Draws(s, r, b, k) PROVE b = a
  <2> SUFFICES ASSUME b # a PROVE FALSE
    OBVIOUS
  <2>1. r.acc[b].principal = s.acc[b].principal /\ s.acc[b].principal[k] \in Nat
    BY <1>1, LiveFinite, BankAddr, Numbers
  <2>2. r.acc[b].principal[k] > s.acc[b].principal[k]
    BY <1>7 DEF Draws
  <2> QED BY <2>1, <2>2
<1>8. Covered(s, r)
  BY <1>6, <1>7 DEF Covered
<1> QED BY <1>8 DEF r

\* Repaying never makes a market insolvent: the cash grows by x, and safe_sub
\* takes no more than x off the loans.
LEMMA RepayIs ==
  ASSUME NEW s \in Storage, n \in 0 .. MaxMarkets,
         NEW m \in Live, NEW a \in Addr, NEW b \in Addr, NEW x \in Nat, CanPay(s, m, a, Bank, x)
  PROVE  LET r == repay_borrow_for(s, a, m, b, x) IN
         /\ Moves(s, r) /\ r \in Storage /\ r.coin = s.coin
         /\ \A k \in Markets : r.mk[k].total_supply = s.mk[k].total_supply
         /\ \A k \in Live : Solvent(s, k) => Solvent(r, k)
         /\ \A c \in Users, k \in Live : r.acc[c].val[k] <= s.acc[c].val[k]
<1>0. m \in Markets /\ Bank \in Addr
  BY LiveFinite, BankAddr
<1> DEFINE B == s.mk[m].total_borrows
           y == safe_sub(borrow_balance_of_index(s, m, b), x)
           z == safe_sub(B, x)
           q == Owes(s, m, b, y, z)
           r == Pay(q, m, a, Bank, x)
<1>1. B \in Nat /\ Cash(s, m) \in Nat /\ s.mk[m].total_reserves \in Nat
  BY <1>0, Numbers DEF Cash
<1>2. y \in Nat /\ z \in Nat /\ B <= z + x
  BY <1>0, <1>1, BalanceIsNat, SubIsNat DEF safe_sub
<1>3. repay_borrow_for(s, a, m, b, x) = r
  BY DEF repay_borrow_for
<1> HIDE DEF y, z
<1>4. /\ Moves(s, q) /\ q.coin = s.coin
      /\ \A c \in Addr : q.acc[c].val = s.acc[c].val
      /\ \A k \in Markets : k # m => q.mk[k] = s.mk[k]
      /\ q.mk[m].total_supply = s.mk[m].total_supply
      /\ q.mk[m].total_borrows = z
  BY <1>0, <1>2, OwesIs
<1> HIDE DEF q
<1>5. ThenPaid(s, q, r, m, a, Bank, x)
  BY <1>0, <1>4, ThenPay
<1> HIDE DEF r
<1>6. /\ Cash(r, m) = Cash(s, m) + x /\ r.mk[m].total_borrows = z
      /\ r.mk[m].total_reserves = s.mk[m].total_reserves
  BY <1>0, <1>4, <1>5 DEF ThenPaid, Cash
<1>7. Solvent(s, m) => Solvent(r, m)
  BY <1>1, <1>2, <1>6 DEF Solvent
<1>8. ASSUME NEW k \in Live, k # m, Solvent(s, k) PROVE Solvent(r, k)
  <2>1. r.mk[k] = s.mk[k] /\ Cash(r, k) = Cash(s, k)
    BY <1>5, <1>8, LiveFinite DEF ThenPaid, Cash
  <2> QED BY <2>1, <1>8 DEF Solvent
<1>9. ASSUME NEW c \in Users, NEW k \in Live PROVE r.acc[c].val[k] <= s.acc[c].val[k]
  <2>1. k \in Markets /\ c \in Addr /\ c # Bank /\ s.acc[c].val[k] \in Nat
    BY LiveFinite, BankAddr, Numbers
  <2>2. r.acc[c].val[k] = s.acc[c].val[k] \/ (c = a /\ k = m)
    BY <1>5, <2>1 DEF ThenPaid
  <2> QED BY <1>5, <2>1, <2>2 DEF ThenPaid
<1> QED BY <1>3, <1>5, <1>7, <1>8, <1>9 DEF ThenPaid

\* What a transaction that succeeds has to do.
Does == \E r : Becomes(r) /\ Lawful(Here, r)
\* What the contract's account may do when it spends its tokens.
Manages == \E r : Becomes(r) /\ Orderly(Here, r)

LEMMA LockDoes ==
  ASSUME TypeOK, Good(Here), NEW a \in Users, NEW m \in Live, NEW x \in Nat, lock(a, m, x)
  PROVE  Does
<1>0. a \in Addr /\ m \in Markets /\ Here \in Storage /\ n \in 0 .. MaxMarkets /\ now \in Nat
  BY BankAddr, LiveFinite DEF TypeOK
<1>1. PICK s0 \in Entries(m) : lock_index(s0, a, m, x)
  BY DEF lock
<1>2. s0 \in Storage /\ Keeps(Here, s0)
  BY <1>0, EntriesKeep, BooksKeep
<1> DEFINE s == SupplySide(s0, a, m)
           t == mantissa_div(x, exchange_rate(s, m))
<1>3. Ready(s0, a, m) /\ LockIn(s, a, m, x)
  BY <1>1 DEF lock_index
<1>4. Keeps(s0, s)
  BY <1>0, <1>2, SidesKeep
<1>5. Keeps(Here, s) /\ s \in Storage
  BY <1>0, <1>2, <1>4, KeepsTwice DEF Keeps
<1> HIDE DEF s
<1>6. Rated(s, m) /\ exchange_rate(s, m) > 0 /\ CanPay(s, m, a, Bank, x)
      /\ Becomes(bank_mint(Pay(s, m, a, Bank, x), m, a, t))
  BY <1>3 DEF LockIn, LockAt
<1>7. t \in Nat
  BY <1>0, <1>5, <1>6, RateNat, DivIsNat DEF Pos
<1>8. ~Here.store.disabled
  BY <1>3 DEF Ready, Enabled, Here
<1> HIDE DEF t
<1>9. Lawful(Here, bank_mint(Pay(s, m, a, Bank, x), m, a, t))
  BY <1>0, <1>5, <1>6, <1>7, <1>8, LockLawful
<1> QED BY <1>6, <1>9 DEF Does

LEMMA RedeemDoes ==
  ASSUME TypeOK, Good(Here), NEW a \in Users, NEW m \in Live, NEW x \in Nat, redeem(a, m, x)
  PROVE  Does
<1>0. a \in Addr /\ m \in Markets /\ Here \in Storage /\ n \in 0 .. MaxMarkets /\ now \in Nat
  BY BankAddr, LiveFinite DEF TypeOK
<1>1. PICK s0 \in Entries(m) : redeem_index(s0, a, m, x)
  BY DEF redeem
<1>2. s0 \in Storage /\ Keeps(Here, s0)
  BY <1>0, EntriesKeep, BooksKeep
<1> DEFINE s == SupplySide(s0, a, m)
           er == exchange_rate(s, m)
<1>3. Ready(s0, a, m) /\ RedeemIn(s, a, m, x)
  BY <1>1 DEF redeem_index
<1>4. Keeps(s0, s)
  BY <1>0, <1>2, SidesKeep
<1>5. Keeps(Here, s) /\ s \in Storage
  BY <1>0, <1>2, <1>4, KeepsTwice DEF Keeps
<1> HIDE DEF s
<1>6. Rated(s, m) /\ er > 0
  BY <1>3 DEF RedeemIn, RedeemAt, AllRated
<1>7. er \in Pos /\ er \in Nat
  BY <1>0, <1>5, <1>6, RateNat DEF Pos
<1>8. ~Here.store.disabled
  BY <1>3 DEF Ready, Enabled, Here
<1>9. PICK t, y : /\ RedeemTokens(s, er, a, m, t, y) /\ t \in Nat /\ y \in Nat
                  /\ t = mantissa_div(y, er) \/ y = mantissa_mul(t, er)
  <2>1. s.acc[a].lock[m] \in Nat
    BY <1>0, <1>5, Numbers
  <2>2. mantissa_div(x, er) \in Nat /\ mantissa_mul(s.acc[a].lock[m], er) \in Nat
    BY <1>7, <2>1, DivIsNat, MulIsNat
  <2>3. \/ RedeemTokens(s, er, a, m, mantissa_div(x, er), x)
        \/ RedeemTokens(s, er, a, m, s.acc[a].lock[m], mantissa_mul(s.acc[a].lock[m], er))
    BY <1>3 DEF RedeemIn, RedeemAt
  <2> HIDE DEF er
  <2> QED BY <2>1, <2>2, <2>3
<1>10. s.acc[a].lock[m] >= t /\ CanPay(s, m, Bank, a, y) /\ Becomes(Pay(Burn(s, m, a, t), m, Bank, a, y))
  BY <1>9 DEF RedeemTokens
<1>11. t <= s.acc[a].lock[m]
  BY <1>0, <1>5, <1>9, <1>10, Numbers
<1>12. Lawful(Here, Pay(Burn(s, m, a, t), m, Bank, a, y))
  BY <1>0, <1>5, <1>6, <1>8, <1>9, <1>10, <1>11, RedeemLawful
<1> QED BY <1>10, <1>12 DEF Does

LEMMA BorrowDoes ==
  ASSUME TypeOK, Good(Here), NEW a \in Users, NEW m \in Live, NEW x \in Nat, borrow(a, m, x)
  PROVE  Does
<1>0. a \in Addr /\ m \in Markets /\ Here \in Storage /\ n \in 0 .. MaxMarkets /\ now \in Nat
  BY BankAddr, LiveFinite DEF TypeOK
<1>1. PICK s0 \in Entries(m) : borrow_index(s0, a, m, x)
  BY DEF borrow
<1>2. s0 \in Storage /\ Keeps(Here, s0)
  BY <1>0, EntriesKeep, BooksKeep
<1> DEFINE s == BorrowSide(s0, a, m)
           r == Lend(s, a, m, x)
<1>3. Ready(s0, a, m) /\ BorrowIn(s, a, m, x)
  BY <1>1 DEF borrow_index
<1>4. Keeps(s0, s)
  BY <1>0, <1>2, SidesKeep
<1>5. Keeps(Here, s) /\ s \in Storage
  BY <1>0, <1>2, <1>4, KeepsTwice DEF Keeps
<1> HIDE DEF s
<1>6. CanPay(s, m, Bank, a, x) /\ Becomes(r)
  BY <1>3 DEF BorrowIn
<1>7. ~Here.store.disabled
  BY <1>3 DEF Ready, Enabled, Here
<1>8. /\ Moves(s, r) /\ r.coin = s.coin
      /\ \A k \in Markets : r.mk[k].total_supply = s.mk[k].total_supply
      /\ \A k \in Live : Solvent(s, k) => Rated(r, k)
  BY <1>0, <1>5, <1>6, LendIs
<1>9. Covered(s, r)
  BY <1>0, <1>3, <1>5, <1>6, LendCovers DEF BorrowIn
<1> HIDE DEF r
<1>10. Lawful(Here, r)
  BY <1>0, <1>5, <1>7, <1>8, <1>9, LendingLawful
<1> QED BY <1>6, <1>10 DEF Does

LEMMA RepayDoes ==
  ASSUME TypeOK, Good(Here), NEW a \in Users, NEW m \in Live, NEW x \in Nat, repay_borrow(a, m, x)
  PROVE  Does
<1>0. a \in Addr /\ m \in Markets /\ Here \in Storage /\ n \in 0 .. MaxMarkets /\ now \in Nat
  BY BankAddr, LiveFinite DEF TypeOK
<1>1. PICK s0 \in Entries(m) : repay_borrow_index(s0, a, m, x)
  BY DEF repay_borrow
<1>2. s0 \in Storage /\ Keeps(Here, s0)
  BY <1>0, EntriesKeep, BooksKeep
<1> DEFINE s == BorrowSide(s0, a, m)
           r == repay_borrow_for(s, a, m, a, x)
<1>3. Ready(s0, a, m) /\ RepayIn(s, a, m, x)
  BY <1>1 DEF repay_borrow_index
<1>4. Keeps(s0, s)
  BY <1>0, <1>2, SidesKeep
<1>5. Keeps(Here, s) /\ s \in Storage
  BY <1>0, <1>2, <1>4, KeepsTwice DEF Keeps
<1> HIDE DEF s
<1>6. CanPay(s, m, a, Bank, x) /\ Becomes(r)
  BY <1>3 DEF RepayIn, CanRepay
<1>7. ~Here.store.disabled
  BY <1>3 DEF Ready, Enabled, Here
<1>8. /\ Moves(s, r) /\ r.coin = s.coin
      /\ \A k \in Markets : r.mk[k].total_supply = s.mk[k].total_supply
      /\ \A k \in Live : Solvent(s, k) => Solvent(r, k)
      /\ \A c \in Users, k \in Live : r.acc[c].val[k] <= s.acc[c].val[k]
  BY <1>0, <1>5, <1>6, RepayIs
<1> HIDE DEF r
<1>9. \A k \in Live : Solvent(s, k) => Rated(r, k)
  BY <1>8 DEF Rated
<1>10. Covered(s, r)
  BY <1>0, <1>5, <1>8, NoDebtCovers DEF Moves
<1>11. Lawful(Here, r)
  BY <1>0, <1>5, <1>7, <1>8, <1>9, <1>10, LendingLawful
<1> QED BY <1>6, <1>11 DEF Does

\* Neither extending an account nor accruing interest touches a price.
LEMMA PricesKept ==
  ASSUME NEW s \in Storage, NEW m \in Live, NEW k \in Markets, NEW a \in Addr, NEW b \in Addr,
         n \in 0 .. MaxMarkets, now \in Nat
  PROVE  LET q == extend_user_tokens(extend_user_tokens(s, a), b)
             r == accrue_interest(q, m)
         IN  Keeps(s, r) /\ r.mk[k].price = s.mk[k].price
<1>0. m \in Markets
  BY LiveFinite
<1> DEFINE p == extend_user_tokens(s, a)
           q == extend_user_tokens(p, b)
           r == accrue_interest(q, m)
           rate == borrow_rate(q, m) * safe_sub(now, q.mk[m].last_minute)
<1>1. Keeps(s, p) /\ p \in Storage
  BY ExtendKeeps DEF Keeps
<1>2. p.mk = s.mk
  BY DEF extend_user_tokens, WithAcc, Storage
<1> HIDE DEF p
<1>3. Keeps(p, q) /\ q \in Storage
  BY <1>1, ExtendKeeps DEF Keeps
<1>4. q.mk = p.mk
  BY <1>1 DEF extend_user_tokens, WithAcc, Storage
<1> HIDE DEF q
<1>5. Keeps(q, r)
  BY <1>3, AccrueKeeps, BooksKeep
<1>6. Keeps(s, r)
  <2>1. Keeps(s, q)
    BY <1>1, <1>3, KeepsTwice
  <2> QED BY <1>3, <1>5, <2>1, KeepsTwice
<1>7. r.mk[k].price = q.mk[k].price
  <2>1. q.mk[m] \in TokenInfos /\ q.mk[m].last_minute \in Nat
    BY <1>0, <1>3, Parts DEF TokenInfos
  <2>2. rate \in Nat
    BY <1>0, <1>3, <2>1, RateIsNat, SubIsNat, MulNat
  <2>3. r = WithMk(q, m, Accrued(q.mk[m], rate))
    BY DEF accrue_interest
  <2> HIDE DEF rate
  <2>4. Accrued(q.mk[m], rate) \in TokenInfos
    BY <2>1, <2>2, AccruedKept
  <2>5. Accrued(q.mk[m], rate).price = q.mk[m].price
    BY <2>1 DEF Accrued, TokenInfos
  <2> HIDE DEF r
  <2>6. r.mk[m] = Accrued(q.mk[m], rate) /\ \A j \in Markets : j # m => r.mk[j] = q.mk[j]
    BY <1>0, <1>3, <2>3, <2>4, MkSet
  <2> QED BY <2>5, <2>6
<1> QED BY <1>2, <1>4, <1>6, <1>7 DEF r, q, p

LEMMA SeizeLawful ==
  ASSUME NEW h \in Storage, Good(h), ~h.store.disabled, n \in 0 .. MaxMarkets,
         NEW s \in Storage, Keeps(h, s), NEW m \in Live, NEW c \in Live, NEW a \in Addr, NEW b \in Addr,
         a # b, NEW x \in Nat, CanPay(s, m, a, Bank, x), NEW t \in Nat,
         t <= repay_borrow_for(s, a, m, b, x).acc[b].lock[c]
  PROVE  LET q == repay_borrow_for(s, a, m, b, x)
         IN  Lawful(h, WithAcc(WithAcc(q, b, [q.acc[b] EXCEPT !.lock[c] = @ - t]),
                               a, [q.acc[a] EXCEPT !.lock[c] = @ + t]))
<1>0. c \in Markets /\ Bank \in Addr
  BY LiveFinite, BankAddr
<1> DEFINE q == repay_borrow_for(s, a, m, b, x)
           r == WithAcc(WithAcc(q, b, [q.acc[b] EXCEPT !.lock[c] = @ - t]),
                        a, [q.acc[a] EXCEPT !.lock[c] = @ + t])
<1>1. /\ Moves(s, q) /\ q \in Storage /\ q.coin = s.coin
      /\ \A k \in Markets : q.mk[k].total_supply = s.mk[k].total_supply
      /\ \A k \in Live : Solvent(s, k) => Solvent(q, k)
      /\ \A d \in Users, k \in Live : q.acc[d].val[k] <= s.acc[d].val[k]
  BY RepayIs
<1>2. t <= q.acc[b].lock[c]
  OBVIOUS
<1> HIDE DEF q
<1>3. /\ Moves(q, r) /\ r.mk = q.mk /\ r.coin = q.coin
      /\ \A d \in Addr : r.acc[d].val = q.acc[d].val
  BY <1>0, <1>1, <1>2, SeizedIs
<1> HIDE DEF r
<1>4. Moves(s, r)
  BY <1>1, <1>3, MovesTwice
<1>5. \A k \in Live : Solvent(s, k) => Rated(r, k)
  BY <1>0, <1>1, <1>3 DEF Rated, Solvent, Cash
<1>6. Covered(s, r)
  BY <1>1, <1>3, <1>4, BankAddr, NoDebtCovers DEF Moves
<1>7. Lawful(h, r)
  BY <1>1, <1>3, <1>4, <1>5, <1>6, LendingLawful
<1> QED BY <1>7 DEF r, q

LEMMA LiquidateDoes ==
  ASSUME TypeOK, Good(Here), NEW a \in Users, NEW m \in Live, NEW x \in Nat,
         NEW b \in Addr, NEW c \in Live, liquidate_borrow(a, m, b, x, c)
  PROVE  Does
<1>0. /\ a \in Addr /\ b \in Addr /\ m \in Markets /\ c \in Markets
      /\ Here \in Storage /\ n \in 0 .. MaxMarkets /\ now \in Nat
  BY BankAddr, LiveFinite DEF TypeOK
<1>1. PICK s0 : /\ liquidate_borrow_index(s0, a, m, b, x, c)
                /\ s0 \in Storage /\ Keeps(Here, s0)
  <2>1. CASE liquidate_borrow_index(Here, a, m, b, x, c)
    BY <1>0, <2>1, BooksSelf, BooksKeep
  <2>2. CASE /\ OracleUsable(m) /\ OracleUsable(c)
             /\ liquidate_borrow_index(FromOracle(FromOracle(Here, m), c), a, m, b, x, c)
    <3> DEFINE p == FromOracle(Here, m)
    <3>1. Books(Here, p) /\ p \in Storage
      BY <1>0, <2>2, OracleKeeps
    <3> HIDE DEF p
    <3>2. Books(p, FromOracle(p, c)) /\ FromOracle(p, c) \in Storage
      BY <3>1, <2>2, OracleKeeps
    <3>3. Books(Here, FromOracle(p, c))
      BY <1>0, <3>1, <3>2, BooksTwice
    <3>4. Keeps(Here, FromOracle(p, c))
      BY <1>0, <3>3, BooksKeep
    <3> QED BY <2>2, <3>2, <3>4 DEF p
  <2> QED BY <2>1, <2>2 DEF liquidate_borrow
<1> DEFINE s == accrue_interest(extend_user_tokens(extend_user_tokens(s0, a), b), m)
           q == repay_borrow_for(s, a, m, b, x)
           base == mantissa_mul(x, s.mk[m].price)
           t == WithBonus(mantissa_div(mantissa_div(base, exchange_rate(q, c)), q.mk[c].price))
           r == WithAcc(WithAcc(q, b, [q.acc[b] EXCEPT !.lock[c] = @ - t]),
                        a, [q.acc[a] EXCEPT !.lock[c] = @ + t])
<1>2. Ready(s0, a, m) /\ Priced(s0, c) /\ LiquidateIn(s, a, m, b, x, c)
  BY <1>1 DEF liquidate_borrow_index
<1>3. Keeps(s0, s) /\ s.mk[c].price = s0.mk[c].price
  BY <1>0, <1>1, PricesKept
<1> HIDE DEF s
<1>4. Keeps(Here, s) /\ s \in Storage
  <2>1. Keeps(Here, s)
    BY <1>0, <1>1, <1>3, KeepsTwice
  <2> QED BY <2>1 DEF Keeps
<1>5. /\ CanPay(s, m, a, Bank, x) /\ Rated(q, c) /\ exchange_rate(q, c) > 0
      /\ a # b /\ q.acc[b].lock[c] >= t /\ Becomes(r)
  BY <1>2 DEF LiquidateIn, CanRepay, SeizeFor, Seize
<1>6. Moves(s, q) /\ q \in Storage
  BY <1>0, <1>4, <1>5, RepayIs
<1>7. q.mk[c].price \in Pos
  <2>1. q.mk[c].price = s0.mk[c].price
    BY <1>0, <1>3, <1>6 DEF Moves
  <2>2. s0.mk[c].price \in Nat
    BY <1>0, <1>1, Numbers
  <2> QED BY <1>2, <2>1, <2>2 DEF Priced, Pos
<1>8. base \in Nat
  <2>1. s.mk[m].price \in Nat
    BY <1>0, <1>4, Numbers
  <2> QED BY <2>1, MulIsNat
<1> HIDE DEF base
<1>9. t \in Nat
  <2>1. exchange_rate(q, c) \in Pos
    BY <1>0, <1>5, <1>6, RateNat DEF Pos
  <2> DEFINE v == mantissa_div(mantissa_div(base, exchange_rate(q, c)), q.mk[c].price)
  <2>2. v \in Nat
    BY <1>7, <1>8, <2>1, DivIsNat
  <2>3. new_mantissa(1, 10) \in Nat
    BY DivIsNat, 10 \in Pos DEF Pos
  <2>4. t = v + mantissa_mul(v, new_mantissa(1, 10))
    BY DEF WithBonus
  <2> HIDE DEF v, t
  <2>5. mantissa_mul(v, new_mantissa(1, 10)) \in Nat
    BY <2>2, <2>3, MulIsNat
  <2> QED BY <2>2, <2>4, <2>5
<1> HIDE DEF t
<1>10. t <= q.acc[b].lock[c]
  BY <1>0, <1>5, <1>6, <1>9, Numbers
<1>11. ~Here.store.disabled
  BY <1>2 DEF Ready, Enabled, Here
<1>12. Lawful(Here, r)
  BY <1>0, <1>4, <1>5, <1>9, <1>10, <1>11, SeizeLawful
<1> QED BY <1>5, <1>12 DEF Does

\* Tokens that are issued, retired or transferred: s is the storage h, with an
\* account extended or with coins paid.
Starts(h, s) ==
  /\ s \in Storage /\ s.mk = h.mk /\ s.store = h.store /\ Sane(s)
  /\ \A b \in Addr : SameHoldings(h.acc[b], s.acc[b])

LEMMA ExtendStarts ==
  ASSUME NEW h \in Storage, Good(h), NEW a \in Addr, n \in 0 .. MaxMarkets
  PROVE  LET s == extend_user_tokens(h, a) IN Starts(h, s) /\ s.coin = h.coin
<1> DEFINE s == extend_user_tokens(h, a)
<1>1. Keeps(h, s)
  BY ExtendKeeps
<1>2. s.mk = h.mk /\ s.store = h.store /\ s.coin = h.coin
  BY DEF extend_user_tokens, WithAcc, Storage
<1> HIDE DEF s
<1>3. Starts(h, s) /\ s.coin = h.coin
  BY <1>1, <1>2 DEF Keeps, Starts, Good
<1> QED BY <1>3 DEF s

LEMMA CoinStarts ==
  ASSUME NEW h \in Storage, Good(h), NEW cur \in Coins, NEW p \in Addr, NEW q \in Addr, p # q,
         NEW x \in Nat, x <= h.coin[p][cur]
  PROVE  LET s == CoinPay(h, cur, p, q, x) IN
         /\ Starts(h, s)
         /\ s.coin[p][cur] = h.coin[p][cur] - x /\ s.coin[q][cur] = h.coin[q][cur] + x
         /\ \A a \in Addr, k \in Coins : a \notin {p, q} \/ k # cur => s.coin[a][k] = h.coin[a][k]
<1> DEFINE d == Moved(h.coin, cur, p, q, x)
           s == WithCoin(h, d)
<1>0. h.coin \in Purses
  BY Parts
<1>1. /\ d \in Purses
      /\ d[p][cur] = h.coin[p][cur] - x /\ d[q][cur] = h.coin[q][cur] + x
      /\ \A a \in Addr, k \in Coins : a \notin {p, q} \/ k # cur => d[a][k] = h.coin[a][k]
  BY <1>0, MovedIs
<1>2. CoinPay(h, cur, p, q, x) = s
  BY DEF CoinPay
<1> HIDE DEF d
<1>3. s \in Storage /\ s.acc = h.acc /\ s.store = h.store /\ s.mk = h.mk /\ s.coin = d
  BY <1>1, CoinSet
<1> HIDE DEF s
<1>4. Starts(h, s)
  BY <1>3 DEF Starts, SameHoldings, Good, Sane
<1> QED BY <1>1, <1>2, <1>3, <1>4

LEMMA SelfStarts ==
  ASSUME NEW h \in Storage, Good(h), NEW cur \in Coins, NEW p \in Addr, NEW x \in Nat
  PROVE  LET s == CoinPay(h, cur, p, p, x) IN
         Starts(h, s) /\ s.coin = h.coin /\ s.coin[p][cur] + x >= h.coin[p][cur]
<1> DEFINE s == WithCoin(h, h.coin)
<1>0. h.coin \in Purses /\ h.coin[p][cur] \in Nat
  BY Parts DEF Purses
<1>1. CoinPay(h, cur, p, p, x) = s
  BY <1>0, MovedToSelf DEF CoinPay
<1>2. s \in Storage /\ s.acc = h.acc /\ s.store = h.store /\ s.mk = h.mk /\ s.coin = h.coin
  BY <1>0, CoinSet
<1> HIDE DEF s
<1>3. Starts(h, s)
  BY <1>2 DEF Starts, SameHoldings, Good, Sane
<1> QED BY <1>0, <1>1, <1>2, <1>3

LEMMA StartsAre ==
  ASSUME NEW h \in Storage, Good(h), NEW s, Starts(h, s)
  PROVE  Conserved(s) /\ \A k \in Markets : Cash(s, k) = Cash(h, k)
<1>1. \A m \in Markets : Held(s, m) = Held(h, m) /\ Locked(s, m) = Locked(h, m)
  BY HeldSame, LockedSame DEF Starts, SameHoldings
<1>2. \A k \in Markets : Cash(s, k) = Cash(h, k)
  BY BankAddr DEF Cash, Starts, SameHoldings
<1> QED BY <1>1, <1>2 DEF Good, Conserved, Starts

LEMMA TokensOrderly ==
  ASSUME NEW h \in Storage, Good(h), n \in 0 .. MaxMarkets, NEW s, Starts(h, s),
         NEW r, Moves(s, r), Backed(r),
         \A b \in Addr : r.acc[b].lock = s.acc[b].lock /\ r.acc[b].principal = s.acc[b].principal,
         h.store.disabled => \A c \in Coins : h.coin[Bank][c] <= r.coin[Bank][c]
  PROVE  Orderly(h, r)
<1>0. s \in Storage /\ r \in Storage /\ Live \subseteq Markets
  BY LiveFinite DEF Starts, Moves
<1>1. Good(r)
  <2>1. Conserved(s) /\ Sane(s)
    BY StartsAre DEF Starts
  <2>2. Blank(r)
    BY DEF Good, Blank, Moves, Starts
  <2>3. OneCoin(r)
    BY <1>0 DEF Good, OneCoin, Moves, Starts
  <2> QED BY <2>1, <2>2, <2>3 DEF Good, Moves
<1>2. \A m \in Live : /\ h.mk[m].borrow_index <= r.mk[m].borrow_index
                      /\ h.mk[m].incentive_supply_index <= r.mk[m].incentive_supply_index
                      /\ h.mk[m].incentive_borrow_index <= r.mk[m].incentive_borrow_index
  <2> SUFFICES ASSUME NEW m \in Live
               PROVE  /\ h.mk[m].borrow_index <= r.mk[m].borrow_index
                      /\ h.mk[m].incentive_supply_index <= r.mk[m].incentive_supply_index
                      /\ h.mk[m].incentive_borrow_index <= r.mk[m].incentive_borrow_index
    OBVIOUS
  <2>1. /\ h.mk[m].borrow_index \in Nat /\ h.mk[m].incentive_supply_index \in Nat
        /\ h.mk[m].incentive_borrow_index \in Nat
    BY <1>0, Numbers, BankAddr DEF Pos
  <2> QED BY <1>0, <2>1 DEF Starts, Moves
<1>3. \A a \in Addr : r.acc[a].lock = h.acc[a].lock /\ r.acc[a].principal = h.acc[a].principal
  BY DEF Starts, SameHoldings
<1>4. h.store.disabled => r.store.disabled
  BY DEF Starts, Moves
<1>5. Covered(h, r)
  BY <1>0, <1>3, SameDebtCovers
<1> QED BY <1>0, <1>1, <1>2, <1>3, <1>4, <1>5 DEF Orderly

\* Unless the cash of a market falls, its rate is not lost.
LEMMA TokensLawful ==
  ASSUME NEW h \in Storage, Good(h), n \in 0 .. MaxMarkets, NEW s, Starts(h, s),
         NEW r, Moves(s, r), Orderly(h, r),
         \A k \in Live : Cash(s, k) <= Cash(r, k) /\ r.mk[k].total_borrows = s.mk[k].total_borrows
  PROVE  Lawful(h, r)
<1>0. s \in Storage /\ r \in Storage /\ Live \subseteq Markets
  BY LiveFinite DEF Starts, Moves
<1>1. ASSUME NEW m \in Live, Solvent(h, m) PROVE Rated(r, m)
  <2>1. /\ Cash(h, m) <= Cash(r, m) /\ r.mk[m].total_borrows = h.mk[m].total_borrows
        /\ r.mk[m].total_reserves = h.mk[m].total_reserves
    BY <1>0, StartsAre DEF Starts, Moves
  <2>2. /\ Cash(h, m) \in Nat /\ Cash(r, m) \in Nat
        /\ h.mk[m].total_borrows \in Nat /\ h.mk[m].total_reserves \in Nat
    BY <1>0, Numbers, BankAddr DEF Cash
  <2> QED BY <1>1, <2>1, <2>2 DEF Solvent, Rated
<1> QED BY <1>1 DEF Lawful

LEMMA MintDoes ==
  ASSUME TypeOK, Good(Here), NEW a \in Addr, NEW m \in Live, NEW x \in Nat, NEW b \in Addr,
         mint(a, m, b, x)
  PROVE  Does
<1>0. a \in Addr /\ Here \in Storage /\ n \in 0 .. MaxMarkets /\ m \in Markets /\ Bank \in Addr
  BY BankAddr, LiveFinite DEF TypeOK
<1> DEFINE h == Here
           s == extend_user_tokens(h, a)
           r == Issue(s, m, b, x)
<1>1. Becomes(r) /\ h.mk[m].owner = a
  BY DEF mint, Here
<1> HIDE DEF h
<1>2. Good(h) /\ h \in Storage
  BY <1>0 DEF h
<1>3. Starts(h, s) /\ s.coin = h.coin /\ s \in Storage
  BY <1>0, <1>2, ExtendStarts DEF Starts
<1> HIDE DEF s
<1>4. /\ Moves(s, r) /\ r.coin = s.coin
      /\ \A d \in Addr : SameBut(s.acc[d], r.acc[d])
      /\ \A d \in Addr, k \in Markets : s.acc[d].val[k] <= r.acc[d].val[k]
      /\ \A k \in Markets : k # m => r.mk[k] = s.mk[k]
      /\ r.mk[m].total_borrows = s.mk[m].total_borrows
  BY <1>0, <1>3, IssueIs
<1> HIDE DEF r
<1>5. r.mk[m].coin = Nothing
  <2>1. h.mk[m].coin = Nothing
    BY <1>1, <1>2, BankAssumption DEF Good, OneCoin, Addr
  <2> QED BY <1>0, <1>3, <1>4, <2>1 DEF Moves, Starts
<1>6. Backed(r)
  BY <1>2, <1>3, <1>4, <1>5, LiveFinite, <1>0 DEF Good, Backed, Starts
<1>7. \A c \in Coins : h.coin[Bank][c] <= r.coin[Bank][c]
  <2>1. \A c \in Coins : h.coin[Bank][c] \in Nat
    BY <1>0, <1>2, Numbers
  <2> QED BY <1>3, <1>4, <2>1
<1>8. \A k \in Live : Cash(s, k) <= Cash(r, k) /\ r.mk[k].total_borrows = s.mk[k].total_borrows
  BY <1>0, <1>4, LiveFinite DEF Cash
<1>9. Orderly(h, r)
  BY <1>0, <1>2, <1>3, <1>4, <1>6, <1>7, TokensOrderly DEF SameBut
<1>10. Lawful(h, r)
  BY <1>0, <1>2, <1>3, <1>4, <1>8, <1>9, TokensLawful
<1> QED BY <1>1, <1>10 DEF Does, h

LEMMA TransferDoes ==
  ASSUME TypeOK, Good(Here), NEW a \in Addr, NEW m \in Live, NEW x \in Nat, NEW b \in Addr,
         transfer(a, m, b, x)
  PROVE  Does \/ (a = Bank /\ Manages)
<1>0. a \in Addr /\ Here \in Storage /\ n \in 0 .. MaxMarkets /\ m \in Markets /\ Bank \in Addr
  BY BankAddr, LiveFinite DEF TypeOK
<1> DEFINE h == Here
           s == extend_user_tokens(h, a)
           r == Pay(s, m, a, b, x)
<1>1. Becomes(r) /\ CanPay(h, m, a, b, x)
  BY DEF transfer
<1> HIDE DEF h
<1>2. Good(h) /\ h \in Storage
  BY <1>0 DEF h
<1>3. Starts(h, s) /\ s.coin = h.coin /\ s \in Storage
  BY <1>0, <1>2, ExtendStarts DEF Starts
<1> HIDE DEF s
<1>4. a # b /\ x <= s.acc[a].val[m] /\ \A k \in Markets : s.acc[b].val[k] \in Nat
  <2>1. s.acc[a].val[m] \in Nat /\ \A k \in Markets : s.acc[b].val[k] \in Nat
    BY <1>0, <1>3, Numbers
  <2> QED BY <1>0, <1>1, <1>3, <2>1 DEF CanPay, Starts, SameHoldings
<1>5. /\ Moves(s, r) /\ r.mk = s.mk /\ r.coin = s.coin
      /\ \A d \in Addr : SameBut(s.acc[d], r.acc[d])
      /\ r.acc[b].val[m] = s.acc[b].val[m] + x
      /\ \A d \in Addr, k \in Markets : d \notin {a, b} \/ k # m => r.acc[d].val[k] = s.acc[d].val[k]
  BY <1>0, <1>3, <1>4, PayIs
<1> HIDE DEF r
<1>6. Backed(r)
  BY <1>2, <1>3, <1>5 DEF Good, Backed, Starts
<1>7. \A c \in Coins : h.coin[Bank][c] <= r.coin[Bank][c]
  <2>1. \A c \in Coins : h.coin[Bank][c] \in Nat
    BY <1>0, <1>2, Numbers
  <2> QED BY <1>3, <1>5, <2>1
<1>8. Orderly(h, r)
  BY <1>0, <1>2, <1>3, <1>5, <1>6, <1>7, TokensOrderly DEF SameBut
<1>9. ASSUME a # Bank PROVE Lawful(h, r)
  <2>1. ASSUME NEW k \in Live
        PROVE  Cash(s, k) <= Cash(r, k) /\ r.mk[k].total_borrows = s.mk[k].total_borrows
    <3>1. k \in Markets /\ Cash(s, k) \in Nat
      BY <1>0, <1>3, Numbers, LiveFinite DEF Cash
    <3>2. Cash(r, k) = Cash(s, k) \/ Cash(r, k) = Cash(s, k) + x
      BY <1>0, <1>5, <1>9, <3>1 DEF Cash
    <3> QED BY <1>5, <3>1, <3>2
  <2> QED BY <1>0, <1>2, <1>3, <1>5, <1>8, <2>1, TokensLawful
<1> QED BY <1>1, <1>8, <1>9 DEF Does, Manages, h

LEMMA EnterDoes ==
  ASSUME TypeOK, Good(Here), NEW a \in Addr, NEW m \in Live, NEW x \in Nat, enter_bank(a, m, x)
  PROVE  Does
<1>0. a \in Addr /\ Here \in Storage /\ n \in 0 .. MaxMarkets /\ m \in Markets /\ Bank \in Addr /\ a # Bank
  BY BankAddr, LiveFinite DEF TypeOK, enter_bank
<1> DEFINE h == Here
           cur == h.mk[m].coin
           s == CoinPay(h, cur, a, Bank, x)
           r == Issue(s, m, a, x)
<1>1. Becomes(r) /\ ~h.store.disabled /\ cur # Nothing /\ h.coin[a][cur] >= x
  BY DEF enter_bank, Here, Enabled
<1> HIDE DEF h
<1>2. Good(h) /\ h \in Storage
  BY <1>0 DEF h
<1>c. cur \in Coins /\ h.coin[a][cur] \in Nat /\ h.coin[Bank][cur] \in Nat /\ h.mk[m].total_supply \in Nat
  BY <1>0, <1>1, <1>2, Numbers
<1>d. x <= h.coin[a][cur]
  BY <1>1, <1>c
<1>3. /\ Starts(h, s) /\ s \in Storage /\ s.coin[Bank][cur] = h.coin[Bank][cur] + x
      /\ \A k \in Coins : k # cur => s.coin[Bank][k] = h.coin[Bank][k]
  <2> HIDE DEF cur, s
  <2>1. Starts(h, s) /\ s.coin[Bank][cur] = h.coin[Bank][cur] + x
        /\ \A b \in Addr, k \in Coins : b \notin {a, Bank} \/ k # cur => s.coin[b][k] = h.coin[b][k]
    BY <1>0, <1>2, <1>c, <1>d, CoinStarts DEF s
  <2> QED BY <1>0, <2>1 DEF Starts
<1> HIDE DEF s
<1>4. /\ Moves(s, r) /\ r.coin = s.coin
      /\ \A d \in Addr : SameBut(s.acc[d], r.acc[d])
      /\ \A d \in Addr, k \in Markets : s.acc[d].val[k] <= r.acc[d].val[k]
      /\ \A k \in Markets : k # m => r.mk[k] = s.mk[k]
      /\ r.mk[m].total_supply = s.mk[m].total_supply + x
      /\ r.mk[m].total_borrows = s.mk[m].total_borrows
  BY <1>0, <1>3, IssueIs
<1> HIDE DEF r
<1>5. Backed(r)
  <2> SUFFICES ASSUME NEW k \in Live, r.mk[k].coin \notin {Nothing, VLS}
               PROVE  r.coin[Bank][r.mk[k].coin] >= r.mk[k].total_supply
    BY DEF Backed
  <2>0. k \in Markets /\ r.mk[k].coin = h.mk[k].coin
    BY LiveFinite, <1>0, <1>3, <1>4 DEF Moves, Starts
  <2>1. h.coin[Bank][h.mk[k].coin] >= h.mk[k].total_supply
    BY <1>2, <2>0 DEF Good, Backed
  <2>2. CASE k = m
    BY <1>c, <1>3, <1>4, <2>0, <2>1, <2>2 DEF Starts
  <2>3. CASE k # m
    <3>1. h.mk[k].coin # cur /\ h.mk[k].coin \in Coins
      BY <1>0, <1>1, <1>2, <2>0, <2>3, Numbers DEF Good, OneCoin
    <3>2. r.coin[Bank][h.mk[k].coin] = h.coin[Bank][h.mk[k].coin]
      BY <1>3, <1>4, <3>1
    <3> QED BY <1>3, <1>4, <2>0, <2>1, <2>3, <3>2 DEF Starts
  <2> QED BY <2>2, <2>3
<1>6. \A k \in Live : Cash(s, k) <= Cash(r, k) /\ r.mk[k].total_borrows = s.mk[k].total_borrows
  BY <1>0, <1>4, LiveFinite DEF Cash
<1>7. Orderly(h, r)
  BY <1>0, <1>1, <1>2, <1>3, <1>4, <1>5, TokensOrderly DEF SameBut
<1>8. Lawful(h, r)
  BY <1>0, <1>2, <1>3, <1>4, <1>6, <1>7, TokensLawful
<1> QED BY <1>1, <1>8 DEF Does, h

LEMMA ExitDoes ==
  ASSUME TypeOK, Good(Here), NEW a \in Addr, NEW m \in Live, NEW x \in Nat, exit_bank(a, m, x)
  PROVE  Does \/ (a = Bank /\ Manages)
<1>0. a \in Addr /\ Here \in Storage /\ n \in 0 .. MaxMarkets /\ m \in Markets /\ Bank \in Addr
  BY BankAddr, LiveFinite DEF TypeOK
<1> DEFINE h == Here
           cur == h.mk[m].coin
           s == CoinPay(h, cur, Bank, a, x)
           r == Retire(s, m, a, x)
<1>1. /\ Becomes(r) /\ ~h.store.disabled /\ cur # Nothing
      /\ h.coin[Bank][cur] >= x /\ h.acc[a].val[m] >= x
  BY DEF exit_bank, CanExit, Here, Enabled
<1> HIDE DEF h
<1>2. Good(h) /\ h \in Storage
  BY <1>0 DEF h
<1>c. cur \in Coins /\ h.coin[Bank][cur] \in Nat /\ h.mk[m].total_supply \in Nat /\ h.acc[a].val[m] \in Nat
  BY <1>0, <1>1, <1>2, Numbers
<1>d. x <= h.coin[Bank][cur] /\ x <= h.acc[a].val[m]
  BY <1>1, <1>c
\* Paid to itself, the contract's account has what it had.
<1>3. /\ Starts(h, s) /\ s \in Storage /\ s.coin[Bank][cur] \in Nat
      /\ s.coin[Bank][cur] + x >= h.coin[Bank][cur]
      /\ \A k \in Coins : k # cur => s.coin[Bank][k] = h.coin[Bank][k]
  <2> HIDE DEF cur, s
  <2>1. CASE a = Bank
    BY <1>0, <1>2, <1>c, <2>1, SelfStarts DEF s, Starts
  <2>2. CASE a # Bank
    <3>1. Starts(h, s) /\ s.coin[Bank][cur] = h.coin[Bank][cur] - x
          /\ \A b \in Addr, k \in Coins : b \notin {a, Bank} \/ k # cur => s.coin[b][k] = h.coin[b][k]
      BY <1>0, <1>2, <1>c, <1>d, <2>2, CoinStarts DEF s
    <3> QED BY <1>0, <1>c, <1>d, <3>1 DEF Starts
  <2> QED BY <2>1, <2>2
<1> HIDE DEF s
<1>e. Conserved(s) /\ x <= s.acc[a].val[m]
  BY <1>0, <1>2, <1>3, <1>d, StartsAre DEF Starts, SameHoldings
<1>4. /\ Moves(s, r) /\ r.coin = s.coin
      /\ \A d \in Addr : d # a => r.acc[d] = s.acc[d]
      /\ \A d \in Addr : SameBut(s.acc[d], r.acc[d])
      /\ \A k \in Markets : k # m => r.mk[k] = s.mk[k]
      /\ r.mk[m].total_supply = s.mk[m].total_supply - x
      /\ r.mk[m].total_borrows = s.mk[m].total_borrows
  BY <1>0, <1>3, <1>e, RetireIs
<1> HIDE DEF r
<1>5. Backed(r)
  <2> SUFFICES ASSUME NEW k \in Live, r.mk[k].coin \notin {Nothing, VLS}
               PROVE  r.coin[Bank][r.mk[k].coin] >= r.mk[k].total_supply
    BY DEF Backed
  <2>0. k \in Markets /\ r.mk[k].coin = h.mk[k].coin
    BY LiveFinite, <1>0, <1>3, <1>4 DEF Moves, Starts
  <2>1. h.coin[Bank][h.mk[k].coin] >= h.mk[k].total_supply
    BY <1>2, <2>0 DEF Good, Backed
  <2>2. CASE k = m
    BY <1>c, <1>3, <1>4, <2>0, <2>1, <2>2 DEF Starts
  <2>3. CASE k # m
    <3>1. h.mk[k].coin # cur /\ h.mk[k].coin \in Coins
      BY <1>0, <1>1, <1>2, <2>0, <2>3, Numbers DEF Good, OneCoin
    <3>2. r.coin[Bank][h.mk[k].coin] = h.coin[Bank][h.mk[k].coin]
      BY <1>3, <1>4, <3>1
    <3> QED BY <1>3, <1>4, <2>0, <2>1, <2>3, <3>2 DEF Starts
  <2> QED BY <2>2, <2>3
<1>6. Orderly(h, r)
  BY <1>0, <1>1, <1>2, <1>3, <1>4, <1>5, TokensOrderly DEF SameBut
<1>7. ASSUME a # Bank PROVE Lawful(h, r)
  <2>1. ASSUME NEW k \in Live
        PROVE  Cash(s, k) <= Cash(r, k) /\ r.mk[k].total_borrows = s.mk[k].total_borrows
    <3>1. k \in Markets /\ Cash(s, k) \in Nat /\ Cash(r, k) = Cash(s, k)
      BY <1>0, <1>3, <1>4, <1>7, Numbers, LiveFinite DEF Cash
    <3> QED BY <1>4, <3>1
  <2> QED BY <1>0, <1>2, <1>3, <1>4, <1>6, <2>1, TokensLawful
<1> QED BY <1>1, <1>6, <1>7 DEF Does, Manages, h

----------------------------------------------------------------------------
(* The calls that only keep books.                                        *)

LEMMA BooksDo ==
  ASSUME TypeOK, Good(Here), NEW r, Becomes(r), Books(Here, r)
  PROVE  Does
BY BooksLawful DEF Does, TypeOK

\* One market's price, factor or rate model changes.
LEMMA MarketDoes ==
  ASSUME TypeOK, Good(Here), NEW m \in Live
  PROVE  /\ \A p \in Nat : Becomes(WithMk(Here, m, [mk[m] EXCEPT !.price = p])) => Does
         /\ \A f \in Factors : update_collateral_factor(m, f) => Does
         /\ \A rm \in RateModels : update_rate_model(m, rm) => Does
<1>0. m \in Markets /\ Here \in Storage /\ n \in 0 .. MaxMarkets /\ Here.mk = mk
  BY LiveFinite DEF TypeOK, Here
<1>1. mk[m] \in TokenInfos
  BY <1>0, Parts
<1>2. ASSUME NEW u \in TokenInfos, Kept(mk[m], u), Becomes(WithMk(Here, m, u)) PROVE Does
  BY <1>0, <1>2, BooksOfMarket, BooksDo
<1>3. ASSUME NEW p \in Nat, Becomes(WithMk(Here, m, [mk[m] EXCEPT !.price = p])) PROVE Does
  <2> DEFINE u == [mk[m] EXCEPT !.price = p]
  <2>1. u \in TokenInfos /\ Kept(mk[m], u)
    BY <1>1 DEF TokenInfos, Kept, Pos
  <2> QED BY <1>2, <1>3, <2>1
<1>4. ASSUME NEW f \in Factors, update_collateral_factor(m, f) PROVE Does
  <2> DEFINE u == [mk[m] EXCEPT !.collateral_factor = f]
  <2>1. f \in Nat
    BY BankAssumption
  <2>2. u \in TokenInfos /\ Kept(mk[m], u)
    BY <1>1, <2>1 DEF TokenInfos, Kept, Pos
  <2>3. Becomes(WithMk(Here, m, u))
    BY <1>4 DEF update_collateral_factor
  <2> QED BY <1>2, <2>2, <2>3
<1>5. ASSUME NEW rm \in RateModels, update_rate_model(m, rm) PROVE Does
  <2> DEFINE b == rm.base \div YearMinutes
             c == rm.mult \div YearMinutes
             j == rm.jump \div YearMinutes
             k == rm.kink
             v == [mk[m] EXCEPT !.base_rate = b, !.rate_multiplier = c]
             u == [v EXCEPT !.rate_jump_multiplier = j, !.rate_kink = k]
  <2>1. rm.base \in Nat /\ rm.mult \in Nat /\ rm.jump \in Nat /\ k \in Nat /\ YearMinutes \in Pos
    BY BankAssumption DEF Pos
  <2>2. b \in Nat /\ c \in Nat /\ j \in Nat
    BY <2>1, DivNat
  <2>3. Becomes(WithMk(Here, m, u))
    BY <1>5 DEF update_rate_model
  <2> HIDE DEF b, c, j, k
  <2>4. v \in TokenInfos /\ Kept(mk[m], v)
    <3>1. v \in TokenInfos
      BY <1>1, <2>2 DEF TokenInfos
    <3>2. Kept(mk[m], v)
      BY <1>1, <2>2 DEF TokenInfos, Kept, Pos
    <3> QED BY <3>1, <3>2
  <2> HIDE DEF v
  <2>5. u \in TokenInfos /\ Kept(v, u)
    <3>1. u \in TokenInfos
      BY <2>1, <2>2, <2>4 DEF TokenInfos
    <3>2. Kept(v, u)
      BY <2>1, <2>2, <2>4 DEF TokenInfos, Kept, Pos
    <3> QED BY <3>1, <3>2
  <2> HIDE DEF u
  <2>6. Kept(mk[m], u)
    BY <1>1, <2>4, <2>5, KeptTwice
  <2> QED BY <1>2, <2>3, <2>5, <2>6
<1> QED BY <1>3, <1>4, <1>5

LEMMA ClaimDoes ==
  ASSUME TypeOK, Good(Here), NEW a \in Addr, claim_incentive(a)
  PROVE  Does
<1>0. Here \in Storage /\ n \in 0 .. MaxMarkets /\ Bank \in Addr
  BY BankAddr DEF TypeOK
<1> DEFINE r == Settled(a)
<1>1. Keeps(Here, r)
  BY SettledKeeps
<1>2. Becomes(r) /\ (Here.store.disabled => r.coin = Here.coin)
  BY DEF claim_incentive, ClaimIn, Here
<1> HIDE DEF r
<1>3. \A c \in Coins : Here.coin[Bank][c] \in Nat
  BY <1>0, Parts DEF Purses
<1>4. Here.store.disabled => \A c \in Coins : Here.coin[Bank][c] <= r.coin[Bank][c]
  BY <1>2, <1>3
<1>5. Lawful(Here, r)
  BY <1>0, <1>1, <1>4, KeepsLawful
<1> QED BY <1>2, <1>5 DEF Does

\* The administrator pays the rate in VLS, into the contract's account.
LEMMA SetRateDoes ==
  ASSUME TypeOK, Good(Here), NEW rate \in Nat, set_incentive_rate(rate)
  PROVE  Does
<1> DEFINE h == Here
           s == check_for_incentive_speeds_refresh(h)
           q == CoinPay(s, VLS, VlsAdmin, Bank, rate)
           r == SetRate(q, rate)
<1>0. /\ h \in Storage /\ n \in 0 .. MaxMarkets /\ now \in Nat /\ Good(h)
      /\ Bank \in Addr /\ VlsAdmin \in Addr /\ VlsAdmin # Bank /\ VLS \in Coins
  BY BankAddr, BankAssumption DEF TypeOK
<1>1. Becomes(r) /\ h.coin[VlsAdmin][VLS] >= rate
  BY DEF set_incentive_rate, SetRateIn, Here
<1> HIDE DEF h
<1>2. Books(h, s) /\ s \in Storage /\ s.coin = h.coin
  BY <1>0, CheckKeeps DEF Books
<1> HIDE DEF s
<1>3. Keeps(h, s) /\ Good(s)
  BY <1>0, <1>2, BooksKeep, KeepsGood
<1>4. rate <= s.coin[VlsAdmin][VLS] /\ \A c \in Coins : s.coin[Bank][c] \in Nat
  BY <1>0, <1>1, <1>2, Parts DEF Purses
<1>5. /\ Starts(s, q) /\ q.coin[Bank][VLS] = s.coin[Bank][VLS] + rate
      /\ \A a \in Addr, k \in Coins : a \notin {VlsAdmin, Bank} \/ k # VLS => q.coin[a][k] = s.coin[a][k]
  BY <1>0, <1>2, <1>3, <1>4, CoinStarts
<1> HIDE DEF q
<1>6. Keeps(s, q) /\ q \in Storage
  <2>1. \A m \in Markets : Kept(s.mk[m], q.mk[m])
    BY <1>2, <1>5, Parts, KeptSelf DEF Starts
  <2> QED BY <1>5, <2>1 DEF Starts, Keeps
<1>7. Books(q, r)
  BY <1>0, <1>6, SetRateKeeps
<1> HIDE DEF r
<1>8. Keeps(h, r)
  <2>1. Keeps(h, q)
    BY <1>0, <1>3, <1>6, KeepsTwice
  <2>2. Keeps(q, r)
    BY <1>6, <1>7, BooksKeep
  <2> QED BY <1>0, <2>1, <2>2, KeepsTwice
<1>9. \A c \in Coins : h.coin[Bank][c] <= r.coin[Bank][c]
  <2>1. r.coin = q.coin
    BY <1>7 DEF Books
  <2>2. ASSUME NEW c \in Coins PROVE s.coin[Bank][c] <= q.coin[Bank][c]
    <3>1. CASE c = VLS
      BY <1>4, <1>5, <3>1
    <3>2. CASE c # VLS
      BY <1>0, <1>4, <1>5, <3>2
    <3> QED BY <3>1, <3>2
  <2> QED BY <1>2, <2>1, <2>2
<1>10. Lawful(h, r)
  BY <1>0, <1>8, <1>9, KeepsLawful
<1> QED BY <1>1, <1>10 DEF Does, h

LEMMA DisableDoes ==
  ASSUME TypeOK, Good(Here), disable
  PROVE  Does
<1> DEFINE h == Here
           t == [h.store EXCEPT !.disabled = TRUE]
           r == WithStore(h, t)
<1>0. h \in Storage /\ Good(h) /\ n \in 0 .. MaxMarkets
  BY DEF TypeOK
<1>1. Becomes(r)
  BY DEF disable, Here
<1> HIDE DEF h
<1>2. t \in Stores /\ t.disabled
  BY <1>0, Parts DEF Stores
<1> HIDE DEF t
<1>3. r \in Storage /\ r.acc = h.acc /\ r.store = t /\ r.mk = h.mk /\ r.coin = h.coin
  BY <1>0, <1>2, StoreSet
<1> HIDE DEF r
<1>4. Good(r)
  BY <1>0, <1>3 DEF Good, Conserved, Held, Locked, Sane, Blank, OneCoin, Backed
<1>5. \A m \in Live : Solvent(h, m) => Rated(r, m)
  BY <1>3 DEF Solvent, Rated, Cash
<1>6. /\ \A c \in Coins : h.coin[Bank][c] \in Nat
      /\ \A m \in Live : /\ h.mk[m].borrow_index \in Nat /\ h.mk[m].incentive_supply_index \in Nat
                         /\ h.mk[m].incentive_borrow_index \in Nat
  BY <1>0, LiveFinite, BankAddr, Numbers, Parts DEF Purses, Pos
<1>7. Covered(h, r)
  BY <1>0, <1>3, SameDebtCovers
<1>8. Lawful(h, r)
  BY <1>2, <1>3, <1>4, <1>5, <1>6, <1>7 DEF Lawful, Orderly
<1> QED BY <1>1, <1>8 DEF Does, h

LEMMA MigrateDoes ==
  ASSUME TypeOK, Good(Here), migrate_data
  PROVE  Does
<1> DEFINE t == [store EXCEPT !.migrated = TRUE]
<1>0. Here \in Storage /\ Here.store = store /\ store \in Stores
  BY Parts DEF TypeOK, Here
<1>1. t \in Stores /\ t.disabled = store.disabled
  BY <1>0 DEF Stores
<1>2. Becomes(WithStore(Here, t))
  BY DEF migrate_data
<1> HIDE DEF t
<1> QED BY <1>0, <1>1, <1>2, BooksOfStore, BooksDo

\* publish gives an account its Tokens, which everybody counts as empty.
LEMMA PublishDoes ==
  ASSUME TypeOK, Good(Here), NEW a \in Addr, publish(a)
  PROVE  Does
<1> DEFINE h == Here
           w == [h.acc[a] EXCEPT !.pub = TRUE, !.cnt = IF a = Bank THEN 0 ELSE n]
           t == IF a = Bank THEN [h.store EXCEPT !.refresh_last_minute = now] ELSE h.store
           q == WithAcc(h, a, w)
           r == WithStore(q, t)
<1>0. h \in Storage /\ Good(h) /\ n \in 0 .. MaxMarkets /\ n \in Nat /\ now \in Nat
  BY BankAssumption DEF TypeOK
<1>1. h.acc[a] \in Accounts /\ h.store \in Stores /\ h.acc \in [Addr -> Accounts]
  BY <1>0, Parts
<1>2. /\ w \in Accounts /\ SameHoldings(h.acc[a], w)
      /\ w.supply_index = h.acc[a].supply_index /\ w.borrow_index = h.acc[a].borrow_index
  BY <1>0, <1>1 DEF Accounts, SameHoldings
<1>3. t \in Stores /\ t.disabled = h.store.disabled
  BY <1>0, <1>1 DEF Stores
<1>4. Txn /\ acc' = [h.acc EXCEPT ![a] = w] /\ store' = t /\ mk' = h.mk /\ coin' = h.coin
      /\ UNCHANGED <<n, orc, now>>
  BY DEF publish, Here
<1> HIDE DEF h, w, t
<1>5. /\ q \in Storage /\ q.mk = h.mk /\ q.store = h.store /\ q.coin = h.coin
      /\ q.acc[a] = w /\ \A b \in Addr : b # a => q.acc[b] = h.acc[b]
  BY <1>0, <1>2, AccSet
<1>6. q.acc = acc'
  BY <1>0, <1>4 DEF WithAcc, Storage
<1> HIDE DEF q
<1>7. r \in Storage /\ r.acc = q.acc /\ r.store = t /\ r.mk = q.mk /\ r.coin = q.coin
  BY <1>3, <1>5, StoreSet
<1> HIDE DEF r
<1>8. Becomes(r)
  BY <1>4, <1>5, <1>6, <1>7 DEF Becomes
<1>9. \A b \in Addr : /\ SameHoldings(h.acc[b], r.acc[b])
                      /\ r.acc[b].supply_index = h.acc[b].supply_index
                      /\ r.acc[b].borrow_index = h.acc[b].borrow_index
  BY <1>2, <1>5, <1>7 DEF SameHoldings
<1>10. Sane(h) => Sane(r)
  BY <1>5, <1>7, <1>9 DEF Sane, SameHoldings
<1>11. \A m \in Markets : Kept(h.mk[m], r.mk[m])
  BY <1>0, <1>5, <1>7, KeptSelf, Parts
<1>12. Keeps(h, r)
  BY <1>3, <1>5, <1>7, <1>9, <1>10, <1>11 DEF Keeps
<1>13. \A c \in Coins : h.coin[Bank][c] <= r.coin[Bank][c]
  <2>1. \A c \in Coins : h.coin[Bank][c] \in Nat
    BY <1>0, Parts, BankAddr DEF Purses
  <2> QED BY <1>5, <1>7, <2>1
<1>14. Lawful(h, r)
  BY <1>0, <1>12, <1>13, KeepsLawful
<1> QED BY <1>8, <1>14 DEF Does, h

\* The contract's account cannot lock, borrow or liquidate: each of these moves
\* tokens between the sender and it, and pay_from refuses to pay the payer.
LEMMA LendsToUsers ==
  ASSUME NEW a, NEW m, NEW x, Lending(a, m, x)
  PROVE  a # Bank
<1>1. lock(a, m, x) => a # Bank
  BY DEF lock, lock_index, LockIn, LockAt, CanPay
<1>2. redeem(a, m, x) => a # Bank
  BY DEF redeem, redeem_index, RedeemIn, RedeemAt, RedeemTokens, CanPay
<1>3. borrow(a, m, x) => a # Bank
  BY DEF borrow, borrow_index, BorrowIn, CanPay
<1>4. repay_borrow(a, m, x) => a # Bank
  BY DEF repay_borrow, repay_borrow_index, RepayIn, CanRepay, CanPay
<1>5. ASSUME NEW b, NEW c, liquidate_borrow(a, m, b, x, c) PROVE a # Bank
  BY <1>5 DEF liquidate_borrow, liquidate_borrow_index, LiquidateIn, CanRepay, CanPay
<1> QED BY <1>1, <1>2, <1>3, <1>4, <1>5 DEF Lending

\* Every transaction but the listing of a market and the oracle's is lawful, or
\* the contract's account spends its tokens in it.
LEMMA NextDoes ==
  ASSUME TypeOK, Good(Here), Next
  PROVE  \/ Does \/ (BankSpends /\ Manages) \/ Tick
         \/ \E l \in Listings : create_token(l)
         \/ \E c \in Quoted, p \in Prices : update_exchange_rate(c, p)
<1>0. Here \in Storage /\ n \in 0 .. MaxMarkets /\ now \in Nat
  BY DEF TypeOK
<1>1. ASSUME NEW a \in Addr, publish(a) PROVE Does
  BY <1>1, PublishDoes
<1>2. ASSUME Supervisor PROVE Does \/ \E l \in Listings : create_token(l)
  <2>1. ASSUME NEW m \in Live, NEW f \in Factors, update_collateral_factor(m, f) PROVE Does
    BY <2>1, MarketDoes
  <2>2. ASSUME NEW m \in Live, NEW rm \in RateModels, update_rate_model(m, rm) PROVE Does
    BY <2>2, MarketDoes
  <2>3. ASSUME NEW r \in Rates, set_incentive_rate2(r) PROVE Does
    <3>1. r \in Nat
      BY BankAssumption
    <3> QED BY <1>0, <2>3, <3>1, SetRateKeeps, BooksDo DEF set_incentive_rate2
  <2>4. ASSUME disable PROVE Does
    BY <2>4, DisableDoes
  <2>5. ASSUME migrate_data PROVE Does
    BY <2>5, MigrateDoes
  <2> QED BY <1>2, <2>1, <2>2, <2>3, <2>4, <2>5 DEF Supervisor
<1>3. ASSUME NEW r \in Rates, set_incentive_rate(r) PROVE Does
  <2>1. r \in Nat
    BY BankAssumption
  <2> QED BY <1>3, <2>1, SetRateDoes
<1>4. ASSUME NEW a \in Addr, claim_incentive(a) PROVE Does
  BY <1>4, ClaimDoes
<1>5. ASSUME NEW a \in Addr, NEW m \in Live, update_price_from_oracle(a, m) PROVE Does
  BY <1>0, <1>5, OracleKeeps, BooksDo DEF update_price_from_oracle
<1>6. ASSUME NEW a \in Addr, NEW m \in Live, borrow_balance(a, m) PROVE Does
  BY <1>0, <1>6, AccrueKeeps, BooksDo DEF borrow_balance
<1>7. ASSUME NEW a \in Addr, NEW m \in Live, NEW p \in Prices, update_price(a, m, p) PROVE Does
  <2>1. p \in Nat
    BY BankAssumption
  <2> QED BY <1>7, <2>1, MarketDoes DEF update_price
<1>8. ASSUME NEW a \in Addr, NEW m \in Live, NEW x \in Amounts, Ledger(a, m, x)
      PROVE  Does \/ (BankSpends /\ Manages)
  <2>0. x \in Nat
    BY BankAssumption
  <2>1. ASSUME NEW b \in Addr, mint(a, m, b, x) PROVE Does
    BY <2>0, <2>1, MintDoes
  <2>2. ASSUME NEW b \in Addr, transfer(a, m, b, x) PROVE Does \/ (BankSpends /\ Manages)
    <3>1. Does \/ (a = Bank /\ Manages)
      BY <2>0, <2>2, TransferDoes
    <3>2. a = Bank => BankSpends
      BY <2>2 DEF BankSpends
    <3> QED BY <3>1, <3>2
  <2>3. ASSUME enter_bank(a, m, x) PROVE Does
    BY <2>0, <2>3, EnterDoes
  <2>4. ASSUME exit_bank(a, m, x) PROVE Does \/ (BankSpends /\ Manages)
    <3>1. Does \/ (a = Bank /\ Manages)
      BY <2>0, <2>4, ExitDoes
    <3>2. a = Bank => BankSpends
      BY <2>4 DEF BankSpends
    <3> QED BY <3>1, <3>2
  <2> QED BY <1>8, <2>1, <2>2, <2>3, <2>4 DEF Ledger
<1>9. ASSUME NEW a \in Addr, NEW m \in Live, NEW x \in Amounts, Lending(a, m, x) PROVE Does
  <2>0. x \in Nat
    BY BankAssumption
  <2>a. a \in Users
    BY <1>9, LendsToUsers DEF Addr
  <2>1. ASSUME lock(a, m, x) PROVE Does
    BY <2>a, <2>0, <2>1, LockDoes
  <2>2. ASSUME redeem(a, m, x) PROVE Does
    BY <2>a, <2>0, <2>2, RedeemDoes
  <2>3. ASSUME borrow(a, m, x) PROVE Does
    BY <2>a, <2>0, <2>3, BorrowDoes
  <2>4. ASSUME repay_borrow(a, m, x) PROVE Does
    BY <2>a, <2>0, <2>4, RepayDoes
  <2>5. ASSUME NEW b \in Addr, NEW c \in Live, liquidate_borrow(a, m, b, x, c) PROVE Does
    BY <2>a, <2>0, <2>5, LiquidateDoes
  <2> QED BY <1>9, <2>1, <2>2, <2>3, <2>4, <2>5 DEF Lending
<1> HIDE DEF Does, Manages
<1>10. ASSUME NEW a \in Addr, Calls(a) PROVE Does \/ (BankSpends /\ Manages)
  BY <1>4, <1>5, <1>6, <1>7, <1>8, <1>9, <1>10 DEF Calls
<1> QED BY <1>1, <1>2, <1>3, <1>10 DEF Next

----------------------------------------------------------------------------
(* The invariant, and what a step keeps.                                  *)

Inv == TypeOK /\ Good(Here)

\* What no step may do, as an action.
Climbs ==
  \A m \in Live :
    /\ mk'[m].borrow_index >= mk[m].borrow_index
    /\ mk'[m].incentive_supply_index >= mk[m].incentive_supply_index
    /\ mk'[m].incentive_borrow_index >= mk[m].incentive_borrow_index
Freezes ==
  store.disabled =>
    /\ store'.disabled
    /\ \A a \in Addr : acc'[a].lock = acc[a].lock /\ acc'[a].principal = acc[a].principal
    /\ \A c \in Coins : coin'[Bank][c] >= coin[Bank][c]
StaysRated == (\A m \in Live : Solvent(Here, m) => Rated(Here, m)') \/ BankSpends
Lends ==
  \A a \in Users, m \in Live :
    DrawsLoan(a, m) => (Collateral(Here, a) + 1 >= Debt(Here, a))'

\* A step that leaves the number of markets as it is.
LEMMA GoodNext ==
  ASSUME NEW r, Good(r), Here' = r, n' = n
  PROVE  Good(Here)'
<1>1. Live' = Live
  BY DEF Live
<1>2. Conserved(Here)'
  BY DEF Good, Conserved, Held, Locked
<1>3. Sane(Here)'
  BY DEF Good, Sane
<1>4. Blank(Here)' /\ OneCoin(Here)' /\ Backed(Here)'
  BY <1>1 DEF Good, Blank, OneCoin, Backed
<1> QED BY <1>2, <1>3, <1>4 DEF Good

LEMMA OrderlyKeeps ==
  ASSUME Inv, NEW r, Becomes(r), Orderly(Here, r)
  PROVE  Inv' /\ Climbs /\ Freezes /\ Lends /\ Here' = r
<1>1. Becomes(r) /\ Orderly(Here, r)
  OBVIOUS
<1>2. r \in Storage /\ Good(r)
  BY <1>1 DEF Orderly
<1>3. Here' = r
  <2>1. r = [mk |-> r.mk, store |-> r.store, acc |-> r.acc, coin |-> r.coin]
    BY <1>2, Parts
  <2>2. Here' = [mk |-> mk', store |-> store', acc |-> acc', coin |-> coin']
    BY DEF Here
  <2> QED BY <1>1, <2>1, <2>2 DEF Becomes
<1>4. Good(Here)'
  BY <1>1, <1>2, <1>3, GoodNext DEF Becomes
<1>5. TypeOK'
  BY <1>1, <1>2, <1>3 DEF Inv, TypeOK, Becomes, Txn
<1>6. /\ mk' = r.mk /\ store' = r.store /\ acc' = r.acc /\ coin' = r.coin
      /\ Here.mk = mk /\ Here.store = store /\ Here.acc = acc /\ Here.coin = coin
  BY <1>1 DEF Becomes, Here
<1>7. Here \in Storage /\ n \in 0 .. MaxMarkets
  BY DEF Inv, TypeOK
<1>8. Climbs
  <2> SUFFICES ASSUME NEW m \in Live
               PROVE  /\ mk'[m].borrow_index >= mk[m].borrow_index
                      /\ mk'[m].incentive_supply_index >= mk[m].incentive_supply_index
                      /\ mk'[m].incentive_borrow_index >= mk[m].incentive_borrow_index
    BY DEF Climbs
  <2>1. /\ mk[m].borrow_index \in Nat /\ mk[m].incentive_supply_index \in Nat
        /\ mk[m].incentive_borrow_index \in Nat
        /\ r.mk[m].borrow_index \in Nat /\ r.mk[m].incentive_supply_index \in Nat
        /\ r.mk[m].incentive_borrow_index \in Nat
    BY <1>2, <1>6, <1>7, LiveFinite, BankAddr, Numbers DEF Pos
  <2> QED BY <1>1, <1>6, <2>1 DEF Orderly
<1>9. Freezes
  <2>1. \A c \in Coins : coin[Bank][c] \in Nat /\ r.coin[Bank][c] \in Nat
    BY <1>2, <1>6, <1>7, BankAddr, Parts DEF Purses
  <2> QED BY <1>1, <1>6, <2>1 DEF Orderly, Freezes
<1>10. Lends
  <2> SUFFICES ASSUME NEW a \in Users, NEW m \in Live, DrawsLoan(a, m)
               PROVE  (Collateral(Here, a) + 1 >= Debt(Here, a))'
    BY DEF Lends
  <2>1. Draws(Here, r, a, m)
    BY <1>6 DEF DrawsLoan, Draws
  <2>2. Collateral(r, a) + 1 >= Debt(r, a)
    BY <1>1, <2>1 DEF Orderly, Covered
  <2>3. Live' = Live
    BY <1>1 DEF Becomes, Live
  <2>4. Collateral(Here, a)' = Collateral(r, a) /\ Debt(Here, a)' = Debt(r, a)
    BY <1>3, <2>3 DEF Collateral, Debt, exchange_rate, Cash, balance_of_index,
                      borrow_balance_of_index
  <2> QED BY <2>2, <2>4
<1> QED BY <1>4, <1>5, <1>8, <1>9, <1>10, <1>3 DEF Inv

LEMMA DoesKeeps ==
  ASSUME Inv, Does
  PROVE  Inv' /\ Climbs /\ Freezes /\ StaysRated /\ Lends
<1>1. PICK r : Becomes(r) /\ Lawful(Here, r)
  BY DEF Does
<1>2. Inv' /\ Climbs /\ Freezes /\ Lends /\ Here' = r
  BY <1>1, OrderlyKeeps DEF Lawful
<1>3. StaysRated
  BY <1>1, <1>2 DEF Lawful, StaysRated, Rated, Solvent, Cash
<1> QED BY <1>2, <1>3

\* The contract's account spends a market's cash.
LEMMA ManagesKeeps ==
  ASSUME Inv, BankSpends, Manages
  PROVE  Inv' /\ Climbs /\ Freezes /\ StaysRated /\ Lends
<1>1. PICK r : Becomes(r) /\ Orderly(Here, r)
  BY DEF Manages
<1> QED BY <1>1, OrderlyKeeps DEF StaysRated

\* Time passes, the oracle announces a rate, or nothing happens.
LEMMA IdleKeeps ==
  ASSUME Inv, UNCHANGED <<mk, n, store, acc, coin>>, TypeOK'
  PROVE  Inv' /\ Climbs /\ Freezes /\ StaysRated /\ Lends
<1>1. Here' = Here /\ Here \in Storage /\ n \in 0 .. MaxMarkets /\ Here.mk = mk /\ Here.coin = coin
  BY DEF Inv, TypeOK, Here
<1>2. Good(Here)'
  BY <1>1, GoodNext DEF Inv
<1>3. Climbs
  <2> SUFFICES ASSUME NEW m \in Live
               PROVE  /\ mk[m].borrow_index \in Nat /\ mk[m].incentive_supply_index \in Nat
                      /\ mk[m].incentive_borrow_index \in Nat
    BY DEF Climbs
  <2> QED BY <1>1, LiveFinite, BankAddr, Numbers DEF Pos
<1>4. Freezes
  <2>1. \A c \in Coins : coin[Bank][c] \in Nat
    BY <1>1, BankAddr, Parts DEF Purses
  <2> QED BY <2>1 DEF Freezes
<1>5. StaysRated
  BY <1>1 DEF StaysRated, Rated, Solvent, Cash
<1>6. Lends
  <2>1. \A a \in Addr, m \in Live : acc[a].val[m] \in Nat
    BY <1>1, LiveFinite, Numbers DEF Here
  <2> QED BY <2>1, BankAddr DEF Lends, DrawsLoan
<1> QED BY <1>2, <1>3, <1>4, <1>5, <1>6 DEF Inv

\* A market comes into being with its indexes at one and nothing in it, which
\* is what the accounts took for granted of it.
LEMMA CreateKeeps ==
  ASSUME Inv, NEW l \in Listings, create_token(l)
  PROVE  Inv' /\ Climbs /\ Freezes /\ StaysRated /\ Lends
<1> DEFINE u == TokenInfo(l.owner, l.coin, l.oracle, l.factor, l.model, now)
           w == [acc[Bank] EXCEPT !.cnt = n + 1]
<1>0. /\ Here \in Storage /\ n \in 0 .. MaxMarkets /\ n < MaxMarkets /\ now \in Nat /\ version \in Nat
      /\ n \in Nat /\ n \in Markets /\ n \notin Live /\ Live \subseteq Markets /\ Bank \in Addr
  <2>1. /\ Here \in Storage /\ n \in 0 .. MaxMarkets /\ n < MaxMarkets /\ now \in Nat /\ version \in Nat
        /\ Bank \in Addr
    BY BankAddr DEF Inv, TypeOK, create_token
  <2>2. n \in Nat /\ n \in Markets /\ n \notin Live
    BY <2>1, BankAssumption DEF Markets, Live
  <2> QED BY <2>1, <2>2, LiveFinite
<1>1. mk \in [Markets -> TokenInfos] /\ acc \in [Addr -> Accounts] /\ coin \in Purses /\ store \in Stores
  BY <1>0, Parts DEF Here
<1>2. /\ mk' = [mk EXCEPT ![n] = u] /\ n' = n + 1 /\ acc' = [acc EXCEPT ![Bank] = w]
      /\ store' = store /\ coin' = coin /\ orc' = orc /\ now' = now /\ version' = version + 1
      /\ l.coin # Nothing => l.owner = Nothing /\ \A m \in Live : mk[m].coin # l.coin
  BY DEF create_token, Txn
<1>3. /\ l.owner \in Users \cup {Bank, Nothing} /\ l.coin \in Coins \cup {Nothing} /\ l.oracle \in Addr
      /\ l.factor \in Nat /\ l.model \in RateModels
  BY BankAssumption DEF Addr
<1>4. /\ l.model.base \div YearMinutes \in Nat /\ l.model.mult \div YearMinutes \in Nat
      /\ l.model.jump \div YearMinutes \in Nat /\ l.model.kink \in Nat
  <2>1. /\ l.model.base \in Nat /\ l.model.mult \in Nat /\ l.model.jump \in Nat
        /\ l.model.kink \in Nat /\ YearMinutes \in Pos
    BY <1>3, BankAssumption DEF Pos
  <2> QED BY <2>1, DivNat
<1>5. u \in TokenInfos
  BY <1>0, <1>3, <1>4, ScalePos DEF TokenInfo, TokenInfos, Addr
<1>6. /\ u.total_supply = 0 /\ u.lock_supply = 0 /\ u.borrow_index = One
      /\ u.incentive_supply_index = One /\ u.incentive_borrow_index = One
      /\ u.coin = l.coin /\ u.owner = l.owner
  BY DEF TokenInfo
<1> HIDE DEF u
<1>7. /\ w \in Accounts /\ SameBut(acc[Bank], w) /\ w.val = acc[Bank].val
  <2>1. acc[Bank] \in Accounts /\ n + 1 \in Nat
    BY <1>0, <1>1
  <2>2. w \in Accounts
    BY <2>1 DEF Accounts
  <2>3. /\ w.lock = acc[Bank].lock /\ w.principal = acc[Bank].principal
        /\ w.interest_index = acc[Bank].interest_index /\ w.supply_index = acc[Bank].supply_index
        /\ w.borrow_index = acc[Bank].borrow_index /\ w.val = acc[Bank].val
    BY <2>1 DEF Accounts
  <2> HIDE DEF w
  <2> QED BY <2>2, <2>3 DEF SameBut
<1> HIDE DEF w
<1>8. /\ mk' \in [Markets -> TokenInfos] /\ mk'[n] = u /\ \A k \in Markets : k # n => mk'[k] = mk[k]
      /\ acc' \in [Addr -> Accounts]
  BY <1>0, <1>1, <1>2, <1>5, <1>7
<1>9. \A a \in Addr : SameBut(acc[a], acc'[a]) /\ acc'[a].val = acc[a].val
  BY <1>0, <1>1, <1>2, <1>7 DEF SameBut
<1>10. Here' \in Storage
  BY <1>1, <1>2, <1>8 DEF Here, Storage
<1>11. TypeOK'
  BY <1>0, <1>2, <1>10, BankAssumption DEF Inv, TypeOK
<1>12. /\ Here.mk = mk /\ Here.acc = acc /\ Here.coin = coin
       /\ Here'.mk = mk' /\ Here'.acc = acc' /\ Here'.coin = coin
  BY <1>2 DEF Here
<1>13. Live' = Live \cup {n}
  BY <1>0, <1>2 DEF Live
<1>14. Conserved(Here')
  <2> SUFFICES ASSUME NEW m \in Markets
               PROVE  Held(Here', m) = mk'[m].total_supply /\ Locked(Here', m) = mk'[m].lock_supply
    BY <1>12 DEF Conserved
  <2>1. Held(Here', m) = Held(Here, m) /\ Locked(Here', m) = Locked(Here, m)
    BY <1>9, <1>12, HeldSame, LockedSame DEF SameBut
  <2>2. Held(Here, m) = mk[m].total_supply /\ Locked(Here, m) = mk[m].lock_supply
    BY <1>12 DEF Inv, Good, Conserved
  <2>3. m = n => mk[m].total_supply = 0 /\ mk[m].lock_supply = 0
    BY <1>0, <1>12 DEF Inv, Good, Blank
  <2> QED BY <1>6, <1>8, <2>1, <2>2, <2>3
<1>15. Sane(Here')
  <2> SUFFICES ASSUME NEW a \in Addr, NEW m \in Markets
               PROVE  /\ One <= acc[a].interest_index[m] /\ acc[a].interest_index[m] <= mk'[m].borrow_index
                      /\ One <= acc[a].supply_index[m]
                      /\ acc[a].supply_index[m] <= mk'[m].incentive_supply_index
                      /\ One <= acc[a].borrow_index[m]
                      /\ acc[a].borrow_index[m] <= mk'[m].incentive_borrow_index
    BY <1>9, <1>12 DEF Sane, SameBut
  <2>1. /\ One <= acc[a].interest_index[m] /\ acc[a].interest_index[m] <= mk[m].borrow_index
        /\ One <= acc[a].supply_index[m]
        /\ acc[a].supply_index[m] <= mk[m].incentive_supply_index
        /\ One <= acc[a].borrow_index[m]
        /\ acc[a].borrow_index[m] <= mk[m].incentive_borrow_index
    BY <1>12 DEF Inv, Good, Sane
  <2>2. m = n => /\ mk[m].borrow_index = One /\ mk[m].incentive_supply_index = One
                 /\ mk[m].incentive_borrow_index = One
    BY <1>0, <1>12 DEF Inv, Good, Blank
  <2> QED BY <1>6, <1>8, <2>1, <2>2
<1>16. Blank(Here)'
  <2>1. \A m \in Markets \ Live' : m # n /\ m \in Markets \ Live /\ mk'[m] = mk[m]
    BY <1>8, <1>13
  <2> QED BY <1>12, <2>1 DEF Inv, Good, Blank
<1>17. OneCoin(Here)'
  <2>1. ASSUME NEW m \in Live', mk'[m].coin # Nothing PROVE mk'[m].owner = Nothing
    BY <1>0, <1>2, <1>6, <1>8, <1>12, <1>13, <2>1 DEF Inv, Good, OneCoin
  <2>2. ASSUME NEW m \in Live', NEW k \in Live', m # k, mk'[m].coin # Nothing
        PROVE  mk'[k].coin # mk'[m].coin
    <3>1. CASE m = n
      BY <1>0, <1>2, <1>6, <1>8, <1>13, <2>2, <3>1
    <3>2. CASE k = n
      BY <1>0, <1>2, <1>6, <1>8, <1>13, <2>2, <3>2
    <3>3. CASE m # n /\ k # n
      BY <1>0, <1>8, <1>12, <1>13, <2>2, <3>3 DEF Inv, Good, OneCoin
    <3> QED BY <3>1, <3>2, <3>3
  <2> QED BY <1>12, <2>1, <2>2 DEF OneCoin
<1>18. Backed(Here)'
  <2> SUFFICES ASSUME NEW m \in Live', mk'[m].coin \notin {Nothing, VLS}
               PROVE  coin[Bank][mk'[m].coin] >= mk'[m].total_supply
    BY <1>12 DEF Backed
  <2>1. CASE m = n
    <3>1. mk'[m].coin \in Coins
      BY <1>3, <1>6, <1>8, <2>1
    <3>2. coin[Bank][mk'[m].coin] \in Nat
      BY <1>0, <1>1, <3>1 DEF Purses
    <3> QED BY <1>6, <1>8, <2>1, <3>2
  <2>2. CASE m # n
    BY <1>0, <1>8, <1>12, <1>13, <2>2 DEF Inv, Good, Backed
  <2> QED BY <2>1, <2>2
<1>19. Good(Here)'
  BY <1>14, <1>15, <1>16, <1>17, <1>18 DEF Good, Conserved, Held, Locked, Sane
<1>20. \A m \in Live : mk'[m] = mk[m] /\ m \in Markets
  BY <1>0, <1>8
<1>21. Climbs
  <2> SUFFICES ASSUME NEW m \in Live
               PROVE  /\ mk[m].borrow_index \in Nat /\ mk[m].incentive_supply_index \in Nat
                      /\ mk[m].incentive_borrow_index \in Nat
    BY <1>20 DEF Climbs
  <2> QED BY <1>0, <1>12, <1>20, Numbers DEF Pos
<1>22. Freezes
  <2>1. \A c \in Coins : coin[Bank][c] \in Nat
    BY <1>0, <1>1 DEF Purses
  <2> QED BY <1>2, <1>9, <2>1 DEF Freezes, SameBut
<1>23. StaysRated
  BY <1>0, <1>9, <1>12, <1>20 DEF StaysRated, Rated, Solvent, Cash
<1>24. Lends
  <2>1. \A a \in Addr, m \in Live : acc[a].val[m] \in Nat
    BY <1>0, <1>12, Numbers
  <2> QED BY <1>9, <2>1, BankAddr DEF Lends, DrawsLoan
<1> QED BY <1>11, <1>19, <1>21, <1>22, <1>23, <1>24 DEF Inv

LEMMA StepKeeps ==
  ASSUME Inv, [Next]_vars
  PROVE  Inv' /\ Climbs /\ Freezes /\ StaysRated /\ Lends
<1>1. CASE UNCHANGED vars
  <2>1. UNCHANGED <<mk, n, store, acc, coin>> /\ TypeOK'
    BY <1>1 DEF vars, Inv, TypeOK, Here
  <2> QED BY <2>1, IdleKeeps
<1>2. CASE Next
  <2>1. CASE Does
    BY <2>1, DoesKeeps
  <2>a. CASE BankSpends /\ Manages
    BY <2>a, ManagesKeeps
  <2>2. CASE Tick
    <3>1. UNCHANGED <<mk, n, store, acc, coin>> /\ TypeOK'
      BY <2>2 DEF Tick, Inv, TypeOK, Here
    <3> QED BY <3>1, IdleKeeps
  <2>3. ASSUME NEW l \in Listings, create_token(l) PROVE Inv' /\ Climbs /\ Freezes /\ StaysRated /\ Lends
    BY <2>3, CreateKeeps
  <2>4. ASSUME NEW c \in Quoted, NEW p \in Prices, update_exchange_rate(c, p)
        PROVE  Inv' /\ Climbs /\ Freezes /\ StaysRated /\ Lends
    <3>1. p \in Nat /\ c \in Coins
      BY BankAssumption
    <3>2. UNCHANGED <<mk, n, store, acc, coin, now>> /\ version' = version + 1
      BY <2>4 DEF update_exchange_rate, Txn
    <3>3. orc' \in [Coins -> [value : Nat, timestamp : Nat]]
      BY <2>4, <3>1 DEF update_exchange_rate, Inv, TypeOK
    <3>4. TypeOK'
      BY <3>2, <3>3 DEF Inv, TypeOK, Here
    <3> QED BY <3>2, <3>4, IdleKeeps
  <2> QED BY <1>2, <2>1, <2>a, <2>2, <2>3, <2>4, NextDoes DEF Inv
<1> QED BY <1>1, <1>2

LEMMA InitGood ==
  ASSUME Init
  PROVE  Inv
<1>0. One \in Pos /\ Bank \in Addr /\ 0 \in Nat /\ MaxMarkets \in Nat
  BY ScalePos, BankAddr, BankAssumption
<1> DEFINE rm == [base |-> 0, mult |-> 0, jump |-> 0, kink |-> 0]
           u == TokenInfo(Nothing, Nothing, Nothing, 0, rm, 0)
<1>1. 0 \div YearMinutes \in Nat
  <2>1. YearMinutes \in Pos
    BY BankAssumption DEF Pos
  <2> QED BY <2>1, DivNat
<1>2. u \in TokenInfos
  BY <1>0, <1>1 DEF TokenInfo, TokenInfos
<1>3. /\ u.total_supply = 0 /\ u.lock_supply = 0 /\ u.borrow_index = One
      /\ u.incentive_supply_index = One /\ u.incentive_borrow_index = One
  BY DEF TokenInfo
<1>4. mk = [m \in Markets |-> u] /\ n = 0 /\ coin = Endowment /\ acc = [a \in Addr |-> NoTokens]
  BY DEF Init
<1> HIDE DEF u
<1>5. NoTokens \in Accounts
  BY <1>0 DEF NoTokens, Accounts
<1>6. \A m \in Markets : /\ NoTokens.val[m] = 0 /\ NoTokens.lock[m] = 0
                         /\ NoTokens.interest_index[m] = One /\ NoTokens.supply_index[m] = One
                         /\ NoTokens.borrow_index[m] = One
  BY DEF NoTokens
<1>7. store \in Stores
  BY DEF Init, Stores
<1>8. coin \in Purses
  BY <1>4, BankAssumption DEF Purses, Addr
<1> HIDE DEF NoTokens
<1>9. Here \in Storage
  BY <1>2, <1>4, <1>5, <1>7, <1>8 DEF Here, Storage
<1>10. TypeOK
  BY <1>0, <1>9 DEF Init, TypeOK
<1>11. Here.mk = mk /\ Here.acc = acc /\ Here.coin = coin
  BY DEF Here
<1>12. Live = {}
  BY <1>4 DEF Live
<1>13. Conserved(Here)
  <2> SUFFICES ASSUME NEW m \in Markets
               PROVE  Held(Here, m) = 0 /\ Locked(Here, m) = 0
    BY <1>3, <1>4, <1>11 DEF Conserved
  <2> DEFINE f == [a \in Addr |-> acc[a].val[m]]
             g == [a \in Addr |-> acc[a].lock[m]]
  <2>1. \A a \in Addr : f[a] = 0 /\ g[a] = 0
    BY <1>4, <1>6
  <2>2. Held(Here, m) = SumFunctionOnSet(f, Addr) /\ Locked(Here, m) = SumFunctionOnSet(g, Addr)
    BY <1>11 DEF Held, Locked
  <2> HIDE DEF f, g
  <2> QED BY <2>1, <2>2, SumZero, AddrFinite
<1>14. Sane(Here)
  BY <1>0, <1>3, <1>4, <1>6, <1>11 DEF Sane, Pos
<1>15. Blank(Here)
  BY <1>3, <1>4, <1>11 DEF Blank
<1>16. OneCoin(Here) /\ Backed(Here)
  BY <1>12 DEF OneCoin, Backed
<1> QED BY <1>10, <1>13, <1>14, <1>15, <1>16 DEF Inv, Good

\* The inductive invariant holds in every state.
LEMMA Always == Spec => []Inv
<1>1. Init => Inv
  BY InitGood
<1>2. Inv /\ [Next]_vars => Inv'
  BY StepKeeps
<1> QED BY <1>1, <1>2, PTL DEF Spec

----------------------------------------------------------------------------
(* The theorems.                                                          *)

\* Every resource of the contract keeps its type: no balance, supply, debt or
\* purse becomes negative and no index zero, whatever calls are made, since
\* every subtraction of bank.move but exchange_rate's is guarded or safe.
THEOREM BankTyped == Spec => []TypeOK
<1>1. Inv => TypeOK
  BY DEF Inv
<1> QED BY <1>1, Always, PTL

\* The units of token 2m in all accounts, the contract's included, are its
\* total_supply: after mint, transfer, enter_bank, exit_bank, lock, redeem,
\* borrow, repay_borrow and liquidate_borrow.
THEOREM TokensAreConserved == Spec => []TokenConservation
<1>1. Inv => TokenConservation
  BY DEF Inv, Good, Conserved, Held, Here, TokenConservation
<1> QED BY <1>1, Always, PTL

\* The bank tokens of all accounts are their total_supply: redeem_index never
\* needs the safe_sub it takes from lock_supply with, and what
\* liquidate_borrow_index seizes the borrower loses.
THEOREM BankTokensAreConserved == Spec => []LockConservation
<1>1. Inv => LockConservation
  BY DEF Inv, Good, Conserved, Locked, Here, LockConservation
<1> QED BY <1>1, Always, PTL

\* Whatever enter_bank issued for a currency is covered by coins of it in the
\* contract's account (VLS aside, which pays the incentives).
THEOREM CoinsBackTokens == Spec => []BackedByCoins
<1>1. Inv => BackedByCoins
  BY DEF Inv, Good, Backed, Here, BackedByCoins
<1> QED BY <1>1, Always, PTL

\* No account's interest or incentive index is below one or ahead of its
\* market's, so that distribute_*_incentive and borrow_balance are defined.
THEOREM IndexesAreSane == Spec => []IndexesSane
<1>1. Inv => IndexesSane
  BY DEF Inv, Good, Sane, Here, IndexesSane
<1> QED BY <1>1, Always, PTL

\* No call lowers a borrow_index or an incentive index of a market.
THEOREM IndexesClimb == Spec => IndexesMonotone
<1>1. Inv /\ [Next]_vars => [Climbs]_vars
  BY StepKeeps
<1>2. Spec => [][Climbs]_vars
  BY <1>1, Always, PTL DEF Spec
<1> QED BY <1>2 DEF IndexesMonotone, Climbs

\* After disable no call changes what anybody has locked or owes, or takes a
\* coin out of the contract's account.
THEOREM DisableFreezes == Spec => DisabledFreezes
<1>1. Inv /\ [Next]_vars => [Freezes]_vars
  BY StepKeeps
<1>2. Spec => [][Freezes]_vars
  BY <1>1, Always, PTL DEF Spec
<1> QED BY <1>2 DEF DisabledFreezes, Freezes

\* From a state in which cash and loans cover the reserves of a market, no call
\* leads to one in which its exchange_rate aborts, but a transfer or an exit_bank
\* signed by the contract's own account: interest adds to the loans at least
\* what it adds to the reserves, a redemption that leaves bank tokens behind
\* takes no more than the market is worth, and nobody else spends its cash.
THEOREM RatesStayDefined == Spec => RateStaysDefined
<1>1. Inv /\ [Next]_vars => [StaysRated]_vars
  BY StepKeeps
<1>2. Spec => [][StaysRated]_vars
  BY <1>1, Always, PTL DEF Spec
<1> QED BY <1>2 DEF RateStaysDefined, StaysRated

\* Whoever draws a loan is covered by his bank tokens afterwards, at the prices
\* and exchange rates of the new state: borrow_index adds the loan's value to
\* the debt it compares, the coins that leave a market are owed to it instead,
\* so that no collateral changes, and the roundings of the new principal cost
\* no more than one unit.  No other call raises tokens and debt of one account.
THEOREM LoansAreCovered == Spec => BorrowStaysCovered
<1>1. Inv /\ [Next]_vars => [Lends]_vars
  BY StepKeeps
<1>2. Spec => [][Lends]_vars
  BY <1>1, Always, PTL DEF Spec
<1> QED BY <1>2 DEF BorrowStaysCovered, Lends
=============================================================================
