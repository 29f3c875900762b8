------------------------------ MODULE Exchange ------------------------------
(* move/exchange/exchange.move: pools of two currencies, swaps along a path  *)
(* of pools, and rewards in VLS for the holders of shares.                   *)
(*                                                                           *)
(* The code keeps the vectors Reserves.reserves and RewardPools.pool_infos,  *)
(* which grow together (get_reserve_internal), and, for each user,           *)
(* Tokens.tokens and PoolUserInfos.pool_user_infos, which grow together too  *)
(* (mint); each pair of vectors is one sequence here.  A transaction works   *)
(* on a record of the contract's resources, and is committed unless some     *)
(* assert, subtraction, division or payment of it aborts (ok).  The minima   *)
(* that callers may ask for only abort more, and are left out.               *)
EXTENDS Integers, Sequences, SequencesExt, FiniteSetsExt

CONSTANTS
  Users,        \* the signers that are not the contract
  Admin,        \* admin_addr()
  Coins, VLS,   \* the currencies, and the one rewards are paid in
  Endowment,    \* what the users have at first: [Users -> [Coins -> Nat]]
  MULT_FACTOR,  \* the unit of acc_vls_per_share, 1000000000 in the code
  AllocPoint,   \* the points of a new pool, 1000 in the code
  Amounts,      \* the amounts users deposit, swap and withdraw
  Paths,        \* the paths of swaps: sequences of currency numbers
  Fees,         \* the pairs set_fee_factor is called with
  AllocPoints,  \* the points set_pool_alloc_point is called with
  Periods,      \* the rewards: [balance, from, to], from and to relative to now
  MaxTime,      \* bound of the clock
  MaxVersion    \* bound of the number of transactions

ASSUME ExchangeAssumption ==
  /\ IsFiniteSet(Users) /\ Admin \notin Users /\ VLS \in Coins
  /\ Endowment \in [Users -> [Coins -> Nat]]
  /\ MULT_FACTOR \in Nat \ {0} /\ AllocPoint \in Nat \ {0}
  /\ Amounts \subseteq Nat /\ AllocPoints \subseteq Nat
  /\ MaxTime \in Nat \ {0} /\ MaxVersion \in Nat
  /\ \A path \in Paths : path \in Seq(Nat)
  /\ Fees \subseteq Nat \X Nat
  /\ \A p \in Periods : p.balance \in Nat /\ p.from \in Nat /\ p.to \in Nat

VARIABLES
  codes,     \* RegisteredCurrencies, by number
  pools,     \* reserves and reward pools
  rewards,   \* the rest of RewardPools
  factor,    \* the fee, EventInfo.factor1 and factor2
  rewarder,  \* RewardAdmin.addr
  own,       \* the shares of each user
  coin,      \* the balances of the Diem accounts
  now,       \* DiemTimestamp::now_seconds()
  version    \* the number of transactions

vars == <<codes, pools, rewards, factor, rewarder, own, coin, now, version>>

Addr == Users \cup {Admin}

\* What initialize finds: no resource of the exchange is published.
Unset == [open |-> FALSE, end |-> 0, last |-> 0, balance |-> 0, rate |-> 0, total_alloc |-> 0]

Init ==
  /\ codes = <<>> /\ pools = <<>> /\ rewards = Unset
  /\ factor = <<0, 1>> /\ rewarder = Admin
  /\ own = [u \in Users |-> <<>>]
  /\ coin = [a \in Addr |-> IF a = Admin THEN [c \in Coins |-> 0] ELSE Endowment[a]]
  /\ now = 1 /\ version = 0

---------------------------------------------------------------------------
\* Transactions.

\* The resources a transaction starts from.
Begin == [ok |-> rewards.open, pools |-> pools, rewards |-> rewards, own |-> own, coin |-> coin]

\* t goes on only if c holds.
Require(t, c) == [t EXCEPT !.ok = @ /\ c]

\* DiemAccount::pay_from moves a positive amount the payer has.  Deposits are
\* signed by a user: the contract's own capability was extracted for good.
Pay(t, from, to, c, amount) ==
  IF t.ok /\ amount > 0 /\ t.coin[from][c] >= amount
  THEN [t EXCEPT !.coin[from][c] = @ - amount, !.coin[to][c] = @ + amount]
  ELSE Require(t, FALSE)

\* The end of a transaction that did not abort.
Commit(t) ==
  /\ version < MaxVersion /\ version' = version + 1
  /\ t.ok
  /\ pools' = t.pools /\ rewards' = t.rewards /\ own' = t.own /\ coin' = t.coin
  /\ UNCHANGED now

---------------------------------------------------------------------------
\* Pools and shares.

\* The number of the pool of currencies a and b, or one past the last.
PoolIndex(ps, a, b) ==
  LET at == {i \in DOMAIN ps : ps[i].a = a /\ ps[i].b = b}
  IN  IF at = {} THEN Len(ps) + 1 ELSE Min(at)

\* The pool is created, with a reward pool, by whoever looks for it first.
get_reserve_internal(t, a, b) ==
  LET new == [a |-> a, b |-> b, supply |-> 0, ra |-> 0, rb |-> 0,
              lp_supply |-> 0, alloc |-> AllocPoint, acc |-> 0]
      u   == Require(t, a < b)
  IN  IF PoolIndex(t.pools, a, b) \in DOMAIN t.pools THEN u
      ELSE [u EXCEPT !.pools = Append(@, new), !.rewards.total_alloc = @ + AllocPoint]

\* The place of pool i among the user's entries, or one past the last.
Entry(t, u, i) ==
  LET at == {k \in DOMAIN t.own[u] : t.own[u][k].pool = i}
  IN  IF at = {} THEN Len(t.own[u]) + 1 ELSE Min(at)

get_token(t, u, i) ==
  IF Entry(t, u, i) \in DOMAIN t.own[u] THEN t
  ELSE [t EXCEPT !.own[u] = Append(@, [pool |-> i, value |-> 0, amount |-> 0, reward_debt |-> 0])]

\* Newton's iteration, from above.
sqrt(a, b) ==
  LET y == a * b
      from[x \in 1 .. y \div 2 + 1] == LET next == (y \div x + x) \div 2
                                        IN  IF next < x THEN from[next] ELSE x
  IN  IF y > 3 THEN from[y \div 2 + 1] ELSE 1

quote(amount, from, to) == (amount * to) \div from

\* get_mint_liquidity: what of the desired amounts x and y is taken, and the
\* shares given for it.
Taken(p, x, y) ==
  IF p.ra = 0 /\ p.rb = 0 THEN <<x, y>>
  ELSE IF quote(x, p.ra, p.rb) <= y THEN <<x, quote(x, p.ra, p.rb)>>
  ELSE <<quote(y, p.rb, p.ra), y>>

Minted(p, x, y) ==
  IF p.supply = 0 THEN sqrt(x, y)
  ELSE Min({(x * p.supply) \div p.ra, (y * p.supply) \div p.rb})

\* The asserts of quote and get_mint_liquidity, and the divisions.
Mintable(p, x, y) ==
  /\ p.ra + p.rb > 0 => x > 0 /\ p.ra > 0 /\ p.rb > 0
  /\ p.ra + p.rb > 0 => LET d == Taken(p, x, y)
                        IN  quote(x, p.ra, p.rb) > y => y > 0 /\ d[1] <= x
  /\ p.supply > 0 => p.ra > 0 /\ p.rb > 0
  /\ LET d == Taken(p, x, y) IN Minted(p, d[1], d[2]) > 0

---------------------------------------------------------------------------
\* Rewards.

\* Every pool with recorded shares gets its part of the time since the last
\* call; without a balance all accumulators go back to zero.
update_pool(t) ==
  LET r    == t.rewards
      time == Min({now, r.end})
      part(p) == ((time - r.last) * r.rate * p.alloc) \div r.total_alloc
      acc(p)  == IF p.lp_supply > 0 THEN p.acc + (part(p) * MULT_FACTOR) \div p.lp_supply
                 ELSE p.acc
      divides == r.total_alloc > 0 \/ \A i \in DOMAIN t.pools : t.pools[i].lp_supply = 0
  IN  IF ~t.ok \/ time <= r.last THEN t
      ELSE IF ~divides THEN Require(t, FALSE)
      ELSE [t EXCEPT !.pools = [i \in DOMAIN t.pools |->
                             [t.pools[i] EXCEPT !.acc = IF r.balance = 0 THEN 0
                                                        ELSE acc(t.pools[i])]],
                     !.rewards.last = time]

\* A variant: the reward is paid and not taken from the balance.
RewardedTwice(t, u, due) == Pay(t, Admin, u, VLS, due)

\* The reward that is due leaves the balance and the contract's account.
Rewarded(t, u, due) == Pay([t EXCEPT !.rewards.balance = @ - due], Admin, u, VLS, due)

\* A variant: the pool counts the user's shares on top of those it had.
RecordedAgain(t, u, k) ==
  LET e == t.own[u][k]
  IN  [t EXCEPT !.own[u][k].amount = e.value,
                !.own[u][k].reward_debt = (e.value * t.pools[e.pool].acc) \div MULT_FACTOR,
                !.pools[e.pool].lp_supply = @ + e.value]

\* Entry k and its pool are brought up to the shares the user now has.
Recorded(t, u, k) ==
  LET e == t.own[u][k]
      p == t.pools[e.pool]
  IN  IF p.lp_supply + e.value < e.amount THEN Require(t, FALSE)
      ELSE [t EXCEPT !.own[u][k].amount = e.value,
                     !.own[u][k].reward_debt = (e.value * p.acc) \div MULT_FACTOR,
                     !.pools[e.pool].lp_supply = @ + e.value - e.amount]

\* The user's entry k is paid what is due, and recorded.  When the balance is
\* short it is emptied, and nothing is paid or recorded.
update_user_reward_info(t, u, k) ==
  LET e   == t.own[u][k]
      due == IF e.amount > 0
             THEN (e.amount * t.pools[e.pool].acc) \div MULT_FACTOR - e.reward_debt ELSE 0
  IN  IF ~t.ok \/ due < 0 THEN Require(t, FALSE)
      ELSE IF due = 0 THEN Recorded(t, u, k)
      ELSE IF t.rewards.balance < due THEN [t EXCEPT !.rewards.balance = 0]
      ELSE Recorded(Rewarded(t, u, due), u, k)

---------------------------------------------------------------------------
\* The public functions.

\* initialize publishes the resources; the fee is 3 in 10000.
initialize(admin) ==
  /\ version < MaxVersion /\ version' = version + 1
  /\ ~rewards.open
  /\ rewards' = [Unset EXCEPT !.open = TRUE, !.end = now, !.last = now]
  /\ factor' = <<9997, 10000>>
  /\ rewarder' = admin
  /\ UNCHANGED <<codes, pools, own, coin, now>>

change_rewarder(admin) ==
  Commit(Begin) /\ rewarder' = admin /\ UNCHANGED <<codes, factor>>

set_fee_factor(f) ==
  Commit(Begin) /\ factor' = f /\ UNCHANGED <<codes, rewarder>>

add_currency(c) ==
  /\ Commit(Begin)
  /\ codes' = IF Contains(codes, c) THEN codes ELSE Append(codes, c)
  /\ UNCHANGED <<factor, rewarder>>

\* get_pair_indexs: numbers count from 0, and come in order.
Pair(a, b) == a \in 0 .. Len(codes) - 1 /\ b \in 0 .. Len(codes) - 1 /\ a < b

Code(i) == codes[i + 1]

Grown(t, i, liquidity, d) ==
  [t EXCEPT !.pools[i].supply = @ + liquidity, !.pools[i].ra = @ + d[1], !.pools[i].rb = @ + d[2]]

\* add_liquidity and mint.
AddLiquidity(u, a, b, x, y) ==
  LET t0 == get_reserve_internal(Begin, a, b)
      i  == PoolIndex(t0.pools, a, b)
      p  == t0.pools[i]
      d  == Taken(p, x, y)
      t1 == get_token(t0, u, i)
      k  == Entry(t1, u, i)
      t2 == [t1 EXCEPT !.own[u][k].value = @ + Minted(p, d[1], d[2])]
      t3 == Pay(Pay(t2, u, Admin, Code(a), d[1]), u, Admin, Code(b), d[2])
      t4 == update_user_reward_info(update_pool(t3), u, k)
  IN  IF ~Mintable(p, x, y) THEN Require(Begin, FALSE)
      ELSE Grown(t4, i, Minted(p, d[1], d[2]), d)

add_liquidity(u, a, b, x, y) ==
  Pair(a, b) /\ Commit(AddLiquidity(u, a, b, x, y)) /\ UNCHANGED <<codes, factor, rewarder>>

\* What liquidity shares of the reserve r are worth.
Worth(p, r, liquidity) == (liquidity * r) \div p.supply

RemoveLiquidity(u, i, liquidity) ==
  LET p  == pools[i]
      k  == Entry(Begin, u, i)
      x  == Worth(p, p.ra, liquidity)
      y  == Worth(p, p.rb, liquidity)
      t1 == [Begin EXCEPT !.pools[i].supply = @ - liquidity,
                          !.pools[i].ra = @ - x, !.pools[i].rb = @ - y,
                          !.own[u][k].value = @ - liquidity]
      t2 == update_user_reward_info(update_pool(t1), u, k)
  IN  IF p.supply < liquidity \/ p.supply = 0 \/ k \notin DOMAIN own[u] THEN Require(Begin, FALSE)
      ELSE IF own[u][k].value < liquidity THEN Require(Begin, FALSE)
      ELSE Pay(Pay(t2, Admin, u, Code(p.a), x), Admin, u, Code(p.b), y)

remove_liquidity(u, i, liquidity) ==
  Commit(RemoveLiquidity(u, i, liquidity)) /\ UNCHANGED <<codes, factor, rewarder>>

\* A variant: the input is not part of the reserve the output is computed from.
AmountOutSpot(amount_in, in, out) == (amount_in * factor[1] * out) \div (in * factor[2])

get_amount_out(amount_in, in, out) ==
  (amount_in * factor[1] * out) \div (in * factor[2] + amount_in * factor[1])

\* One pool of a path: h.amount of currency from becomes an amount of to.  The
\* fee is whatever the administrator set: get_amount_out may divide by zero.
Hop(h, from, to) ==
  LET i   == PoolIndex(h.t.pools, Min({from, to}), Max({from, to}))
      p   == h.t.pools[i]
      in  == IF from < to THEN p.ra ELSE p.rb
      out == IF from < to THEN p.rb ELSE p.ra
      got == get_amount_out(h.amount, in, out)
  IN  IF from = to \/ i \notin DOMAIN h.t.pools \/ ~h.t.ok THEN [h EXCEPT !.t.ok = FALSE]
      ELSE IF h.amount = 0 \/ in = 0 \/ out = 0 \/ in * factor[2] + h.amount * factor[1] = 0
           THEN [h EXCEPT !.t.ok = FALSE]
      ELSE [amount |-> got,
            t |-> IF from < to
                  THEN [h.t EXCEPT !.pools[i].ra = @ + h.amount, !.pools[i].rb = @ - got]
                  ELSE [h.t EXCEPT !.pools[i].ra = @ - got, !.pools[i].rb = @ + h.amount]]

\* The pools of the path, one after the other: a pool that is passed twice is
\* found as the first pass left it.
Along(path, amount_in) ==
  LET at[i \in 1 .. Len(path)] ==
        IF i = 1 THEN [t |-> Begin, amount |-> amount_in]
        ELSE Hop(at[i - 1], path[i - 1], path[i])
  IN  at[Len(path)]

\* The first and the last currency of the path are the two of the call.
swap(u, payee, amount_in, path) ==
  /\ Len(path) > 1 /\ Pair(Min({Head(path), Last(path)}), Max({Head(path), Last(path)}))
  /\ LET h == Along(path, amount_in)
     IN  Commit(Pay(Pay(h.t, u, Admin, Code(Head(path)), amount_in),
                    Admin, payee, Code(Last(path)), h.amount))
  /\ UNCHANGED <<codes, factor, rewarder>>

\* get_reserve is a query that creates the pool it does not find, if the
\* contract has nothing of the two currencies.
get_reserve(a, b) ==
  /\ Pair(a, b)
  /\ LET t == get_reserve_internal(Begin, a, b)
         p == t.pools[PoolIndex(t.pools, a, b)]
     IN  Commit(Require(t, coin[Admin][Code(a)] = p.ra /\ coin[Admin][Code(b)] = p.rb))
  /\ UNCHANGED <<codes, factor, rewarder>>

\* An unknown pool is taken for the last one.  The time since the last call
\* is counted with the new points.
set_pool_alloc_point(u, i, points) ==
  /\ u = rewarder /\ pools # <<>>
  /\ Commit([Begin EXCEPT !.pools[i].alloc = points,
                          !.rewards.total_alloc = @ - pools[i].alloc + points])
  /\ UNCHANGED <<codes, factor, rewarder>>

\* All of the user's pools, in the order they were entered.
Claimed(u) ==
  LET paid[k \in 0 .. Len(own[u])] ==
        IF k = 0 THEN update_pool(Begin) ELSE update_user_reward_info(paid[k - 1], u, k)
  IN  paid[Len(own[u])]

\* The loop does not advance over a pool without shares, and then runs out of gas.
withdraw_mine_reward(u) ==
  /\ own[u] # <<>>
  /\ \A k \in DOMAIN own[u] : own[u][k].value > 0
  /\ Commit(Claimed(u))
  /\ UNCHANGED <<codes, factor, rewarder>>

\* What is left of the last period's balance is not carried over.
set_next_rewards(u, balance, from, to) ==
  LET t == update_pool(Begin)
  IN  /\ u = rewarder /\ to > from /\ balance \div (to - from) > 0
      /\ Commit(Pay([t EXCEPT !.rewards.end = to, !.rewards.last = from,
                              !.rewards.rate = balance \div (to - from) - 1,
                              !.rewards.balance = balance],
                    u, Admin, VLS, balance))
      /\ UNCHANGED <<codes, factor, rewarder>>

\* The clock of the chain.
Tick == now < MaxTime /\ now' = now + 1
        /\ UNCHANGED <<codes, pools, rewards, factor, rewarder, own, coin, version>>

Numbers == 0 .. Len(codes) - 1

Next ==
  \/ \E a \in Addr : initialize(a) \/ change_rewarder(a)
  \/ \E f \in Fees : set_fee_factor(f)
  \/ \E c \in Coins : add_currency(c)
  \/ \E u \in Users, a, b \in Numbers, x, y \in Amounts : add_liquidity(u, a, b, x, y)
  \/ \E u \in Users, i \in DOMAIN pools, l \in Amounts : remove_liquidity(u, i, l)
  \/ \E u, payee \in Users, x \in Amounts, path \in Paths : swap(u, payee, x, path)
  \/ \E a, b \in Numbers : get_reserve(a, b)
  \/ \E u \in Users, i \in DOMAIN pools, points \in AllocPoints : set_pool_alloc_point(u, i, points)
  \/ \E u \in Users : withdraw_mine_reward(u)
  \/ \E u \in Users, p \in Periods : set_next_rewards(u, p.balance, now + p.from, now + p.to)
  \/ Tick

Spec == Init /\ [][Next]_vars

---------------------------------------------------------------------------
\* Properties.

\* What field n of the entries for pool i sums up to: those of a user, and of all.
Entered(o, u, i, n) ==
  SumFunctionOnSet([k \in DOMAIN o[u] |-> IF o[u][k].pool = i THEN o[u][k][n] ELSE 0],
                   DOMAIN o[u])

OfPool(o, i, n) == SumFunctionOnSet([u \in Users |-> Entered(o, u, i, n)], Users)

Allocated(ps) == SumFunctionOnSet([i \in DOMAIN ps |-> ps[i].alloc], DOMAIN ps)

\* The resources have their types, and no user has two entries for a pool.
TypeOK ==
  /\ codes \in Seq(Coins) /\ IsInjective(codes)
  /\ \A i \in DOMAIN pools :
       /\ pools[i].a < pools[i].b /\ pools[i].b < Len(codes)
       /\ \A n \in {"a", "b", "supply", "ra", "rb", "lp_supply", "alloc", "acc"} : pools[i][n] \in Nat
  /\ rewards.open \in BOOLEAN
  /\ \A n \in {"end", "last", "balance", "rate", "total_alloc"} : rewards[n] \in Nat
  /\ factor \in Nat \X Nat /\ rewarder \in Addr
  /\ \A u \in Users : \A k \in DOMAIN own[u] :
       /\ own[u][k].pool \in DOMAIN pools
       /\ \A n \in {"value", "amount", "reward_debt"} : own[u][k][n] \in Nat
       /\ \A l \in DOMAIN own[u] : own[u][l].pool = own[u][k].pool => l = k
  /\ coin \in [Addr -> [Coins -> Nat]]
  /\ now \in 1 .. MaxTime /\ version \in 0 .. MaxVersion

\* The totals count the entries: the supply of a pool is the shares of its
\* holders (mint and remove_liquidity change Reserve and Tokens by the same
\* amount), and the shares a reward pool divides by are those recorded with its
\* users, on every path through update_user_reward_info, the early return
\* included; the points are counted in total_alloc_point.
SharesCounted ==
  /\ \A i \in DOMAIN pools :
       /\ pools[i].supply = OfPool(own, i, "value")
       /\ pools[i].lp_supply = OfPool(own, i, "amount")
  /\ rewards.total_alloc = Allocated(pools)

\* What the pools hold of currency c.
Holding(p, c) ==
  (IF Code(p.a) = c THEN p.ra ELSE 0) + (IF Code(p.b) = c THEN p.rb ELSE 0)

Reserved(ps, c) == SumFunctionOnSet([i \in DOMAIN ps |-> Holding(ps[i], c)], DOMAIN ps)

\* One Diem account holds the reserves of all pools and the rewards: it always
\* has the reserves in full and what is left of the rewards on top of them, so
\* that no reward and no swap is paid out of another pool.
Backed ==
  \A c \in Coins : coin[Admin][c] >= Reserved(pools, c) + (IF c = VLS THEN rewards.balance ELSE 0)

\* set_fee_factor checks nothing: that a fee is never negative is up to its caller.
FairFees == \A f \in Fees : f[1] <= f[2]

\* However shares are minted and redeemed and whatever is swapped, along paths
\* that pass a pool twice too, and with FairFees, the product of the reserves
\* never falls behind the square of the supply: rounding is at the cost of who
\* calls.
ShareKeepsWorth ==
  [][\A i \in DOMAIN pools' :
       LET q == pools'[i]
       IN  IF i \notin DOMAIN pools \/ pools[i].supply = 0
           THEN q.supply * q.supply <= q.ra * q.rb
           ELSE LET p == pools[i]
                IN  q.ra * q.rb * p.supply * p.supply >= p.ra * p.rb * q.supply * q.supply]_vars

\* The amount recorded for rewards is the LP tokens the user has provided
\* (the comment of UserInfo.amount).
AmountIsProvided ==
  \A u \in Users : \A k \in DOMAIN own[u] : own[u][k].amount = own[u][k].value
=============================================================================
