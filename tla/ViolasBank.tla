---------------------------- MODULE ViolasBank ----------------------------
(***************************************************************************)
(* move/bank/bank.move, the lending contract, with move/oracle/oracle.move *)
(* that feeds its prices.  A Move transaction is atomic: an assert that    *)
(* fails aborts it and leaves no trace, so each public function is one     *)
(* action and its asserts are the action's guards.                         *)
(*                                                                         *)
(* The contract keeps its tokens in pairs: token 2m of market m and the    *)
(* bank token 2m+1 that a lock of it mints.  mk[m] holds both TokenInfos   *)
(* (only total_supply is ever used of the second one, here lock_supply),   *)
(* acc[a] the Tokens resource of address a.  Values a user's vectors do    *)
(* not reach yet (m >= cnt) are the ones extend_user_tokens will push.     *)
(* Time is counted in minutes, as every use of the clock in the code is.   *)
(***************************************************************************)
EXTENDS Integers, FiniteSetsExt

CONSTANTS
  Users,        \* addresses that publish Tokens, the contract aside
  Bank,         \* contract_address(), which is also the supervisor
  VlsAdmin,     \* the address set_incentive_rate insists on
  Coins, VLS,   \* currencies of the chain; VLS pays the incentives
  Nothing,      \* address 0x0 as an owner, or no currency
  MaxMarkets,   \* bound on create_token
  SCALE,        \* one, as a mantissa (2^32 in the code)
  U64,          \* largest number a u64 holds: additions beyond it abort
  Amounts, Prices, Factors, RateModels, Rates,  \* arguments of the calls
  Quoted,         \* the currencies the oracle's administrator has rates for
  Listings,       \* arguments of create_token and register_libra_token
  Endowment,      \* the Diem coins addresses own at the start
  MaxMinute,    \* bound on the clock
  MaxVersion,   \* bound on the number of transactions
  OracleMaxAge,   \* 60
  RefreshMinutes, \* 10
  RatePeriod,     \* 24*60
  RateMinAge,     \* 23*60
  RateDiv,        \* 2*24*60
  YearMinutes,    \* 365*24*60
  RedeemSlack     \* 1000000

ASSUME BankAssumption ==
  /\ Bank \notin Users /\ Nothing \notin Users \cup {Bank} \cup Coins
  /\ IsFiniteSet(Users) /\ VlsAdmin \in Users
  /\ VLS \in Coins /\ MaxMarkets \in Nat /\ SCALE \in Nat /\ SCALE >= 100
  /\ U64 \in Nat /\ MaxMinute \in Nat /\ MaxVersion \in Nat
  /\ Amounts \subseteq Nat /\ Prices \subseteq Nat /\ Factors \subseteq Nat
  /\ Rates \subseteq Nat /\ Quoted \subseteq Coins
  /\ RateModels \subseteq [base : Nat, mult : Nat, jump : Nat, kink : Nat]
  /\ Listings \subseteq [owner : Users \cup {Bank, Nothing}, coin : Coins \cup {Nothing},
                         oracle : Users \cup {Bank}, factor : Nat, model : RateModels]
  /\ Endowment \in [Users \cup {Bank} -> [Coins -> Nat]]
  /\ RateDiv \in Nat \ {0} /\ YearMinutes \in Nat \ {0}
  /\ {OracleMaxAge, RefreshMinutes, RatePeriod, RateMinAge, RedeemSlack} \subseteq Nat

Addr    == Users \cup {Bank}
Markets == 0 .. MaxMarkets - 1

VARIABLES
  mk,     \* TokenInfoStore.tokens, by market
  n,      \* how many markets there are: token_count() / 2
  store,  \* the rest of TokenInfoStore
  acc,    \* Tokens of each address
  coin,   \* DiemAccount balances, by address and currency
  orc,    \* Oracle::ExchangeRate of each currency
  now,    \* DiemTimestamp, in minutes
  version \* how many transactions the ledger has

vars == <<mk, n, store, acc, coin, orc, now, version>>

\* Every transaction that does not abort is the ledger's next one.
Txn == version < MaxVersion /\ version' = version + 1

----------------------------------------------------------------------------
(* Fixed point arithmetic. *)

new_mantissa(a, b) == (a * SCALE) \div b
mantissa_div(a, b) == (a * SCALE) \div b
mantissa_mul(a, b) == (a * b) \div SCALE
safe_sub(a, b)     == IF a < b THEN 0 ELSE a - b

One == new_mantissa(1, 1)

----------------------------------------------------------------------------
(* A transaction runs on a copy s of the storage, and writes it back.  *)

Here == [mk |-> mk, store |-> store, acc |-> acc, coin |-> coin]

Becomes(s) ==
  /\ Txn
  /\ mk' = s.mk /\ store' = s.store /\ acc' = s.acc /\ coin' = s.coin
  /\ UNCHANGED <<n, orc, now>>

NoTokens == [pub |-> FALSE, cnt |-> 0,
             val |-> [m \in Markets |-> 0], lock |-> [m \in Markets |-> 0],
             principal |-> [m \in Markets |-> 0],
             interest_index |-> [m \in Markets |-> One],
             supply_index |-> [m \in Markets |-> One],
             borrow_index |-> [m \in Markets |-> One]]

TokenInfo(owner, cur, oracle, factor, rm, t) ==
  [owner |-> owner, coin |-> cur, price_oracle |-> oracle,
   total_supply |-> 0, lock_supply |-> 0,
   total_reserves |-> 0, total_borrows |-> 0, borrow_index |-> One,
   price |-> 0, collateral_factor |-> factor,
   base_rate |-> rm.base \div YearMinutes,
   rate_multiplier |-> rm.mult \div YearMinutes,
   rate_jump_multiplier |-> rm.jump \div YearMinutes,
   rate_kink |-> rm.kink, last_minute |-> t,
   incentive_supply_index |-> One, incentive_supply_timestamp |-> t,
   incentive_speed |-> 0,
   incentive_borrow_index |-> One, incentive_borrow_timestamp |-> t,
   price_oracle_last_timestamp |-> 0]

Live == 0 .. n - 1    \* the markets that exist

----------------------------------------------------------------------------
(* require_published, require_enabled, require_price. *)

Published(a) == acc[Bank].pub /\ acc[a].pub
Enabled      == ~store.disabled
Priced(s, m) == s.mk[m].price # 0

\* Storage with another account, other markets or purses.
WithAcc(s, a, w)  == [s EXCEPT !.acc[a] = w]
WithMarkets(s, f) ==
  [s EXCEPT !.mk = [m \in Markets |-> IF m \in DOMAIN f THEN f[m] ELSE s.mk[m]]]
WithMk(s, m, ti)  == WithMarkets(s, [k \in {m} |-> ti])
WithCoin(s, c)    == [s EXCEPT !.coin = c]
WithStore(s, t)   == [s EXCEPT !.store = t]

Extended(w) == [w EXCEPT !.cnt = n]
extend_user_tokens(s, a) == WithAcc(s, a, Extended(s.acc[a]))

balance_of_index(s, m, a) == s.acc[a].lock[m]

borrow_balance_of_index(s, m, a) ==
  mantissa_div(mantissa_mul(s.acc[a].principal[m], s.mk[m].borrow_index),
               s.acc[a].interest_index[m])

\* deposit, withdraw_from, pay_from and transfer_from of token 2m.
deposit(w, m, x)       == [Extended(w) EXCEPT !.val[m] = @ + x]
withdraw_from(w, m, x) == [w EXCEPT !.val[m] = @ - x]
CanPay(s, m, payer, payee, x) ==
  payer # payee /\ s.acc[payer].val[m] >= x /\ s.acc[payee].val[m] + x <= U64
Pay(s, m, payer, payee, x) ==
  WithAcc(WithAcc(s, payer, withdraw_from(s.acc[payer], m, x)),
          payee, deposit(s.acc[payee], m, x))

\* DiemAccount::pay_from, with the payer's withdraw capability.
Moved(c, cur, payer, payee, x) ==
  LET paid == [c EXCEPT ![payer][cur] = @ - x] IN [paid EXCEPT ![payee][cur] = @ + x]
CoinPay(s, cur, payer, payee, x) == WithCoin(s, Moved(s.coin, cur, payer, payee, x))

\* exchange_rate subtracts without safe_sub and so aborts on a deficit.
Cash(s, m) == s.acc[Bank].val[m]
Solvent(s, m) == Cash(s, m) + s.mk[m].total_borrows >= s.mk[m].total_reserves
Rated(s, m) == s.mk[m].lock_supply = 0 \/ Solvent(s, m)
exchange_rate(s, m) ==
  LET ti == s.mk[m] IN
  IF ti.lock_supply = 0
    THEN new_mantissa(1, 100)
    ELSE new_mantissa(Cash(s, m) + ti.total_borrows - ti.total_reserves,
                      ti.lock_supply)

utilization(s, m) ==
  LET ti == s.mk[m] IN
  IF ti.total_borrows = 0 THEN 0
  ELSE new_mantissa(ti.total_borrows,
                    ti.total_borrows + safe_sub(Cash(s, m), ti.total_reserves))

borrow_rate(s, m) ==
  LET ti   == s.mk[m]
      util == utilization(s, m)
  IN  IF util <= ti.rate_kink
        THEN mantissa_mul(ti.rate_multiplier, util) + ti.base_rate
        ELSE mantissa_mul(ti.rate_jump_multiplier, util - ti.rate_kink)
             + mantissa_mul(ti.rate_multiplier, ti.rate_kink) + ti.base_rate

\* A variant: the divisor of the reserve factor is taken for the factor.
AccrueReservesTwentyfold(ti, rate) ==
  LET interest_accumulated == mantissa_mul(ti.total_borrows, rate)
  IN  [ti EXCEPT !.last_minute    = now,
                 !.total_borrows  = @ + interest_accumulated,
                 !.total_reserves = @ + 20 * interest_accumulated,
                 !.borrow_index   = @ + mantissa_mul(@, rate)]

Accrued(ti, rate) ==
  LET interest_accumulated == mantissa_mul(ti.total_borrows, rate)
  IN  [ti EXCEPT !.last_minute    = now,
                 !.total_borrows  = @ + interest_accumulated,
                 !.total_reserves =
                     @ + mantissa_mul(interest_accumulated, new_mantissa(1, 20)),
                 !.borrow_index   = @ + mantissa_mul(@, rate)]
accrue_interest(s, m) ==
  WithMk(s, m, Accrued(s.mk[m], borrow_rate(s, m) * safe_sub(now, s.mk[m].last_minute)))

----------------------------------------------------------------------------
(* Incentives in VLS. *)

update_incentive_supply_index(ti) ==
  LET delta_minutes == safe_sub(now, ti.incentive_supply_timestamp)
      ratio == IF ti.lock_supply = 0 THEN 0
               ELSE mantissa_div(ti.incentive_speed * delta_minutes, ti.lock_supply)
  IN  IF delta_minutes = 0 THEN ti
      ELSE [ti EXCEPT !.incentive_supply_index = @ + ratio,
                      !.incentive_supply_timestamp = now]

\* A variant: the index starts anew in every period.
RestartBorrowIndex(ti) ==
  LET delta_minutes == safe_sub(now, ti.incentive_borrow_timestamp)
      borrow_amount == mantissa_div(ti.total_borrows, ti.borrow_index)
      ratio == IF borrow_amount = 0 THEN 0
               ELSE mantissa_div(ti.incentive_speed * delta_minutes, borrow_amount)
  IN  IF delta_minutes = 0 THEN ti
      ELSE [ti EXCEPT !.incentive_borrow_index = One + ratio,
                      !.incentive_borrow_timestamp = now]

update_incentive_borrow_index(ti) ==
  LET delta_minutes == safe_sub(now, ti.incentive_borrow_timestamp)
      borrow_amount == mantissa_div(ti.total_borrows, ti.borrow_index)
      ratio == IF borrow_amount = 0 THEN 0
               ELSE mantissa_div(ti.incentive_speed * delta_minutes, borrow_amount)
  IN  IF delta_minutes = 0 THEN ti
      ELSE [ti EXCEPT !.incentive_borrow_index = @ + ratio,
                      !.incentive_borrow_timestamp = now]

UpdateSupplyIndex(s, m) == WithMk(s, m, update_incentive_supply_index(s.mk[m]))
UpdateBorrowIndex(s, m) == WithMk(s, m, update_incentive_borrow_index(s.mk[m]))

\* The loops over all markets touch one market at a time.
UpdateIndexes(s) ==
  WithMarkets(s, [m \in Live |->
    update_incentive_borrow_index(update_incentive_supply_index(s.mk[m]))])

utility(s, m) == mantissa_mul(s.mk[m].total_borrows, s.mk[m].price)

Share(rate, part, total) ==
  IF total = 0 THEN 0 ELSE mantissa_mul(rate, mantissa_div(part, total))

WithSpeeds(s, total_utility) ==
  WithMarkets(s, [m \in Live |->
    [s.mk[m] EXCEPT !.incentive_speed =
                      Share(s.store.incentive_rate, utility(s, m), total_utility)]])

SplitRate(s) == WithSpeeds(s, SumFunctionOnSet([m \in Live |-> utility(s, m)], Live))

refresh_incentive_speeds(s) == SplitRate(UpdateIndexes(s))

Refreshed(s) == WithStore(s, [s.store EXCEPT !.refresh_last_minute = now])
RefreshWhenDue(s) ==
  IF safe_sub(now, s.store.refresh_last_minute) > RefreshMinutes
    THEN Refreshed(refresh_incentive_speeds(s))
    ELSE s

AtRate(s, rate, t) ==
  WithStore(s, [s.store EXCEPT !.incentive_rate = rate, !.rate_last_minute = t])
ExpireRate(s) ==
  IF s.store.rate_last_minute > 0 /\ safe_sub(now, s.store.rate_last_minute) > RatePeriod
    THEN refresh_incentive_speeds(AtRate(s, 0, 0))
    ELSE s

check_for_incentive_speeds_refresh(s) == ExpireRate(RefreshWhenDue(s))

supply_incentive(s, m, a) ==
  mantissa_mul(balance_of_index(s, m, a),
               safe_sub(s.mk[m].incentive_supply_index, s.acc[a].supply_index[m]))

borrow_incentive(s, m, a) ==
  mantissa_mul(mantissa_div(borrow_balance_of_index(s, m, a), s.mk[m].borrow_index),
               safe_sub(s.mk[m].incentive_borrow_index, s.acc[a].borrow_index[m]))

\* What distribute_*_incentive pays: all of it, or nothing if the contract's
\* VLS do not exceed it.
Payable(s, x) == IF x > 0 /\ s.coin[Bank][VLS] > x THEN x ELSE 0

\* A variant: the borrow side's index is taken for the supply side's.
DistributeWrongIndex(s, m, a) ==
  WithAcc(CoinPay(s, VLS, Bank, a, Payable(s, supply_incentive(s, m, a))), a,
          [s.acc[a] EXCEPT !.supply_index[m] = s.mk[m].incentive_borrow_index])

distribute_supply_incentive(s, m, a) ==
  WithAcc(CoinPay(s, VLS, Bank, a, Payable(s, supply_incentive(s, m, a))), a,
          [s.acc[a] EXCEPT !.supply_index[m] = s.mk[m].incentive_supply_index])

distribute_borrow_incentive(s, m, a) ==
  WithAcc(CoinPay(s, VLS, Bank, a, Payable(s, borrow_incentive(s, m, a))), a,
          [s.acc[a] EXCEPT !.borrow_index[m] = s.mk[m].incentive_borrow_index])

----------------------------------------------------------------------------
bank_token_2_base(x, er, factor, price) ==
  mantissa_mul(mantissa_mul(mantissa_mul(x, er), factor), price)

\* account_liquidity: the other markets' interest is not accrued first, and
\* it aborts when the rate of any market does.
Collateral(s, a) ==
  SumFunctionOnSet([m \in Live |-> bank_token_2_base(balance_of_index(s, m, a),
                                     exchange_rate(s, m), s.mk[m].collateral_factor,
                                     s.mk[m].price)], Live)
Debt(s, a) ==
  SumFunctionOnSet([m \in Live |-> mantissa_mul(borrow_balance_of_index(s, m, a),
                                                s.mk[m].price)], Live)
AllRated(s) == \A m \in Live : Rated(s, m)

----------------------------------------------------------------------------
Init ==
  /\ mk = [m \in Markets |-> TokenInfo(Nothing, Nothing, Nothing, 0,
                               [base |-> 0, mult |-> 0, jump |-> 0, kink |-> 0], 0)]
  /\ n = 0
  /\ store = [disabled |-> FALSE, migrated |-> FALSE, incentive_rate |-> 0,
              refresh_last_minute |-> 0, rate_last_minute |-> 0]
  /\ acc = [a \in Addr |-> NoTokens]
  /\ coin = Endowment
  /\ orc = [c \in Coins |-> [value |-> 0, timestamp |-> 0]]
  /\ now = 1 /\ version = 0

Tick ==
  /\ now < MaxMinute /\ now' = now + 1
  /\ UNCHANGED <<mk, n, store, acc, coin, orc, version>>

\* Oracle::update_exchange_rate, by the oracle's administrator.
update_exchange_rate(c, p) ==
  /\ Txn
  /\ orc' = [orc EXCEPT ![c] = [value |-> p, timestamp |-> now]]
  /\ UNCHANGED <<mk, n, store, acc, coin, now>>

publish(a) ==
  /\ Txn /\ ~acc[a].pub /\ (a # Bank => acc[Bank].pub)
  /\ acc' = [acc EXCEPT ![a].pub = TRUE, ![a].cnt = IF a = Bank THEN 0 ELSE n]
  /\ store' = IF a = Bank THEN [store EXCEPT !.refresh_last_minute = now] ELSE store
  /\ UNCHANGED <<mk, n, coin, orc, now>>

\* create_token, called by the supervisor; register_libra_token calls it for
\* a currency, at most once for each.
create_token(l) ==
  /\ Txn /\ acc[Bank].pub /\ n < MaxMarkets
  /\ l.coin # Nothing => l.owner = Nothing /\ \A m \in Live : mk[m].coin # l.coin
  /\ mk' = [mk EXCEPT ![n] = TokenInfo(l.owner, l.coin, l.oracle, l.factor, l.model, now)]
  /\ n' = n + 1
  /\ acc' = [acc EXCEPT ![Bank].cnt = n + 1]
  /\ UNCHANGED <<store, coin, orc, now>>

\* Units of token 2m that come into being, and that cease to be.
Issue(s, m, a, x) ==
  WithMk(WithAcc(s, a, deposit(s.acc[a], m, x)), m,
         [s.mk[m] EXCEPT !.total_supply = @ + x])
Retire(s, m, a, x) ==
  WithMk(WithAcc(s, a, withdraw_from(s.acc[a], m, x)), m,
         [s.mk[m] EXCEPT !.total_supply = safe_sub(@, x)])

\* mint: the owner of token 2m mints it.
mint(a, m, payee, x) ==
  /\ Published(a) /\ acc[payee].pub
  /\ mk[m].owner = a
  /\ mk[m].total_supply + x <= U64 /\ acc[payee].val[m] + x <= U64
  /\ Becomes(Issue(extend_user_tokens(Here, a), m, payee, x))

transfer(a, m, payee, x) ==
  /\ Published(a) /\ acc[payee].pub
  /\ CanPay(Here, m, a, payee, x)
  /\ Becomes(Pay(extend_user_tokens(Here, a), m, a, payee, x))

\* enter_bank and exit_bank: Diem coins in and out of the contract's account,
\* which cannot enter itself: its withdraw capability is with the contract
\* from publish to disable.
enter_bank(a, m, x) ==
  /\ Published(a) /\ Enabled /\ x > 0 /\ mk[m].coin # Nothing
  /\ a # Bank
  /\ coin[a][mk[m].coin] >= x
  /\ mk[m].total_supply + x <= U64
  /\ Becomes(Issue(CoinPay(Here, mk[m].coin, a, Bank, x), m, a, x))

CanExit(a, m, x) ==
  /\ Published(a) /\ Enabled /\ x > 0 /\ mk[m].coin # Nothing
  /\ m < acc[a].cnt /\ acc[a].val[m] >= x
  /\ coin[Bank][mk[m].coin] >= x

\* A variant: the units withdrawn are not burnt.
ExitWithoutBurn(a, m, x) ==
  /\ CanExit(a, m, x)
  /\ Becomes(WithAcc(CoinPay(Here, mk[m].coin, Bank, a, x), a, withdraw_from(acc[a], m, x)))

exit_bank(a, m, x) ==
  /\ CanExit(a, m, x)
  /\ Becomes(Retire(CoinPay(Here, mk[m].coin, Bank, a, x), m, a, x))

\* update_price_from_oracle: a rate with a new timestamp is taken whatever its
\* age, one seen before only while it is younger than OracleMaxAge.
OracleUsable(m) ==
  /\ mk[m].coin # Nothing /\ orc[mk[m].coin].timestamp > 0
  /\ LET t == orc[mk[m].coin].timestamp
     IN  t # mk[m].price_oracle_last_timestamp \/ safe_sub(now, t) < OracleMaxAge
FromOracle(s, m) ==
  WithMk(s, m, [s.mk[m] EXCEPT !.price = orc[mk[m].coin].value,
                               !.price_oracle_last_timestamp = orc[mk[m].coin].timestamp])

update_price_from_oracle(a, m) ==
  /\ Published(a) /\ OracleUsable(m)
  /\ Becomes(FromOracle(Here, m))

\* update_price, update_price_index: by the market's price oracle.
update_price(a, m, p) ==
  /\ Published(a) /\ mk[m].price_oracle = a
  /\ Becomes(WithMk(Here, m, [mk[m] EXCEPT !.price = p]))

\* lock, redeem, borrow and repay_borrow take the oracle's price first; the
\* *_index functions they call are public too and use the stored price.
Entries(m) == {Here} \cup (IF OracleUsable(m) THEN {FromOracle(Here, m)} ELSE {})

\* What lock_index and redeem_index, or borrow_index and repay_borrow_index,
\* do before their own work: interest, then the sender's incentive.
SupplySide(s, a, m) ==
  distribute_supply_incentive(
    UpdateSupplyIndex(
      check_for_incentive_speeds_refresh(
        accrue_interest(extend_user_tokens(s, a), m)), m), m, a)
BorrowSide(s, a, m) ==
  distribute_borrow_incentive(
    UpdateBorrowIndex(
      check_for_incentive_speeds_refresh(
        accrue_interest(extend_user_tokens(s, a), m)), m), m, a)

Ready(s, a, m) == Published(a) /\ Priced(s, m) /\ Enabled

\* bank_mint of token 2m+1, and what redeem_index does with it.
bank_mint(s, m, a, tokens) ==
  WithMk(WithAcc(s, a, [s.acc[a] EXCEPT !.lock[m] = @ + tokens]), m,
         [s.mk[m] EXCEPT !.lock_supply = @ + tokens])
Burn(s, m, a, tokens) ==
  WithMk(WithAcc(s, a, [s.acc[a] EXCEPT !.lock[m] = @ - tokens]), m,
         [s.mk[m] EXCEPT !.lock_supply = safe_sub(@, tokens)])

\* s is the storage after SupplySide, er the exchange rate in it.
LockAt(s, er, a, m, x) ==
  /\ Rated(s, m) /\ er > 0
  /\ CanPay(s, m, a, Bank, x)
  /\ s.mk[m].lock_supply + mantissa_div(x, er) <= U64
  /\ Becomes(bank_mint(Pay(s, m, a, Bank, x), m, a, mantissa_div(x, er)))
LockIn(s, a, m, x) == LockAt(s, exchange_rate(s, m), a, m, x)
lock_index(s0, a, m, x) == Ready(s0, a, m) /\ LockIn(SupplySide(s0, a, m), a, m, x)

lock(a, m, x) == \E s0 \in Entries(m) : lock_index(s0, a, m, x)

RedeemTokens(s, er, a, m, token_amount, amount) ==
  /\ Collateral(s, a) + RedeemSlack
       >= Debt(s, a) + bank_token_2_base(token_amount, er,
                                         s.mk[m].collateral_factor, s.mk[m].price)
  /\ s.acc[a].lock[m] >= token_amount
  /\ CanPay(s, m, Bank, a, amount)
  /\ Becomes(Pay(Burn(s, m, a, token_amount), m, Bank, a, amount))
\* An amount of 0 redeems everything the sender has locked.
RedeemAt(s, er, a, m, x) ==
  /\ AllRated(s) /\ er > 0
  /\ \/ x > 0 /\ RedeemTokens(s, er, a, m, mantissa_div(x, er), x)
     \/ x = 0 /\ RedeemTokens(s, er, a, m, s.acc[a].lock[m],
                               mantissa_mul(s.acc[a].lock[m], er))
RedeemIn(s, a, m, x) == RedeemAt(s, exchange_rate(s, m), a, m, x)
redeem_index(s0, a, m, x) == Ready(s0, a, m) /\ RedeemIn(SupplySide(s0, a, m), a, m, x)

redeem(a, m, x) == \E s0 \in Entries(m) : redeem_index(s0, a, m, x)

\* The new BorrowInfo of an account, with the market's total_borrows.
Owes(s, m, a, principal, borrows) ==
  WithMk(WithAcc(s, a, [s.acc[a] EXCEPT !.principal[m] = principal,
                                        !.interest_index[m] = s.mk[m].borrow_index]), m,
         [s.mk[m] EXCEPT !.total_borrows = borrows])
Lend(s, a, m, x) ==
  Pay(Owes(s, m, a, borrow_balance_of_index(s, m, a) + x, s.mk[m].total_borrows + x),
      m, Bank, a, x)

\* A variant: account_liquidity is asked without the new loan.
BorrowUncounted(s, a, m, x) ==
  /\ AllRated(s)
  /\ Collateral(s, a) >= Debt(s, a)
  /\ CanPay(s, m, Bank, a, x)
  /\ Becomes(Lend(s, a, m, x))

BorrowIn(s, a, m, x) ==
  /\ AllRated(s)
  /\ Collateral(s, a) >= Debt(s, a) + mantissa_mul(x, s.mk[m].price)
  /\ CanPay(s, m, Bank, a, x)
  /\ s.mk[m].total_borrows + x <= U64
  /\ Becomes(Lend(s, a, m, x))
borrow_index(s0, a, m, x) == Ready(s0, a, m) /\ BorrowIn(BorrowSide(s0, a, m), a, m, x)

borrow(a, m, x) == \E s0 \in Entries(m) : borrow_index(s0, a, m, x)

\* repay_borrow_for: the payer may be a liquidator.
CanRepay(s, a, m, borrower, x) ==
  x > 0 /\ x <= borrow_balance_of_index(s, m, borrower) /\ CanPay(s, m, a, Bank, x)
repay_borrow_for(s, a, m, borrower, x) ==
  Pay(Owes(s, m, borrower, safe_sub(borrow_balance_of_index(s, m, borrower), x),
           safe_sub(s.mk[m].total_borrows, x)), m, a, Bank, x)

RepayIn(s, a, m, x) ==
  CanRepay(s, a, m, a, x) /\ Becomes(repay_borrow_for(s, a, m, a, x))
repay_borrow_index(s0, a, m, x) == Ready(s0, a, m) /\ RepayIn(BorrowSide(s0, a, m), a, m, x)

repay_borrow(a, m, x) == \E s0 \in Entries(m) : repay_borrow_index(s0, a, m, x)

\* The liquidator's bank tokens for a debt worth value, with a tenth on top.
WithBonus(value) == value + mantissa_mul(value, new_mantissa(1, 10))
\* A variant: the borrower keeps what the liquidator gets.
SeizeCopies(r, a, borrower, c, seized) ==
  /\ a # borrower /\ r.acc[borrower].lock[c] >= seized
  /\ Becomes(WithAcc(r, a, [r.acc[a] EXCEPT !.lock[c] = @ + seized]))

Seize(r, a, borrower, c, seized) ==
  /\ a # borrower /\ r.acc[borrower].lock[c] >= seized
  /\ Becomes(WithAcc(WithAcc(r, borrower, [r.acc[borrower] EXCEPT !.lock[c] = @ - seized]),
                     a, [r.acc[a] EXCEPT !.lock[c] = @ + seized]))
SeizeFor(r, a, borrower, c, base) ==
  /\ Rated(r, c) /\ exchange_rate(r, c) > 0
  /\ Seize(r, a, borrower, c,
           WithBonus(mantissa_div(mantissa_div(base, exchange_rate(r, c)), r.mk[c].price)))

LiquidateIn(s, a, m, borrower, x, c) ==
  /\ AllRated(s) /\ Collateral(s, borrower) < Debt(s, borrower)
  /\ CanRepay(s, a, m, borrower, x)
  /\ mantissa_mul(x, s.mk[m].price) <= safe_sub(Debt(s, borrower), Collateral(s, borrower))
  /\ SeizeFor(repay_borrow_for(s, a, m, borrower, x), a, borrower, c,
              mantissa_mul(x, s.mk[m].price))

\* liquidate_borrow_index: only the interest of the repaid market is accrued,
\* and nobody's incentive is settled before the bank tokens change hands.
liquidate_borrow_index(s0, a, m, borrower, x, c) ==
  /\ Ready(s0, a, m) /\ Priced(s0, c) /\ acc[borrower].pub
  /\ LiquidateIn(accrue_interest(extend_user_tokens(extend_user_tokens(s0, a), borrower), m),
                 a, m, borrower, x, c)

liquidate_borrow(a, m, borrower, x, c) ==
  \/ liquidate_borrow_index(Here, a, m, borrower, x, c)
  \/ /\ OracleUsable(m) /\ OracleUsable(c)
     /\ liquidate_borrow_index(FromOracle(FromOracle(Here, m), c), a, m, borrower, x, c)

----------------------------------------------------------------------------
\* borrow_balance<CoinType>: a query that accrues interest.
borrow_balance(a, m) ==
  /\ Published(a) /\ m < acc[a].cnt /\ mk[m].coin # Nothing
  /\ Becomes(accrue_interest(Here, m))

\* claim_incentive settles every market in turn.  It does not extend the
\* sender's vectors, and after disable a payment aborts for want of the
\* withdraw capability.
SettleMarket(s, m, a) ==
  distribute_borrow_incentive(
    UpdateBorrowIndex(
      distribute_supply_incentive(UpdateSupplyIndex(s, m), m, a), m), m, a)
\* The storage after the first k markets.
Settled(a) ==
  LET settled[k \in 0 .. n] ==
        IF k = 0 THEN Here ELSE SettleMarket(settled[k - 1], k - 1, a)
  IN  settled[n]
\* A variant: disable leaves the withdraw capability in place.
ClaimStillPays(s) == Becomes(s)

ClaimIn(s) == (store.disabled => s.coin = coin) /\ Becomes(s)
claim_incentive(a) ==
  /\ Published(a) /\ acc[a].cnt = n
  /\ ClaimIn(Settled(a))

SetRate(s, rate) ==
  refresh_incentive_speeds(AtRate(s, rate \div RateDiv, now))

\* set_incentive_rate: not again within RateMinAge, and paid for in VLS, of
\* which DiemAccount refuses to pay nothing.
SetRateIn(s, rate) ==
  /\ s.store.rate_last_minute > 0 => safe_sub(now, s.store.rate_last_minute) > RateMinAge
  /\ rate > 0 /\ coin[VlsAdmin][VLS] >= rate
  /\ Becomes(SetRate(CoinPay(s, VLS, VlsAdmin, Bank, rate), rate))
set_incentive_rate(rate) ==
  Published(VlsAdmin) /\ SetRateIn(check_for_incentive_speeds_refresh(Here), rate)

\* set_incentive_rate2: the supervisor sets a rate without paying for it.
set_incentive_rate2(rate) == acc[Bank].pub /\ Becomes(SetRate(Here, rate))

update_collateral_factor(m, f) ==
  acc[Bank].pub /\ Becomes(WithMk(Here, m, [mk[m] EXCEPT !.collateral_factor = f]))

update_rate_model(m, rm) ==
  /\ acc[Bank].pub
  /\ Becomes(WithMk(Here, m, [mk[m] EXCEPT !.base_rate = rm.base \div YearMinutes,
                                          !.rate_multiplier = rm.mult \div YearMinutes,
                                          !.rate_jump_multiplier = rm.jump \div YearMinutes,
                                          !.rate_kink = rm.kink]))

\* disable hands the withdraw capability back to the contract's account.
disable ==
  acc[Bank].pub /\ Becomes(WithStore(Here, [store EXCEPT !.disabled = TRUE]))

migrate_data ==
  acc[Bank].pub /\ ~store.migrated /\ Becomes(WithStore(Here, [store EXCEPT !.migrated = TRUE]))

----------------------------------------------------------------------------
Supervisor ==
  \/ \E l \in Listings : create_token(l)
  \/ \E m \in Live : \/ \E f \in Factors : update_collateral_factor(m, f)
                     \/ \E rm \in RateModels : update_rate_model(m, rm)
  \/ \E r \in Rates : set_incentive_rate2(r)
  \/ disable
  \/ migrate_data

Ledger(a, m, x) ==
  \/ \E payee \in Addr : mint(a, m, payee, x) \/ transfer(a, m, payee, x)
  \/ enter_bank(a, m, x) \/ exit_bank(a, m, x)

Lending(a, m, x) ==
  \/ lock(a, m, x) \/ redeem(a, m, x) \/ borrow(a, m, x) \/ repay_borrow(a, m, x)
  \/ \E b \in Addr, c \in Live : liquidate_borrow(a, m, b, x, c)

\* What any published address may call, the contract's own account included
\* (Txn's bound stands here too, for TLC to meet it before the arithmetic).
Calls(a) ==
  /\ version < MaxVersion
  /\ \/ claim_incentive(a)
     \/ \E m \in Live :
          \/ update_price_from_oracle(a, m)
          \/ borrow_balance(a, m)
          \/ \E p \in Prices : update_price(a, m, p)
          \/ \E x \in Amounts : Ledger(a, m, x) \/ Lending(a, m, x)

Next ==
  \/ Tick
  \/ Supervisor
  \/ \E c \in Quoted, p \in Prices : update_exchange_rate(c, p)
  \/ \E r \in Rates : set_incentive_rate(r)
  \/ \E a \in Addr : publish(a) \/ Calls(a)

Spec == Init /\ [][Next]_vars

----------------------------------------------------------------------------
\* The values of the resources.  Every division by an index is defined.
Pos == Nat \ {0}
TokenInfos ==
  [owner : Addr \cup {Nothing}, coin : Coins \cup {Nothing}, price_oracle : Addr \cup {Nothing},
   total_supply : Nat, lock_supply : Nat, total_reserves : Nat, total_borrows : Nat,
   borrow_index : Pos, price : Nat, collateral_factor : Nat, base_rate : Nat,
   rate_multiplier : Nat, rate_jump_multiplier : Nat, rate_kink : Nat, last_minute : Nat,
   incentive_supply_index : Pos, incentive_supply_timestamp : Nat, incentive_speed : Nat,
   incentive_borrow_index : Pos, incentive_borrow_timestamp : Nat,
   price_oracle_last_timestamp : Nat]
Accounts ==
  [pub : BOOLEAN, cnt : Nat, val : [Markets -> Nat], lock : [Markets -> Nat],
   principal : [Markets -> Nat], interest_index : [Markets -> Pos],
   supply_index : [Markets -> Pos], borrow_index : [Markets -> Pos]]
Stores ==
  [disabled : BOOLEAN, migrated : BOOLEAN, incentive_rate : Nat,
   refresh_last_minute : Nat, rate_last_minute : Nat]
Purses  == [Addr -> [Coins -> Nat]]
Storage == [mk : [Markets -> TokenInfos], store : Stores, acc : [Addr -> Accounts], coin : Purses]

\* Type invariant: no balance, supply, debt or purse ever becomes negative,
\* although no subtraction of a balance but exchange_rate's is unguarded.
TypeOK ==
  /\ n \in 0 .. MaxMarkets /\ now \in Nat /\ version \in Nat
  /\ Here \in Storage
  /\ orc \in [Coins -> [value : Nat, timestamp : Nat]]

\* Every unit of token 2m is in somebody's Tokens, the contract's cash
\* included: mint, enter_bank and exit_bank change total_supply by what they
\* deposit or withdraw, everything else only moves it.
TokenConservation ==
  \A m \in Markets : SumFunctionOnSet([a \in Addr |-> acc[a].val[m]], Addr) = mk[m].total_supply

\* Bank tokens 2m+1 exist exactly for what lock minted and redeem has not
\* burnt, wherever a liquidation moved them (safe_sub hides no deficit).
LockConservation ==
  \A m \in Markets : SumFunctionOnSet([a \in Addr |-> acc[a].lock[m]], Addr) = mk[m].lock_supply

\* A currency registered with the bank is redeemable: the contract's Diem
\* account holds at least the units enter_bank issued for it.  VLS is
\* excepted: incentives are paid out of the same account.
BackedByCoins ==
  \A m \in Live :
    mk[m].coin \notin {Nothing, VLS} => coin[Bank][mk[m].coin] >= mk[m].total_supply

\* No borrower's interest_index and no account's incentive index is ahead of
\* the market's or below one: the divisions by interest_index are defined and
\* the safe_subs of distribute_*_incentive never cut off a negative amount.
IndexesSane ==
  \A a \in Addr, m \in Markets :
    /\ One <= acc[a].interest_index[m] /\ acc[a].interest_index[m] <= mk[m].borrow_index
    /\ One <= acc[a].supply_index[m] /\ acc[a].supply_index[m] <= mk[m].incentive_supply_index
    /\ One <= acc[a].borrow_index[m] /\ acc[a].borrow_index[m] <= mk[m].incentive_borrow_index

\* The contract's account signs a transaction that spends a market's cash:
\* nothing in transfer or exit_bank tells it from any other published address.
BankSpends ==
  \E m \in Live, x \in Amounts :
    \/ \E payee \in Addr : transfer(Bank, m, payee, x)
    \/ exit_bank(Bank, m, x)

\* The subtraction of exchange_rate does not come to underflow: as long as the
\* cash and the loans of a market cover its reserves, no step (interest rounded
\* and part of it reserved, tokens redeemed, loans repaid or seized for) leaves
\* bank tokens behind which the rest does not pay for.  Only the redemption of
\* the last bank tokens may take more than there is, a bank token's worth, and
\* only the contract's account, if it signs a transfer or an exit_bank of its
\* own, can make a rate underflow.
RateStaysDefined ==
  [][(\A m \in Live : Solvent(Here, m) => Rated(Here, m)') \/ BankSpends]_vars

\* A step in which account a draws a loan leaves a covered at the prices and
\* rates of the new state (to within the rounding of one product).
DrawsLoan(a, m) ==
  /\ acc'[a].val[m] > acc[a].val[m]
  /\ acc'[a].principal[m] > acc[a].principal[m]
BorrowStaysCovered ==
  [][\A a \in Users, m \in Live :
       DrawsLoan(a, m) => (Collateral(Here, a) + 1 >= Debt(Here, a))']_vars

\* After disable no call of the contract changes anybody's locked tokens or
\* debts or takes a coin out of its account: claim_incentive is still open, but
\* cannot pay.
DisabledFreezes ==
  [][store.disabled =>
       /\ store'.disabled
       /\ \A a \in Addr : acc'[a].lock = acc[a].lock /\ acc'[a].principal = acc[a].principal
       /\ \A c \in Coins : coin'[Bank][c] >= coin[Bank][c]]_vars

\* Interest only grows: no step lowers a market's borrow_index or the
\* incentive indexes accounts are measured against.
IndexesMonotone ==
  [][\A m \in Live :
       /\ mk'[m].borrow_index >= mk[m].borrow_index
       /\ mk'[m].incentive_supply_index >= mk[m].incentive_supply_index
       /\ mk'[m].incentive_borrow_index >= mk[m].incentive_borrow_index]_vars
============================================================================
