# TLA+ models of the Violas client SDK and its contracts

This directory holds TLA+ models of the parts of the repository that carry its
own logic: the C++ client with its coroutines, wallet, serialisers and swap path,
the meta42 shell, and the Move contracts of the bank, the exchange, the
non-fungible tokens, their store and meta42. The models are checked with TLC on
small instances; for the client, the coroutines, the wallet, meta42, the bank, the
tokens and their store, the main properties are proved with TLAPS for every value
of the constants. `PROJECT.json` is the index:
components, runs, mutants, the map from definitions to source lines, findings,
hazards and theorems.

## 1. Inventory

| Component | State | Operations | What is hard |
|---|---|---|---|
| `Client2` (`cpp/sdk/src/violas_client2.cpp`) | wallet, `m_accounts` (a view with a sequence number per account) | `create_next_account`, `submit_*`, `await_submit_*`, `sign_multi_agent_script`, `sign_and_submit_multi_agent_signed_txn`, `check_txn_vm_status` and its coroutine | a number read before an await and bumped after it, lost replies, timeouts, coroutines beside blocking calls, other programs on the same account |
| JSON-RPC client (`json_rpc.cpp`) | none | `submit`, `await_submit2`, `get_account_transaction`, queries | errors thrown in a continuation |
| Coroutine tasks (`co_helper.hpp`) | promise, future, handle of the awaiting coroutine | `co_await`, `get` | the hand-over between threads, errors across them |
| Wallet (`wallet.cpp`) and its file | entropy, seed, number of keys; the mnemonic file | start, generate, write, read, `create_next_account` | two processes, a kill between two steps, bit packing, uninitialized memory |
| BCS (`serde.hpp`, `binary.hpp`, `bcs.hpp`, `bcs_serde.hpp`) and the Diem types (`diem_types.hpp`) | none | write, read | two implementations of one format, canonical form, limits |
| Swap path (`violas_sdk.cpp`) | none | `find_swap_path` | a greedy search over amounts |
| meta42 (`move/meta42`, `cpp/meta42-cli`) | `GlobalInfo`, `AccountInfo`, the table `shared_token_events` | initialize, accept, mint, share; the history query | overlapping queries, failures in the middle, a recursive SQL query |
| Bank (`move/bank/bank.move`) | `TokenInfoStore` (markets, rates, incentive), `Tokens` of each user, Diem balances | publish, list, mint, transfer, enter, exit, lock, redeem, borrow, repay, liquidate, price, rate and incentive updates, claim, disable, migrate | rounding, stale interest, order of calls, limits of u64 |
| Oracle (`move/oracle/oracle.move`) | a rate with a time stamp per currency | `update_exchange_rate`, `get_exchange_rate` | stale prices |
| Exchange (`move/exchange/exchange.move`) | reserves, shares, reward pools | initialize, currencies, fees, add and remove liquidity, swap, rewards | rounding, an early return, one account for everything |
| `NonFungibleToken` | configuration (amount, total, owners, events), accounts, tokens | register, accept, make_account, mint, burn, transfer, pay_from, lending of the withdraw capability | two records of who owns a token |
| `NftStore2` | order list, customers, the store's capability | initialize, register, accept, make, revoke and trade an order | escrow, two payments and a move in one trade, rounding of the fee |
| `Map`, `Set` | sorted vectors | find, insert, update | boundaries of a binary search on unsigned integers |
| Command line tools, bindings, Rust client, oracle daemon | little | commands | start coroutines and blocking calls on one `Client2` |

How they interact: the tools and bindings call `Client2`; `Client2` takes its keys
from the wallet, serialises transactions with BCS and calls the JSON-RPC client,
whose requests the coroutine tasks await and whose validator runs scripts that
call the Move contracts. `NftStore2` calls `NonFungibleToken`, whose map of owners
is a `Map`; the bank reads the oracle; the swap path is computed from the pools of
the exchange. A Move transaction is atomic and an abort leaves no trace, so
concurrency between contracts is the order of transactions; real concurrency,
loss, crashes and time are in the client.

What makes each part correct:

* client: a verdict is about the transaction the caller sent; the cached number
  never runs past what the chain holds; a blocking call comes back;
* coroutines: no wake-up is lost other than in the two ways named in section 2, no
  frame runs twice, no error disappears;
* wallet: a file that a client wrote opens again, a mnemonic of words of the list is
  exported as it was typed;
* serialisation: what is written is read back, bytes have one reading, the two
  implementations agree;
* swap path: the path exists and no other gives more;
* meta42: every token can be traced to a mint, the table is a beginning of the
  chain's events, the recursive query ends;
* bank: units and locked tokens are neither lost nor invented, registered coins
  stay redeemable, indexes only grow and never fall behind a user's, a new loan
  is covered, a disabled bank moves nothing;
* exchange: reserves and rewards are backed, totals count the entries, rounding
  is never at the cost of the other holders;
* tokens and store: one holder per token, which `owners` names; the amount counts
  the tokens; an order always has its token; a seller can always get it back; an
  order ends by a return or by a sale for the number of the price less the fee, in the
  currency of the buyer;
* map and set: what is found is what a linear scan finds.

`PROJECT.json` lists the hazards with the properties that cover them.

## 2. Modules

| Module | Models | Extends |
|---|---|---|
| `Client2` | the client's sequence numbers, calls, and the validator as far as they see it | |
| `CoTask` | the life of coroutines over several threads | |
| `Wallet` | the wallet, its file and several processes | |
| `Bcs` | the generated serialiser: types as terms, writer, reader | |
| `DiemTypes` | the layout of the types of `diem_types.hpp` | `Bcs` |
| `BcsSerde` | the SDK's own serialiser of the same format | `Bcs` |
| `BcsWire` | a value between a writer and a reader, with damage | `DiemTypes`, `BcsSerde` |
| `SwapPath` | the search for a chain of pools | |
| `Meta42` | the contract, and the shell's table of its events | |
| `ViolasBank` | bank and oracle | |
| `Exchange` | pools, swaps and rewards | |
| `NonFungibleToken` | one type of NFT | |
| `NftStore2` | the store on top of the tokens | `NonFungibleToken` |
| `TokenLedger` | what token contract and store promise together (abstract) | |
| `SortedMap` | `Map.move`, `Set.move` | |
| `MC*` | instances for TLC; `MCAlgorithms` joins `SortedMap`, `BcsWire`, `SwapPath` | |
| `Client2Proofs` | theorems | `Client2` |
| `CoTaskProofs` | theorems | `CoTask` |
| `WalletProofs` | theorems | `Wallet` |
| `Meta42Proofs` | theorems | `Meta42` |
| `NftProofs` | theorems, the refinement of `TokenLedger` and the sorted map among them | `NftStore2`, `SortedMap`, `SumTheorems` |
| `BankProofs` | theorems | `ViolasBank`, `SumTheorems` |
| `ExchangeProofs` | theorems | `Exchange`, `SumTheorems` |
| `SumTheorems` | lemmas about sums over finite sets | |

An operator whose comment starts with "A variant" is a plausible slip in the
definition below it (`PROJECT.json`, "mutants"); no specification uses it. It
shows that the property named with it can fail.

Each module states a type invariant. That of `Client2` is checked and proved,
those of the coroutines, meta42, the bank, the store and the exchange are proved, alone or as a
part of an inductive invariant. The others describe the state to the reader; they
hold in the instances below and are in no run of their own.

### Client2

`wallet`, `cached` and `cache` are `m_wallet` and `m_accounts`. A *call* is one
execution of a submission and of the check that follows; `pc` says where it
stands and `acct`, `sn` what it signed:

    idle -Sign-> sent | signed        make_signed_txn, sign_multi_agent_script
    signed -CoSign-> sent             sign_and_submit_multi_agent_signed_txn
    sent -Accept|Refuse-> accepted | refused       the reply, or its loss
    accepted -Resume-> polling        after submit: bump, unless multi-agent
    accepted -Overtaken-> overtaken   a coroutine that the reply misses
    refused -Throw-> failed | hung    the exception
    polling -Poll-> polling | ok | failed | hung   check_txn_vm_status

`Sign` covers the cached account, the account the wallet has and the cache has
not (the view is fetched and cached) and the failure of both. Synchronous calls
share a thread (`ThreadFree`); coroutines interleave freely; a multi-agent
transaction does not hold the thread while its co-signer is awaited.

What a reply does to a coroutine is modelled as the code has it, case by case. An
error reply to `await_submit2` is thrown inside the http continuation, as is a lost
answer or a status other than 200 to any awaited request: the coroutine stays
suspended ("hung"). An error reply to an awaited poll is thrown by the coroutine
after it was resumed, so the call fails. Any reply may complete the request between
`await_ready` and `await_suspend` and so miss the coroutine ("overtaken" after the
submission, "hung" in a poll); `CoTask` has the steps of that.

`m_accounts[account_index]` in the multi-agent co-signing
(`violas_client2.cpp:777`, `797`) inserts an entry when there is none, which happens
only for Root or DD when a mint key was given and the chain has no such account. The
inserted number 0 is the chain's, so the model leaves the insertion out.

The validator is external: one transaction per account and number (`slot`), the
number it will execute next (`next`), the VM status. It admits a number that is
neither used up nor taken (`Admissible`), commits in order, may forget pending
transactions (`MayDrop`), and may be sent transactions by other programs
(`Others`). `LossyNet` adds the loss of requests and replies.

### CoTask

A frame is one call of a coroutine; `Children` is the tree of calls, whose leaves
are http requests. `stack[t]` is what thread t is in the middle of. The steps are
those of the compiler's protocol with `co_helper.hpp`: the call (the coroutine
starts at once), `await_ready`, `await_suspend` (which stores the handle in
`_prev`), the return or the exception, `final_suspend` (which resumes the awaiting
frame from within) and the destruction of the frame. `await_ready` and
`await_suspend` are separate steps of the awaiting thread, so that a worker may
complete the child in between: the handle then goes into a frame that is gone
(`overtaken`), which is undefined behaviour in the code and ends the chain in the
model. `hung` is a continuation of `json_rpc.cpp` that threw. `WakeUpPending` and
`ChainReturns` say that these two are the only ways to stay suspended.

### Wallet

`file` is the mnemonic file, `proc[p]` a process between its start and its end with
the number of keys it derived. The packing of entropy and checksum into words is
done bit by bit, with the widths as parameters. A token of the file is a word or a
string that sorts between two words, since `lower_bound` takes the latter for the
next word. `Make` and `Write` are separate, because `ofstream` truncates the file
before the words are written; `End` kills a process anywhere. The hash is a
constant function; PBKDF2 stands for itself, no property is about keys.

### Bcs, DiemTypes, BcsSerde, BcsWire

A C++ type is a term (`Struct`, `Enum`, `Vec`, `MapOf`, `Ptr` ...) and one
recursive operator per direction stands for the templates instantiated along it.
`DiemTypes` gives the order of fields and cases of every type of the generated
header. `BcsWire` writes a value, may change, cut or continue the bytes, and the
properties read them with both readers. `BcsSerde` checks nothing when it reads, so
it is only asked to read what was written.

### SwapPath

`Begin`, `relax`, `Pop`, `Walk` are the queue, the relaxation and the walk back of
`find_swap_path`; products wrap at `Wrap`. `MostValue` compares with an enumeration
of all routes. It excepts inputs for which some pool was too small (the code skips
the pool for the larger amount, and may thereby miss a path) and products that
wrap; the walk must be a chain of real pools in every case. The code reads the second
amount of a pool as a `double` (`violas_sdk.cpp:1353`), which is exact below 2^53;
the model has the amounts as they are.

### Meta42

The contract's operations, and for each query the steps of
`query_shared_token_events_history`: count the rows, ask for the number of events,
fetch the missing ones, insert them one at a time, show. The shell does not wait
for a query, so several may fill the table (`overlapped`); requests and inserts
fail; `Quit` ends the shell anywhere and the table stays.

### ViolasBank

Token 2m and bank token 2m+1 of the code are market m. `mk[m]` is the pair of
`TokenInfo`s, `acc[a]` the `Tokens` resource, `store` the rest of
`TokenInfoStore`, `coin` the Diem balances. Each public function is one action:
its asserts and the aborts of its arithmetic are guards, its calls
(`accrue_interest`, `update_incentive_*_index`, `distribute_*_incentive`,
`check_for_incentive_speeds_refresh`) are operators from state records to state
records composed in the order of the code. Amounts are integers with the
truncating division of the code; a mantissa's one is `SCALE` (2^32 in the code),
the largest u64 is `U64`.

The account the contract is published under is an address like the others: nothing in
`transfer`, `exit_bank` or the lending calls tells it from a user, and its tokens are
the markets' cash. So `Calls` is for every address. By the code's own conditions `enter_bank` cannot succeed
for it, since the contract holds its withdraw capability, nor can a transfer to itself
or a lending call, which is a payment between the sender and the contract: `pay_from`
refuses a payer who is the payee.

### Exchange

The vectors `reserves` and `pool_infos` grow together, and so do a user's `tokens`
and `pool_user_infos`; each pair is one sequence (`pools`, `own[u]`). A transaction
is a chain of operators on a record of the resources with a flag `ok`, which an
assert, a subtraction below zero, a division by zero or a payment beyond the
balance clears; an action commits the record only if it is still set. `add_liquidity`,
`remove_liquidity` and `withdraw_mine_reward` end with `update_pool` and
`update_user_reward_info`, the early return for a short reward balance included.
`set_fee_factor` takes any two numbers, so that `get_amount_out` may divide by zero;
`FairFees` says that a fee is never negative, which the code leaves to its caller.
The loops over a path and over a user's pools are recursive functions (`Along`,
`Claimed`).

The inputs are narrower than the code in four places, none of which the properties
depend on: a reward period starts now or later (`exchange.move:712-724` also takes a
start in the past); `set_pool_alloc_point` is not called by the contract's own
account; the payee of a swap is a user; nobody gives coins to the contract's account
outside of a call.

### NonFungibleToken, NftStore2 and TokenLedger

A token id is the hash of the token and an order id the hash of the order, so
tokens and orders are their own ids. Vectors that are only searched and
swap-removed are bags. `cap[a]` says whether a's withdraw capability is in its
account or was moved to the store for good. `NftStore2` composes by extending:
its actions call `transfer`, `pay_from` and `accept` of the token contract and
interleave with the token contract's own actions.

`TokenLedger` is the promise to a user: a token is unborn, free, offered at a
price or burnt, and only certain turns follow each other. `ImplementsLedger` in
`NftStore2` maps accounts, owners and orders to that one status; every step of the
composition is one turn of one token or no turn.

### SortedMap

The vectors as sequences, the binary search as a recursive function of its window,
beside a reference map and a reference set.

## 3. Runs

| Run | Instance | Shows |
|---|---|---|
| `client_mixed` | one account, two coroutines, a blocking and a multi-agent call, other programs, lossy network | `TypeOK`, `OwnTxnReported`, `NoSkippedNumber`, `BlockingCallReturns` |
| `client_lag` | two accounts, one call of each kind, a network without loss, a forgetting validator, replies that miss a coroutine | `LagIsAccounted`, `CoroutineEnds` |
| `client_same_number` | two coroutines, forgetting validator | `OwnTxnReported` is violated |
| `cotask` | a submission and a check with two polls under one root, two workers, errors | `RunsOnce`, `WakeUpPending`, `ErrorsPropagate`, `ChainReturns` |
| `wallet` | two processes, two bytes and a checksum of two bits each in two words of three, typed files | `OwnFileOpens`, `ExportsWhatWasRead` |
| `meta42` | two members, two tokens, two queries, three shares | `Provenance`, `HistoryEnds`, `TableIsPrefix` |
| `algorithms` | five keys; values of every Diem type; every set of pools between four coins | `SearchIsFaithful`, `RoundTrip`, `Canonical`, `SerialisersAgree`, `MostValue` |
| `bank_market` | three starts: the empty chain; one market with a loan and incentives; a loan secured in another market while prices move, up to its liquidation | `TokenConservation`, `LockConservation`, `BackedByCoins`, `IndexesSane`, `RateStaysDefined`, `DisabledFreezes`, `IndexesMonotone`, `BorrowStaysCovered` |
| `nft_store` | empty chain, four addresses, two tokens, two currencies, prices 1 and 4 | `OwnerHolds`, `AmountCounts`, `BurnIsFinal`, `OrdersBacked`, `SellerCanRevoke`, `OrderEndsWell`, `ImplementsLedger` |
| `nft_currency` | empty chain, one token, a buyer with coins of one of two currencies | `PaidInItsCurrency` is violated |
| `exchange` | empty chain, and two open pools with two holders and two reward periods | `SharesCounted`, `Backed`, `ShareKeepsWorth` |
| `exchange_shortage` | the same | `AmountIsProvided` is violated |

### Bounds

* `MaxSn` = 2 or 3: up to four calls, so that a number can be reused, skipped or
  taken by another program. `MaxPolls` = 2 (50 in the code): one poll that finds
  nothing and one that times out.
* `CoTask`: a chain three deep with three requests has every place of a hand-over:
  a first and a later child, a child that completes at once, on the same thread,
  and on another one.
* Wallet: the widths keep what matters, that words and bytes overlap: a word
  straddles bytes and the middle byte two words. Two processes and two
  keys each are enough for every race on the file.
* Meta42: three shares make a chain of two and a token that could come back.
* Serialisation: every case of every enumeration and every field away from its
  base value once; maps with a key that is a prefix of another; nesting around
  `MaxDepth`; lengths on both sides of every new digit. Addresses have two bytes.
* Swap path: every set of pools between four coins, each in two shapes, and a pool
  with an empty side; `Wrap` is 64, so that some products wrap.
* Bank: `MaxVersion` bounds the number of transactions, `MaxMinute` the clock;
  `SCALE` = 100 keeps every rounding visible; a rate of ten per cent a minute
  makes interest appear within the bounds. Besides the empty chain `bank_market`
  starts in two states that set-up leads to (`Open` in `MCViolasBank`), with the
  version and the minute they are reached at, so that six transactions are left in
  the first case, four in the second (a repayment and two transfers of the contract's
  account lose a rate) and three in the third (a new price and a liquidation). The
  contract's account makes every call too. The liquidation is by prices set with
  `update_price`: in the run the borrowed market has no currency, so the
  branch of `liquidate_borrow` that asks the oracle does not get through; the proofs
  cover it. `U64` is never reached.
  `RedeemSlack` is 0: the code's 1000000 units would hide every shortfall at this
  scale. `Quoted` are the currencies the oracle has rates for.
* Exchange: `MaxVersion` = 4 transactions after the two pools are open (`Opened`),
  or from the empty chain; paths of one and two pools and one that passes a pool three times;
  two periods, the second smaller than what is still due from the first.
  `MULT_FACTOR` is 100 (10^9 in the code).
* NFT: two tokens, so that orders for both are open at once and each can be sold,
  returned, burnt or listed again. At price 1 the fee of one half rounds to zero,
  at price 4 it does not; the buyer has one coin more than the price in one
  currency and exactly the price in the other, because the code compares with `>`.
* Map: five keys give every insertion order of vectors of up to five nodes: all
  the shapes of the search of up to three probes.

Deadlock is off where the instance may stop: calls and coroutines end, the ledger
of an instance is finite (`MaxVersion`), an algorithm comes to its result.

### Fairness

`FairSpec` of `Client2`: weak fairness of `Resume`, `Throw` and `Poll` together
for each call, with `Overtaken` (a thread that is not blocked runs, and a reply that
arrived is handed to a continuation) and of the reply (the http library answers each
request with a reply or an error). It is not assumed that the continuation resumes
the coroutine: the step that misses it is one of the steps the fairness is of, and
`CoroutineEnds` allows for it. A blocking call has no such step. Nothing is assumed of
the validator: a transaction may never be committed, and the calls come back by
counting their polls.

`FairSpec` of `CoTask`: weak fairness of each thread that is in a frame, and of
the answer to each request. Nothing is assumed of the order in which threads run.

## 4. Findings

* `client_same_number`: the header says that address and sequence number
  indicate a transaction sent by an account
  (`cpp/sdk/include/violas_client2.hpp:204`). Two coroutines can sign with the
  same number; when the validator forgets the first transaction and admits the
  second, both checks return normally for the second. As long as the validator
  forgets nothing it cannot happen: theorem `OwnTxn`.
* `exchange_shortage`: `move/exchange/exchange.move:62` says that `amount` is "How
  many LP tokens the user has provided." `set_next_rewards` overwrites the reward
  balance; if the new period is smaller than what is still due, a claim finds the
  balance short, and `update_user_reward_info` empties it and returns before
  `amount`, `lp_supply` and `reward_debt` are updated, while the shares change.
* `nft_currency`: an order names a currency
  (`cpp/nft-store-2/README.md:12`, "store-make-order 2 token_id price currency(XUS)"),
  and the events of a sale report it as `currency: *&order.currency_code`
  (`NftStore2.move:328`, `346`, `360`). `trade_order` (lines 277-298) pays the price
  and the fee in the type argument of its caller and compares it with nothing, so the
  seller may get the same number of units of another currency. What does hold,
  `OrderEndsWell`, is therefore about the number and not the currency.

Observations made while modelling, which the models have and no run is about:

* Exchange: after a shortage the balance is zero; the next `update_pool` resets
  the accumulators to zero while users keep their `reward_debt`, so that the
  subtraction at line 414 aborts and shares cannot be redeemed until the
  accumulator has caught up. `update_pool` divides by `total_alloc_point`, which
  the rewarder can set to zero. `withdraw_mine_reward` does not get past a pool
  without shares. `set_pool_alloc_point` with an unknown pool hits the last one.
  `get_reserve` creates the pool it is asked for. What is left of a period's
  rewards is not carried over.
* Bank: the age of an oracle price only counts when its time stamp was seen before.
* Bank: `redeem_index` rounds the bank tokens it takes for an amount down. When the
  last bank tokens are redeemed at a rate above one, the amount paid may be more
  than cash + borrows - reserves, by up to the worth of one bank token. No rate is
  asked of a market without bank tokens, but the next `lock_index` gives it some,
  and from then on `exchange_rate` aborts until cash has caught up with the
  reserves. So "every market with bank tokens has a rate" is no invariant.
* Bank: the contract's own account can sign `transfer` and `exit_bank`, which take a
  market's cash, the part that covers the reserves included. `RateStaysDefined` says
  that these two calls of that account (`BankSpends`) and the redemption above are
  the only ways to lose a rate: no other step starts from a market that covers its
  reserves and ends in one with bank tokens but no rate. Without the exception TLC
  finds a violation in `bank_market`: a borrower repays, the account transfers the
  cash away, and interest has left reserves that nothing covers.
* `owner()` keeps naming the administrator for a burnt token, because the erase in
  `burn` is commented out; the stale entry is also what keeps a burnt id from
  being minted again (`BurnIsFinal`).
* `Map::erase` has an inverted condition (it acts for keys it did not find).
  Nothing calls it and it is not modelled.
* Wallet: `generate_from_random` returns uninitialized entropy and never derives
  the seed, so the keys of a fresh session do not belong to the words it writes. A
  process killed between truncating and writing leaves an empty file, which later
  starts refuse.
* Wallet: `wallet.cpp:213-214` has an exception for a mnemonic with an unknown word,
  but `lower_bound` takes any string for the next word of the list and only one after
  the last word gets there. Otherwise the checksum alone may refuse it; if it fits, the
  wallet is that of other words than those typed. The model has these strings (odd
  tokens), and `ExportsWhatWasRead` claims nothing of them.
* `BcsSerde`: lengths have at most four digits when read; the index of a variant
  is read and dropped; the parts of a tuple are read by the generated reader as the
  arguments of one call, in an order that C++ leaves open (the model reads from left to right).
* Two overlapping history queries can store events twice.
* The multi-agent submission does not bump the cache, so that each one costs the
  account one refused call; so does a coroutine that its reply missed
  (`LagIsAccounted`).

## 5. Proofs

`Client2Proofs`, from `Client2Assumption` only:

* `TypeCorrect`: `Spec => []TypeOK`;
* `OwnTxn` and `NoSkip`: `~MayDrop /\ Spec => []OwnTxnReported`, resp.
  `[]NoSkippedNumber`;
* `LagIsCounted`: `~LossyNet /\ ~Others /\ Spec => []LagIsAccounted`.

Neither of the two is inductive. `Coherent` adds: a call past its reply owns the slot it
signed for (`Holds`); an acknowledged call that is about to bump signed exactly
the cached number, and no signed number is above the cached one (`Fresh`): two
coroutines with one number cannot both be acknowledged, so that they cannot both
bump; committed numbers are taken (`Solid`); a success was executed
(`ReportedExecuted`). `~MayDrop` is necessary, as `client_same_number` shows.

The lag holds with a forgetting validator, but not if a reply is lost or another
program uses the account: both put numbers into the validator's hands that no call
will bump for. `Lagging` counts the numbers in use of an account: each is owned by a
call that signed it (`Owned`), there are none before the account is cached
(`Untouched`), and they are no more than the cached number, the multi-agent calls,
the coroutines that were overtaken after their submission, and the answered calls that
have not bumped it yet (`Counted`). Two coroutines with
one number do not break the count, since only one of them gets the slot.

`CoTaskProofs`, from `CoTaskAssumption` only (any tree of calls, any workers):

* `FrameRunsOnce`, `WakeUpIsPending`, `ErrorsArePropagated`: `Spec => []RunsOnce`,
  `[]WakeUpPending`, `[]ErrorsPropagate`.

`Chain` is the inductive invariant. That no frame is on two threads needs to know
when a frame is on none, which its `pc` tells (`Entered`), and that whoever resumes
a frame holds the only handle to it: a child with an unused handle is the one its
suspended parent awaits (`Handles`), and a parent that has not suspended yet has
given no handle away (`Unlinked`). `Settled` carries a child's result from
`await_ready` or `await_suspend` to the end of its parent.

`Meta42Proofs`, from `Meta42Assumption` only:

* `TokensAreTraced`, `TableFollowsChain`, `RecursionEnds`: `Spec => []Provenance`,
  `[]TableIsPrefix`, `[]HistoryEnds`.

`Traced` adds to `Provenance` that an account gets a token once, by a mint or by
one event (`GotOnce`), and that rows are events (`FromChain`); `InTurn` says what a
query knows while queries do not overlap: the count it read is still the length of
the table and its rows continue it. `HistoryEnds` follows without induction over the
rows: of a set of accounts, take the one that got the token by the earliest event.

`WalletProofs`, from `WalletAssumption`:

* `OwnFileIsOpened`, `WordsAreExported`: `Spec => []OwnFileOpens`,
  `[]ExportsWhatWasRead`.

The processes only copy files, entropies and seeds, so the invariant types them by
the sets they come from (`Typing`, `Drawn`) and ties a file to the entropy it spells
and a session to the file it read (`Opened`). What remains is that the bit packing is
inverse in both directions, for every width of bytes and words such that the words
divide the bits (`Inverts`, `Reexports`): a number is determined by its bits and a
string of bits by its number (`BitsOfNumber`, `NumberOfBits`, by a least
counterexample in the width and Horner's rule for the sum), and reading the same
bits in groups of one width or of another loses none (`GroupBits`, `BitsGroup`).
That words are accepted which spell less than the full length needs that the
missing words are zeros in both directions.

`NftProofs`, from `NftAssumption` and `StoreAssumption`, under
`Admin # Store`:

* `OrdersAreBacked`, `OwnerIsHolder`, `StoreTyped`, `BurntStaysBurnt`:
  `StoreSpec => []OrdersBacked`, `[]OwnerHolds`, `[]StoreTypeOK`, `[]BurnIsFinal`;
* `StoreImplementsLedger`: `StoreSpec => ImplementsLedger`, the initial state and
  every step of the composition mapped to `TokenLedger`;
* `OrdersEndWell`: `StoreSpec => OrderEndsWell`, in whatever currency the buyer pays;
* `AmountIsCounted`: `StoreSpec => []AmountCounts`;
* `SellerPassesChecks`: `StoreSpec => []RevokeReady`, every condition of `revoke_order`
  holds for the seller of every open order. This is `SellerCanRevoke` without
  `ENABLED`: what `revoke_order` says beyond `RevokeReady` only gives new values;

and, from `MapAssumption` only (any set of integer keys, any values):

* `MapIsFaithful`: `MapSpec => []SearchIsFaithful`.

The inductive invariant `Escrow` joins the first four with `Unowned` (an id not in
the map is in nobody's hands) and with `Lent` (once the store is open its capability
is lent, and there are no orders before). An order is safe because only
`pay_from` with that capability, in `revoke_order` and `trade_order`, can take the
token out, and both remove the order. If the administrator of the NFT were the
store itself, `burn` could take a token out of escrow: hence `Admin # Store`. The
refinement needs no more than `Escrow`: it makes the status of a token a function of
its holder and its order (`StatusIs`), so that each action is one turn of one token
or none (`OneTurn`, `NoTurn`). `OrderEndsWell` needs that the store never sells to
itself (`Sellers`), `AmountCounts` that the set of tokens in accounts is finite,
`RevokeReady` that the accounts the call looks up were made with the list and with the
order (`Admitted`).

The owners are kept in a sorted vector. A search in it is right only if the keys
increase, and they increase after an insertion only if the search gave the right
place, so the invariant `MapOK` says that both vectors are sorted and hold what was put
in. `find` is a recursive function over the windows `left .. right` (`Windows`, with the
empty one at the end of the search); TLA+ says nothing of it until such a function is
known to exist. `SearchExists` builds it up from the short windows: both halves of a
window are shorter, and the test of `mid = 0` keeps the right end from falling below
zero. `SearchAnswers` shows by a shortest wrong window that it gives the index of the
key, or the place before which all keys are smaller and from which all are larger
(`Answers`); at that place an insertion keeps the order (`PutSorted`).

`SumTheorems`: what a sum over a finite set becomes when the function changes at one
or two places. The sum of the community modules is a recursive function; that it
exists and does not depend on the order is shown from the well-foundedness of
Nat, by taking a smallest set on which it fails.

`BankProofs`, from `BankAssumption` only (any finite set of users, any listings,
prices, rates and bounds, any scale of at least 100):

* `BankTyped`, `TokensAreConserved`, `BankTokensAreConserved`, `CoinsBackTokens`,
  `IndexesAreSane`: `Spec => []TypeOK`, `[]TokenConservation`, `[]LockConservation`,
  `[]BackedByCoins`, `[]IndexesSane`;
* `IndexesClimb`, `DisableFreezes`, `RatesStayDefined`: `Spec => IndexesMonotone`,
  `DisabledFreezes`, `RateStaysDefined`;
* `LoansAreCovered`: `Spec => BorrowStaysCovered`.

The inductive invariant is `TypeOK` with `Good`: the sums and indexes above,
`Blank` (a market that does not exist yet has no supply and indexes of one, so that
no account is ahead of it when it is created) and `OneCoin` (a currency has one
market, and nobody may mint in it), without which the coins in the contract's account
could back two markets' units or none. The argument follows the shape of the code.
Every call first keeps the books, on a copy of the storage: price, interest, speeds,
indexes and the sender's incentive (`Keeps`: nobody's holdings change, indexes only
grow, reserves grow by no more than loans). Then it does its own work: a payment, an
issue, a mint of bank tokens, a burn, a loan, a seizure (`Orderly`: the sums still
agree, the indexes do not fall, a disabled bank moves nothing; `Lawful`: the market keeps
its rate besides). A transfer and an exit of the contract's own account are only
`Orderly`, which is the exception `BankSpends` of `RateStaysDefined`; all else it may
call is `Lawful`, and it never lends to itself (`LendsToUsers`). `claim_incentive` loops over the markets of a
user by a recursive function, which is built up from its least undefined argument.
`BorrowStaysCovered` is one more part of `Orderly` (`Covered`): a debt that grows is
covered in the storage the call leaves. Only `borrow_index` gives anything to show. It
compares before it pays, so the comparison has to survive the payment: the coins that
leave the market are added to its loans, so its exchange rate and with it all
collateral stay the same (`LentCollateral`); the debt grows by the value compared,
the two roundings of `borrow_balance_of_index` only take away from the new principal
(`RoundsDown`), and the value of a sum is at most one more than the sum of the values
(`ValueSplits`), which is the one unit in the property.

`ExchangeProofs`, from `ExchangeAssumption` only (any finite set of users, any
currencies, amounts, fees, points, periods and paths):

* `ResourcesTyped`, `SharesAreCounted`, `CoinsBackPools`: `Spec => []TypeOK`,
  `[]SharesCounted`, `[]Backed`;
* `SharesKeepWorth`: `FairFees /\ Spec => ShareKeepsWorth`. The first three hold
  with a negative fee too, this one does not.

A call works on a copy of the resources and commits it, so the inductive invariant
is one of the record a call begins with: `Inv == Typing /\ Safe(Begin) /\ Closed`.
`Sound` has the types, `Counted` (what rewards are divided by is what is recorded)
and `Linked`: an entry is found by the number of its pool, so the sums over the
entries only move with the pools because a user has one entry for a pool. `Safe`
adds that `Gap`, the shares of the users less the supply, is zero, and that `Slack`,
the coins of the contract less all reserves and the reward balance, is not negative
in any currency. A call breaks both on its way: `add_liquidity` gives the user shares
before the supply grows, and takes payments before the reserves grow. The reward
code in the middle of it is therefore shown to touch neither (`Settles`, through the
early return too), and a deposit, a withdrawal and a hop of a swap to end with both
as they should be (`IsGrown`, `IsShrunk`, `Travels`); the hops are joined by a least
counterexample along the path. `ShareKeepsWorth` is then what truncation does: of
`get_amount_out` (`AmountOut`), of the shares minted and redeemed (`InProportion`,
`ShareOf`) and of Newton's iteration in `sqrt`, which ends at a number whose square is
not above its argument (`SqrtIs`). `Closed` says that nothing is registered before
`initialize`.

With TLC only: the liveness properties (fairness); `SellerCanRevoke` as it stands
(ENABLED), whose conditions are proved; the serialisers and the swap path, whose
content is a recursion over the shape of a type or of a set of pools.

## 6. Not modelled

Near copies and predecessors (`NonFungibleToken2`, `NftStore`, `swap`), the linked
list that nothing uses, scripts, type definitions and currencies; cryptography and
the parsing of JSON views; terminal tools, bindings, the Rust client and the
oracle daemon (in the bank, the oracle may take any price at any time); events
and user data of the contracts; gas and expiration of transactions other than as
a validator that forgets them.

Of the C++ lines of the repository, about 60 per cent are two vendored headers
(`json.hpp`, `sqlite_orm.hpp`) and several thousand more are generated script
builders, each of which fills in one script. The models leave these out, so the
share of lines they stand for is small although they cover the logic that the
repository adds itself.

## 7. Plan

1. Done: all modules above, the refinement to `TokenLedger`, the theorems of section 5.
2. Open: what the serialisers and the swap path do on data of any size. Their models
   recurse over the data with RECURSIVE operators, so this needs them rewritten as
   recursive functions and an argument like that of `SearchExists` for each.
