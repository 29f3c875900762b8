----------------------------- MODULE MCExchange -----------------------------
(* Instances of Exchange for TLC.                                            *)
EXTENDS Exchange, TLC

CONSTANTS alice, bob, exchange, vls, usd, btc

Purse(v, u, b) == (vls :> v) @@ (usd :> u) @@ (btc :> b)
Purses == (alice :> Purse(14, 6, 0)) @@ (bob :> Purse(2, 4, 4))

\* One way, the other way, over two pools, and to and fro in one pool.
SwapPaths == {<<0, 1>>, <<1, 0>>, <<0, 1, 2>>, <<0, 1, 0, 1>>}

\* The fee of initialize, and one half.
FeeFactors == {<<1, 2>>}

\* A large period, and a small one that may follow it before it is claimed.
RewardPeriods == {[balance |-> 8, from |-> 0, to |-> 2], [balance |-> 2, from |-> 0, to |-> 1]}

\* The state after initialize and the registration of three currencies, with
\* the first two pools open: alice has the shares of one, bob of the other.
Opened ==
  /\ codes = <<vls, usd, btc>>
  /\ pools = <<[a |-> 0, b |-> 1, supply |-> 4, ra |-> 4, rb |-> 4,
               lp_supply |-> 4, alloc |-> AllocPoint, acc |-> 0],
              [a |-> 1, b |-> 2, supply |-> 2, ra |-> 2, rb |-> 2,
               lp_supply |-> 2, alloc |-> AllocPoint, acc |-> 0]>>
  /\ rewards = [Unset EXCEPT !.open = TRUE, !.end = 1, !.last = 1, !.total_alloc = 2 * AllocPoint]
  /\ factor = <<9997, 10000>> /\ rewarder = alice
  /\ own = (alice :> <<[pool |-> 1, value |-> 4, amount |-> 4, reward_debt |-> 0]>>)
        @@ (bob :> <<[pool |-> 2, value |-> 2, amount |-> 2, reward_debt |-> 0]>>)
  /\ coin = (exchange :> Purse(4, 6, 2)) @@ Endowment
  /\ now = 1 /\ version = 0

\* From the empty chain as well.
OpenedSpec == (Opened \/ Init) /\ [][Next]_vars
=============================================================================
