--------------------------- MODULE MCViolasBank ---------------------------
(* The instance of ViolasBank for TLC.  The set-up calls (publish, register, *)
(* enter_bank) commute for the most part, so two of the three starts are     *)
(* states they lead to; the third is the empty chain.                        *)
EXTENDS ViolasBank, Sequences, TLC

CONSTANTS alice, bob, bank, vls, usd, none

\* Ten per cent of interest a minute, and more above the kink.
Model == [base |-> 10, mult |-> 10, jump |-> 40, kink |-> 80]
Models == {Model}

Listing(o, c, f) == [owner |-> o, coin |-> c, oracle |-> alice, factor |-> f, model |-> Model]
UsdListing == Listing(none, usd, 50)

\* The supervisor raised the factor, and only the oracle sets the price.
UsdByOracle == [UsdListing EXCEPT !.factor = 80, !.oracle = bank]
GemListing == Listing(bob, none, 50)

SetupListings == {UsdListing}

Has(v, u) == (vls :> v) @@ (usd :> u)
NoCoins    == (alice :> Has(0, 0)) @@ (bob :> Has(0, 0)) @@ (bank :> Has(0, 0))
SetupCoins == (alice :> Has(0, 200)) @@ (bob :> Has(0, 0)) @@ (bank :> Has(0, 0))
VlsCoins   == (alice :> Has(40, 0)) @@ (bob :> Has(0, 0)) @@ (bank :> Has(0, 0))

Unlisted == TokenInfo(none, none, none, 0, [base |-> 0, mult |-> 0, jump |-> 0, kink |-> 0], 0)

\* The state after everybody published, the markets ls were listed and priced
\* just now, and the users entered (or were minted) hold[a][m] and locked
\* held[a][m] units of each, at the initial rate of 100 bank tokens a unit,
\* and borrowed owed[a][m], which they still hold.
Open(ls, prices, purses, hold, held, owed) ==
  LET listed(m) == m < Len(ls)
      locked(m) == MapThenSumSet(LAMBDA a : held[a][m], Users)
      lent(m)   == MapThenSumSet(LAMBDA a : owed[a][m], Users)
      total(m)  == MapThenSumSet(LAMBDA a : hold[a][m], Users) + locked(m)
      units(c)  == MapThenSumSet(LAMBDA m : IF ls[m + 1].coin = c THEN total(m) ELSE 0,
                                 0 .. Len(ls) - 1)
  IN  /\ n = Len(ls)
      /\ mk = [m \in Markets |->
                 IF ~listed(m) THEN Unlisted ELSE
                 [TokenInfo(ls[m + 1].owner, ls[m + 1].coin, ls[m + 1].oracle,
                            ls[m + 1].factor, ls[m + 1].model, now)
                    EXCEPT !.price = prices[m + 1], !.total_supply = total(m),
                           !.lock_supply = 100 * locked(m),
                           !.total_borrows = lent(m)]]
      /\ store = [disabled |-> FALSE, migrated |-> TRUE, incentive_rate |-> 0,
                  refresh_last_minute |-> now, rate_last_minute |-> 0]
      /\ acc = [a \in Addr |->
                  IF a = Bank
                  THEN [NoTokens EXCEPT !.pub = TRUE, !.cnt = n,
                          !.val = [m \in Markets |-> locked(m) - lent(m)]]
                  ELSE [NoTokens EXCEPT !.pub = TRUE, !.cnt = n,
                          !.val = [m \in Markets |-> hold[a][m] + owed[a][m]],
                          !.principal = owed[a],
                          !.lock = [m \in Markets |-> 100 * held[a][m]]]]
      /\ coin = [purses EXCEPT ![Bank] = [c \in Coins |-> @[c] + units(c)]]
      /\ orc = [c \in Coins |-> [value |-> 0, timestamp |-> 0]]

Two(a, a1, b, b1) == (alice :> ((0 :> a) @@ (1 :> a1))) @@ (bob :> ((0 :> b) @@ (1 :> b1)))

\* Alice locked coins, borrowed some, and is the one who may pay VLS in.  A
\* minute later she owes 200, and the reserves have their first unit: once she
\* has repaid, only cash covers it.  Four transactions may follow.
OneMarket ==
  /\ now = 1 /\ version = 2
  /\ Open(<<UsdByOracle>>, <<100>>, VlsCoins,
          Two(24, 0, 400, 0), Two(376, 0, 0, 0), Two(176, 0, 0, 0))

\* Alice locked coins and borrowed some of bob's gems, which he may have to
\* liquidate when they become dearer; three transactions may follow.
TwoMarkets ==
  /\ now = 2 /\ version = 3
  /\ Open(<<UsdByOracle, GemListing>>, <<100, 100>>, NoCoins,
          Two(200, 0, 0, 200), Two(700, 0, 0, 400), Two(0, 200, 0, 0))

\* The three starts; the rate the oracle may announce makes the currency dearer.
OpenMarkets == (Init \/ OneMarket \/ TwoMarkets) /\ [][Next]_vars
============================================================================
