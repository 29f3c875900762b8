----------------------------- MODULE NftStore2 -----------------------------
(***************************************************************************)
(* move/stdlib/modules/NftStore2.move on top of NonFungibleToken.  An      *)
(* order moves its token to the store's account, whose withdraw capability *)
(* the store's Configuration keeps; a trade or a revocation pays it out    *)
(* from there.  An order is named by the hash of its content, so the       *)
(* record is its own id; orders[o] counts its occurrences in the vector.   *)
(* DiemAccount, external, refuses to pay an amount of zero.                *)
(***************************************************************************)
EXTENDS NonFungibleToken

CONSTANTS
  Store,           \* ADMIN_ACCOUNT_ADDRESS
  Currencies,
  Prices,          \* prices asked
  FeeNum, FeeDen,  \* the fee rate, a FixedPoint32, as a fraction
  Endowment,       \* coins of the addresses at the start
  MaxTime          \* bound on the clock

ASSUME StoreAssumption ==
  /\ Store \in Addr /\ Prices \subseteq Nat /\ MaxTime \in Nat
  /\ FeeNum \in Nat /\ FeeDen \in Nat \ {0}
  /\ Endowment \in [Addr -> [Currencies -> Nat]]

VARIABLES
  opened,    \* whether the store's Configuration exists
  listed,    \* whether OrderList<NFT> exists
  orders,    \* OrderList.orders
  customers, \* the addresses with a store Account<NFT>
  coin,      \* DiemAccount balances
  now        \* DiemTimestamp, in seconds

storeVars == <<opened, listed, orders, customers, coin, now>>
vars == <<nftVars, storeVars>>

Orders == [token : Tokens, price : Prices, currency : Currencies,
           provider : Addr, timestamp : 0 .. MaxTime]

Init ==
  /\ InitNft
  /\ opened = FALSE /\ listed = FALSE
  /\ orders = [o \in Orders |-> 0]
  /\ customers = {}
  /\ coin = Endowment
  /\ now = 0

Tick ==
  /\ now < MaxTime /\ now' = now + 1
  /\ UNCHANGED <<nftVars, opened, listed, orders, customers, coin>>

\* The store takes its own withdraw capability, made on the spot if needed.
initialize ==
  /\ ~opened /\ cap[Store] # "lent"
  /\ opened' = TRUE /\ cap' = [cap EXCEPT ![Store] = "lent"]
  /\ UNCHANGED <<registered, burnt, amount, owners, accepted, held>>
  /\ UNCHANGED <<listed, orders, customers, coin, now>>

register_nft ==
  /\ ~listed /\ opened /\ registered
  /\ listed' = TRUE /\ accept_if_needed(Store)
  /\ UNCHANGED <<registered, burnt, amount, owners, held>>
  /\ UNCHANGED <<opened, orders, customers, coin, now>>

accept_customer(a) ==
  /\ a \notin customers /\ customers' = customers \cup {a}
  /\ accept_if_needed(a)
  /\ UNCHANGED <<registered, burnt, amount, owners, held>>
  /\ UNCHANGED <<opened, listed, orders, coin, now>>

----------------------------------------------------------------------------
\* A variant: the provider gets no store Account.
MakeOrderNoAccount(a, t, p, c) ==
  /\ listed
  /\ transfer(a, Store, t)
  /\ orders' = [orders EXCEPT ![[token |-> t, price |-> p, currency |-> c,
                                 provider |-> a, timestamp |-> now]] = @ + 1]
  /\ UNCHANGED <<registered, burnt, amount, accepted, cap>>
  /\ UNCHANGED <<opened, listed, customers, coin, now>>

make_order(a, t, p, c) ==
  /\ listed
  /\ transfer(a, Store, t)
  /\ orders' = [orders EXCEPT ![[token |-> t, price |-> p, currency |-> c,
                                 provider |-> a, timestamp |-> now]] = @ + 1]
  /\ customers' = customers \cup {a}
  /\ UNCHANGED <<registered, burnt, amount, accepted, cap>>
  /\ UNCHANGED <<opened, listed, coin, now>>

\* find_order and swap_remove.
Listed(o)  == listed /\ orders[o] > 0
Without(o) == [orders EXCEPT ![o] = @ - 1]

\* A variant: the order is left in the list.
RevokeKeepsOrder(a, o) ==
  /\ Listed(o) /\ o.provider = a
  /\ opened /\ pay_from(Store, a, o.token)
  /\ UNCHANGED <<registered, burnt, amount, accepted, cap>>
  /\ UNCHANGED storeVars

revoke_order(a, o) ==
  /\ Listed(o) /\ o.provider = a /\ a \in customers
  /\ opened /\ a \in accepted /\ pay_from(Store, a, o.token)
  /\ orders' = Without(o)
  /\ UNCHANGED <<registered, burnt, amount, accepted, cap>>
  /\ UNCHANGED <<opened, listed, customers, coin, now>>

----------------------------------------------------------------------------
Fee(price) == (price * FeeNum) \div FeeDen

Revenue(price) == price - Fee(price)

\* DiemAccount::pay_from: coins of currency c from payer to payee.
CoinPay(b, c, payer, payee, x) ==
  [d \in Addr |-> [b[d] EXCEPT ![c] = @ + (IF d = payee THEN x ELSE 0)
                                        - (IF d = payer THEN x ELSE 0)]]

\* A variant: the revenue goes to the store as well.
TradePaysStore(a, o, c) ==
  /\ Listed(o) /\ opened
  /\ coin[a][c] > o.price
  /\ coin' = CoinPay(coin, c, a, Store, o.price)
  /\ orders' = Without(o)
  /\ accept_if_needed(a)
  /\ pay_from(Store, a, o.token)
  /\ o.provider \in customers /\ customers' = customers \cup {a}
  /\ UNCHANGED <<registered, burnt, amount>>
  /\ UNCHANGED <<opened, listed, now>>

\* trade_order: c is the buyer's type argument; it is not compared with the
\* currency of the order.
trade_order(a, o, c) ==
  /\ Listed(o) /\ opened
  /\ coin[a][c] > o.price
  /\ Fee(o.price) > 0 /\ Revenue(o.price) > 0
  /\ coin' = CoinPay(CoinPay(coin, c, a, Store, Fee(o.price)),
                     c, a, o.provider, Revenue(o.price))
  /\ orders' = Without(o)
  /\ accept_if_needed(a)
  /\ pay_from(Store, a, o.token)
  /\ o.provider \in customers /\ customers' = customers \cup {a}
  /\ UNCHANGED <<registered, burnt, amount>>
  /\ UNCHANGED <<opened, listed, now>>

----------------------------------------------------------------------------
StoreStep ==
  \/ Tick \/ initialize \/ register_nft
  \/ \E a \in Addr :
       \/ accept_customer(a)
       \/ \E t \in Tokens, p \in Prices, c \in Currencies : make_order(a, t, p, c)
       \/ \E o \in Orders : revoke_order(a, o)
       \/ \E o \in Orders, c \in Currencies : trade_order(a, o, c)

Next == (NextNft /\ UNCHANGED storeVars) \/ StoreStep

StoreSpec == Init /\ [][Next]_vars

----------------------------------------------------------------------------
\* Type invariant; a customer of the store can hold the NFT, and no payment of
\* trade_order overdraws the buyer.
StoreTypeOK ==
  /\ NftTypeOK
  /\ opened \in BOOLEAN /\ listed \in BOOLEAN
  /\ orders \in [Orders -> Nat]
  /\ customers \subseteq accepted
  /\ coin \in [Addr -> [Currencies -> Nat]]
  /\ now \in 0 .. MaxTime

Open(o) == orders[o] > 0

\* Every order has its token in the store's account and no two orders share
\* one: a trade or a revocation that finds the order never finds the token
\* gone.  The store's capability is lent, so no transfer can take it away; the
\* administrator of the NFT could burn it only if it were the store itself.
OrdersBacked ==
  \A o \in Orders : Open(o) =>
    /\ orders[o] = 1 /\ held[Store][o.token] = 1
    /\ \A p \in Orders : Open(p) /\ p.token = o.token => p = o

\* Whatever buyers, the administrator or the store do, a seller can take an
\* unsold token back.
SellerCanRevoke ==
  \A o \in Orders : Open(o) => ENABLED revoke_order(o.provider, o)

\* An order ends in one of two ways: its token returns to the seller, who is
\* paid in no currency, or it goes to somebody else and the seller's coins grow
\* by the number of the price less the fee.  They are coins of one currency, but
\* of the one that the buyer of trade_order chose, which need not be the order's
\* (PaidInItsCurrency).
OrderEndsWell ==
  [][\A o \in Orders : Open(o) /\ ~Open(o)' =>
       \/ /\ owners'[o.token] = o.provider
          /\ \A c \in Currencies : coin'[o.provider][c] <= coin[o.provider][c]
       \/ /\ owners'[o.token] # o.provider
          /\ \E c \in Currencies :
               coin'[o.provider] = [coin[o.provider] EXCEPT ![c] = @ + Revenue(o.price)]]_vars

\* A sale pays the seller in the currency that make_order recorded in the order
\* and that the Traded, Sold and Bought events of trade_order report.
PaidInItsCurrency ==
  [][\A o \in Orders : Open(o) /\ ~Open(o)' /\ owners'[o.token] # o.provider =>
       coin'[o.provider] =
         [coin[o.provider] EXCEPT ![o.currency] = @ + Revenue(o.price)]]_vars

OffersOf(t) == {o \in Orders : o.token = t /\ Open(o)}

\* What the two modules' state says of a token: of one that the store holds,
\* an order speaks before the map of owners, which names the store then.
Status(t) ==
  IF held[Store][t] > 0 /\ OffersOf(t) # {}
  THEN LET o == CHOOSE o \in OffersOf(t) : TRUE
       IN [is |-> "offered", owner |-> o.provider, price |-> o.price]
  ELSE IF t \in InHands THEN [is |-> "free", owner |-> owners[t]]
  ELSE [is |-> IF t \in burnt THEN "burnt" ELSE "unborn"]

Ledger == INSTANCE TokenLedger WITH ledger <- [t \in Tokens |-> Status(t)]

\* NonFungibleToken and NftStore2 together implement TokenLedger: although a
\* sale changes the list of orders, the vectors of two accounts and the map of
\* owners, every transaction takes one token from one status to another, a
\* burnt token has no further one, and only its owner's offer puts it on sale.
ImplementsLedger == Ledger!LedgerSpec
============================================================================
