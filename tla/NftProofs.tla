----------------------------- MODULE NftProofs -----------------------------
(***************************************************************************)
(* Proofs about NftStore2 and the NonFungibleToken it uses, for any set of *)
(* addresses, tokens, prices and currencies.                               *)
(*                                                                         *)
(* Escrow is the inductive invariant.  OwnerHolds is not inductive: mint   *)
(* adds a token to an account when the map has no owner for it, so Unowned *)
(* says that nobody holds such a token.  OrdersBacked is not: a transfer   *)
(* from the store's account would break it, so Lent says that the store    *)
(* cannot sign one as soon as it has orders.                               *)
(*                                                                         *)
(* NonFungibleToken keeps the owners in a sorted vector of Map; the last   *)
(* part proves the binary search in it (SortedMap), for any keys.          *)
(***************************************************************************)
EXTENDS NftStore2, SortedMap, SumTheorems, TLAPS

Unowned ==
  \A t \in Tokens : owners[t] = Nobody =>
    t \notin burnt /\ \A a \in Addr : held[a][t] = 0

Lent ==
  /\ \A o \in Orders : Open(o) => listed
  /\ listed => opened
  /\ opened => cap[Store] = "lent"

Escrow == StoreTypeOK /\ OwnerHolds /\ BurnIsFinal /\ Unowned /\ OrdersBacked /\ Lent

----------------------------------------------------------------------------
\* The fee and the revenue add up to the price, and neither is negative when
\* DiemAccount accepts both payments.
LEMMA FeeTyped ==
  ASSUME NEW p \in Prices
  PROVE  Fee(p) \in Nat /\ Revenue(p) \in Int /\ Fee(p) + Revenue(p) = p
BY StoreAssumption DEF Fee, Revenue

\* A payment the payer can afford keeps every balance a natural number.
LEMMA CoinPayTyped ==
  ASSUME NEW b \in [Addr -> [Currencies -> Nat]], NEW c \in Currencies,
         NEW payer \in Addr, NEW payee \in Addr, NEW x \in Nat, b[payer][c] >= x
  PROVE  /\ CoinPay(b, c, payer, payee, x) \in [Addr -> [Currencies -> Nat]]
         /\ CoinPay(b, c, payer, payee, x)[payer][c] >= b[payer][c] - x
<1> SUFFICES ASSUME NEW d \in Addr
             PROVE  [b[d] EXCEPT ![c] = @ + (IF d = payee THEN x ELSE 0)
                                          - (IF d = payer THEN x ELSE 0)]
                      \in [Currencies -> Nat]
  BY DEF CoinPay
<1>1. b[d] \in [Currencies -> Nat] /\ b[d][c] \in Nat
  OBVIOUS
<1>2. b[d][c] + (IF d = payee THEN x ELSE 0) - (IF d = payer THEN x ELSE 0) \in Nat
  BY <1>1
<1> QED BY <1>1, <1>2

----------------------------------------------------------------------------
Moved(h, a, r, t) == [h EXCEPT ![a][t] = @ - 1, ![r][t] = @ + 1]

\* One token t less for a and one more for r, and nothing else.
LEMMA MoveOne ==
  ASSUME NEW h \in [Addr -> [Tokens -> Nat]], NEW a \in Addr, NEW r \in Addr, a # r,
         NEW t \in Tokens, h[a][t] > 0
  PROVE  /\ Moved(h, a, r, t) \in [Addr -> [Tokens -> Nat]]
         /\ Moved(h, a, r, t)[a][t] = h[a][t] - 1 /\ Moved(h, a, r, t)[r][t] = h[r][t] + 1
         /\ \A b \in Addr \ {a, r} : Moved(h, a, r, t)[b] = h[b]
         /\ \A b \in Addr, u \in Tokens : u # t => Moved(h, a, r, t)[b][u] = h[b][u]
<1> DEFINE f == Moved(h, a, r, t)
           ha == [h[a] EXCEPT ![t] = h[a][t] - 1]
           hr == [h[r] EXCEPT ![t] = h[r][t] + 1]
<1>1. ha \in [Tokens -> Nat] /\ hr \in [Tokens -> Nat]
  <2>1. h[a] \in [Tokens -> Nat] /\ h[r] \in [Tokens -> Nat]
    OBVIOUS
  <2>2. h[a][t] - 1 \in Nat /\ h[r][t] + 1 \in Nat
    BY <2>1
  <2> QED BY <2>1, <2>2
<1>2. f = [h EXCEPT ![a] = ha, ![r] = hr]
  BY DEF Moved
<1>3. f[a] = ha /\ f[r] = hr /\ \A b \in Addr \ {a, r} : f[b] = h[b]
  BY <1>2
<1>4. f \in [Addr -> [Tokens -> Nat]]
  BY <1>1, <1>2
<1>5. \A u \in Tokens : /\ ha[u] = IF u = t THEN h[a][t] - 1 ELSE h[a][u]
                        /\ hr[u] = IF u = t THEN h[r][t] + 1 ELSE h[r][u]
  OBVIOUS
<1> HIDE DEF ha, hr, f
<1>6. ASSUME NEW b \in Addr, NEW u \in Tokens, u # t PROVE f[b][u] = h[b][u]
  BY <1>3, <1>5, <1>6
<1> QED BY <1>3, <1>4, <1>5, <1>6 DEF f

\* The empty chain satisfies the inductive invariant.
LEMMA InitEscrow == Init => Escrow
<1> SUFFICES ASSUME Init PROVE Escrow
  OBVIOUS
<1> USE NftAssumption, StoreAssumption DEF Init, InitNft
<1>1. StoreTypeOK
  <2>a. amount \in 0 .. Total /\ burnt \subseteq Tokens /\ accepted \subseteq Addr
    OBVIOUS
  <2>b. /\ owners \in [Tokens -> Addr \cup {Nobody}]
        /\ held \in [Addr -> [Tokens -> Nat]]
    OBVIOUS
  <2>c. registered \in BOOLEAN /\ cap \in [Addr -> {"absent", "here", "lent"}]
    OBVIOUS
  <2>1. NftTypeOK
    BY <2>a, <2>b, <2>c DEF NftTypeOK
  <2>2. orders \in [Orders -> Nat] /\ customers \subseteq accepted /\ now \in 0 .. MaxTime
    OBVIOUS
  <2> QED BY <2>1, <2>2 DEF StoreTypeOK
<1>2. OwnerHolds /\ BurnIsFinal /\ Unowned
  BY DEF OwnerHolds, BurnIsFinal, Unowned
<1>3. OrdersBacked /\ Lent
  BY DEF OrdersBacked, Lent, Open
<1> QED BY <1>1, <1>2, <1>3 DEF Escrow

\* The type of the state after a step that changes only the NFT module.
LEMMA NftStepTyped ==
  ASSUME Escrow, NextNft, UNCHANGED storeVars
  PROVE  StoreTypeOK'
<1> USE NftAssumption, StoreAssumption DEF Escrow, StoreTypeOK, NftTypeOK, storeVars
<1>1. CASE register
  BY <1>1 DEF register
<1>2. ASSUME NEW a \in Addr, MakeAccount(a) PROVE StoreTypeOK'
  BY <1>2 DEF MakeAccount, make_account
<1>3. ASSUME NEW a \in Addr, Accept(a) PROVE StoreTypeOK'
  BY <1>3 DEF Accept, accept, make_account
<1>4. ASSUME NEW t \in Tokens, burn(t) PROVE StoreTypeOK'
  BY <1>4 DEF burn
<1>5. ASSUME NEW t \in Tokens, NEW r \in Addr, mint(r, t) PROVE StoreTypeOK'
  BY <1>5 DEF mint
<1>6. ASSUME NEW t \in Tokens, NEW a \in Addr, NEW r \in Addr, Transfer(a, r, t)
      PROVE  StoreTypeOK'
  <2>1. held' \in [Addr -> [Tokens -> Nat]]
    <3>1. CASE a = r
      BY <3>1, <1>6 DEF Transfer, transfer, pay_from
    <3>2. CASE a # r
      <4>1. held[a][t] \in Nat /\ held[a][t] > 0 /\ held[r][t] \in Nat
        BY <1>6 DEF Transfer, transfer, pay_from
      <4>2. held' = Moved(held, a, r, t)
        BY <3>2, <1>6 DEF Transfer, transfer, pay_from, Moved
      <4> QED BY <3>2, <4>1, <4>2, MoveOne
    <3> QED BY <3>1, <3>2
  <2> QED BY <2>1, <1>6 DEF Transfer, transfer, pay_from
<1> QED BY <1>1, <1>2, <1>3, <1>4, <1>5, <1>6 DEF NextNft

\* What a payment of token t from payer to receiver does to the NFT module's
\* invariants.
LEMMA PayKeeps ==
  ASSUME Escrow, NEW payer \in Addr, NEW receiver \in Addr, NEW t \in Tokens,
         pay_from(payer, receiver, t), UNCHANGED burnt
  PROVE  /\ (OwnerHolds /\ BurnIsFinal /\ Unowned)'
         /\ held' \in [Addr -> [Tokens -> Nat]]
         /\ \A a \in Addr, u \in Tokens : u # t => held'[a][u] = held[a][u]
         /\ payer # receiver => held'[payer][t] = 0 /\ held'[receiver][t] = 1
<1> USE NftAssumption DEF Escrow, StoreTypeOK, NftTypeOK
<1>1. held[payer][t] = 1 /\ owners[t] = payer
  BY DEF pay_from, OwnerHolds
<1>2. \A a \in Addr : a # payer => held[a][t] = 0
  BY <1>1 DEF OwnerHolds
<1>3. /\ held' \in [Addr -> [Tokens -> Nat]]
      /\ \A a \in Addr, u \in Tokens : u # t => held'[a][u] = held[a][u]
      /\ \A a \in Addr : held'[a][t] = IF a = receiver THEN 1 ELSE 0
  <2>1. CASE payer = receiver
    BY <2>1, <1>1, <1>2 DEF pay_from
  <2>2. CASE payer # receiver
    <3>1. held' = Moved(held, payer, receiver, t)
      BY <2>2 DEF pay_from, Moved
    <3>2. held[payer][t] = 1 /\ held[receiver][t] = 0
      BY <2>2, <1>1, <1>2
    <3>3. /\ held' \in [Addr -> [Tokens -> Nat]]
          /\ held'[payer][t] = 0 /\ held'[receiver][t] = 1
          /\ \A b \in Addr \ {payer, receiver} : held'[b] = held[b]
          /\ \A b \in Addr, u \in Tokens : u # t => held'[b][u] = held[b][u]
      <4>1. held \in [Addr -> [Tokens -> Nat]] /\ held[payer][t] > 0
        BY <3>2
      <4> HIDE DEF Escrow, StoreTypeOK, NftTypeOK
      <4>2. /\ Moved(held, payer, receiver, t) \in [Addr -> [Tokens -> Nat]]
            /\ Moved(held, payer, receiver, t)[payer][t] = held[payer][t] - 1
            /\ Moved(held, payer, receiver, t)[receiver][t] = held[receiver][t] + 1
            /\ \A b \in Addr \ {payer, receiver} :
                 Moved(held, payer, receiver, t)[b] = held[b]
            /\ \A b \in Addr, u \in Tokens :
                 u # t => Moved(held, payer, receiver, t)[b][u] = held[b][u]
        BY <2>2, <4>1, MoveOne, SMTT(40)
      <4> QED BY <3>1, <3>2, <4>2
    <3>4. \A b \in Addr \ {payer, receiver} : held'[b][t] = 0
      BY <3>3, <1>2
    <3> QED BY <2>2, <3>3, <3>4
  <2> QED BY <2>1, <2>2
<1>4. owners' \in [Tokens -> Addr \cup {Nobody}] /\ owners'[t] = receiver
      /\ \A u \in Tokens : u # t => owners'[u] = owners[u]
  BY DEF pay_from
<1>5. OwnerHolds'
  <2> SUFFICES ASSUME NEW a \in Addr, NEW u \in Tokens, held'[a][u] > 0
               PROVE  held'[a][u] = 1 /\ owners'[u] = a
    BY DEF OwnerHolds
  <2>1. CASE u = t
    BY <2>1, <1>3, <1>4
  <2>2. CASE u # t
    BY <2>2, <1>3, <1>4 DEF OwnerHolds
  <2> QED BY <2>1, <2>2
<1>6. t \notin burnt
  BY <1>1 DEF BurnIsFinal, InHands
<1>7. BurnIsFinal'
  BY <1>3, <1>6 DEF BurnIsFinal, InHands
<1>8. Unowned'
  BY <1>3, <1>4 DEF Unowned
<1> QED BY <1>3, <1>5, <1>7, <1>8

\* Every call of the NFT module keeps the inductive invariant: a mint finds the
\* token with nobody, a burn is not of a token on sale (the store is not the
\* administrator), a transfer is not from the store (its capability is lent).
LEMMA NftStepEscrow ==
  ASSUME Escrow, NextNft, UNCHANGED storeVars, Admin # Store
  PROVE  Escrow'
<1> USE NftAssumption, StoreAssumption
<1> DEFINE Nft  == OwnerHolds /\ BurnIsFinal /\ Unowned
           Sold == OrdersBacked /\ Lent
<1>0. StoreTypeOK'
  BY NftStepTyped
<1>t. StoreTypeOK /\ NftTypeOK
  BY DEF Escrow, StoreTypeOK
<1>1. CASE register \/ \E a \in Addr : MakeAccount(a) \/ Accept(a)
  <2>1. UNCHANGED <<amount, owners, burnt, held, orders, opened, listed>>
    BY <1>1 DEF register, MakeAccount, Accept, accept, storeVars
  <2>2. cap[Store] = "lent" => cap'[Store] = "lent"
    BY <1>1, <1>t DEF register, MakeAccount, Accept, accept, make_account, NftTypeOK
  <2>3. Nft'
    BY <2>1 DEF Escrow, OwnerHolds, BurnIsFinal, Unowned, InHands
  <2>4. Sold'
    BY <2>1, <2>2 DEF Escrow, OrdersBacked, Lent, Open
  <2> QED BY <2>3, <2>4, <1>0 DEF Escrow
<1>2. ASSUME NEW t \in Tokens, burn(t) PROVE Escrow'
  <2>1. /\ owners[t] = Admin /\ held[Admin][t] = 1
        /\ \A a \in Addr : a # Admin => held[a][t] = 0
    BY <1>2, <1>t DEF burn, Escrow, OwnerHolds, NftTypeOK
  <2>2. /\ held' \in [Addr -> [Tokens -> Nat]]
        /\ \A a \in Addr : held'[a][t] = 0
        /\ \A a \in Addr, u \in Tokens : u # t => held'[a][u] = held[a][u]
        /\ owners' = owners /\ burnt' = burnt \cup {t}
        /\ cap' = cap
    BY <1>2, <1>t, <2>1 DEF burn, NftTypeOK
  <2>3. Nft'
    <3>1. OwnerHolds'
      <4> SUFFICES ASSUME NEW b \in Addr, NEW u \in Tokens, held'[b][u] > 0
                   PROVE  held'[b][u] = 1 /\ owners'[u] = b
        BY DEF OwnerHolds
      <4>1. u # t
        BY <2>2
      <4>2. held[b][u] > 0 => held[b][u] = 1 /\ owners[u] = b
        BY DEF Escrow, OwnerHolds
      <4> QED BY <2>2, <4>1, <4>2
    <3>2. BurnIsFinal'
      BY <2>1, <2>2 DEF Escrow, BurnIsFinal, InHands
    <3>3. Unowned'
      BY <2>1, <2>2 DEF Escrow, Unowned
    <3> QED BY <3>1, <3>2, <3>3
  <2>4. \A o \in Orders : Open(o) => o.token # t
    BY <2>1 DEF Escrow, OrdersBacked
  <2>5. Sold'
    BY <2>2, <2>4 DEF Escrow, OrdersBacked, Lent, Open, storeVars, Orders
  <2> QED BY <2>3, <2>5, <1>0 DEF Escrow
<1>3. ASSUME NEW t \in Tokens, NEW r \in Addr, mint(r, t) PROVE Escrow'
  <2>1. t \notin burnt /\ \A a \in Addr : held[a][t] = 0
    BY <1>3 DEF mint, Escrow, Unowned
  <2>2. /\ held' \in [Addr -> [Tokens -> Nat]]
        /\ \A a \in Addr : held'[a][t] = IF a = r THEN 1 ELSE 0
        /\ \A a \in Addr, u \in Tokens : u # t => held'[a][u] = held[a][u]
        /\ owners'[t] = r /\ \A u \in Tokens : u # t => owners'[u] = owners[u]
        /\ burnt' = burnt /\ cap' = cap
    BY <1>3, <1>t, <2>1 DEF mint, NftTypeOK
  <2>3. Nft'
    <3>1. OwnerHolds'
      <4> SUFFICES ASSUME NEW b \in Addr, NEW u \in Tokens, held'[b][u] > 0
                   PROVE  held'[b][u] = 1 /\ owners'[u] = b
        BY DEF OwnerHolds
      <4>1. CASE u = t
        <5>1. b = r
          BY <2>2, <4>1
        <5> QED BY <2>2, <4>1, <5>1
      <4>2. CASE u # t
        <5>1. held[b][u] > 0 => held[b][u] = 1 /\ owners[u] = b
          BY DEF Escrow, OwnerHolds
        <5> QED BY <2>2, <4>2, <5>1
      <4> QED BY <4>1, <4>2
    <3>2. BurnIsFinal'
      BY <2>1, <2>2 DEF Escrow, BurnIsFinal, InHands
    <3>3. Unowned'
      <4> SUFFICES ASSUME NEW u \in Tokens, owners'[u] = Nobody
                   PROVE  u \notin burnt' /\ \A a \in Addr : held'[a][u] = 0
        BY DEF Unowned
      <4>1. u # t
        BY <2>2
      <4> QED BY <2>2, <4>1 DEF Escrow, Unowned
    <3> QED BY <3>1, <3>2, <3>3
  <2>4. \A o \in Orders : Open(o) => o.token # t
    BY <2>1 DEF Escrow, OrdersBacked
  <2>5. Sold'
    BY <2>2, <2>4 DEF Escrow, OrdersBacked, Lent, Open, storeVars, Orders
  <2> QED BY <2>3, <2>5, <1>0 DEF Escrow
<1>4. ASSUME NEW t \in Tokens, NEW a \in Addr, NEW r \in Addr, Transfer(a, r, t)
      PROVE  Escrow'
  <2>1. pay_from(a, r, t) /\ cap[a] = "here" /\ UNCHANGED <<burnt, cap>>
    BY <1>4 DEF Transfer, transfer
  <2>2. /\ Nft'
        /\ \A b \in Addr, u \in Tokens : u # t => held'[b][u] = held[b][u]
    BY <2>1, PayKeeps
  <2>3. held[a][t] = 1 /\ owners[t] = a
    BY <2>1, <1>t DEF pay_from, Escrow, OwnerHolds, NftTypeOK
  <2>4. \A o \in Orders : Open(o) => o.token # t
    <3> SUFFICES ASSUME NEW o \in Orders, Open(o), o.token = t PROVE FALSE
      OBVIOUS
    <3>1. cap[Store] = "lent" /\ held[Store][t] = 1
      BY DEF Escrow, OrdersBacked, Lent
    <3>2. a = Store
      BY <3>1, <2>3 DEF Escrow, OwnerHolds
    <3> QED BY <3>1, <3>2, <2>1
  <2>5. Sold'
    BY <2>1, <2>2, <2>4 DEF Escrow, OrdersBacked, Lent, Open, storeVars, Orders
  <2> QED BY <2>2, <2>5, <1>0 DEF Escrow
<1> QED BY <1>1, <1>2, <1>3, <1>4 DEF NextNft

----------------------------------------------------------------------------
\* A step that leaves tokens, orders and the store's Configuration alone.
LEMMA QuietStep ==
  ASSUME Escrow, UNCHANGED <<owners, burnt, held, orders>>, StoreTypeOK',
         Lent'
  PROVE  Escrow'
<1>1. (OwnerHolds /\ BurnIsFinal /\ Unowned)'
  BY DEF Escrow, OwnerHolds, BurnIsFinal, Unowned, InHands
<1>2. OrdersBacked'
  BY DEF Escrow, OrdersBacked, Open
<1> QED BY <1>1, <1>2 DEF Escrow

\* accept_if_needed makes an account where there was none.
LEMMA AcceptTyped ==
  ASSUME Escrow, NEW a \in Addr, accept_if_needed(a)
  PROVE  /\ accepted \subseteq accepted' /\ accepted' \subseteq Addr /\ a \in accepted'
         /\ cap' \in [Addr -> {"absent", "here", "lent"}]
         /\ \A b \in Addr : cap[b] = "lent" => cap'[b] = "lent"
BY DEF Escrow, StoreTypeOK, NftTypeOK, accept_if_needed, accept, make_account

\* Removing the order of a token that is then paid out of the store.
LEMMA CloseOrder ==
  ASSUME Escrow, NEW o \in Orders, Open(o), orders' = Without(o),
         UNCHANGED <<opened, listed>>, cap[Store] = "lent" => cap'[Store] = "lent",
         \A a \in Addr, u \in Tokens : u # o.token => held'[a][u] = held[a][u]
  PROVE  orders' \in [Orders -> Nat] /\ OrdersBacked' /\ Lent'
<1> USE StoreAssumption
<1>1. orders \in [Orders -> Nat] /\ orders[o] = 1
  BY DEF Escrow, StoreTypeOK, OrdersBacked
<1>2. /\ orders' \in [Orders -> Nat] /\ orders'[o] = 0
      /\ \A p \in Orders : p # o => orders'[p] = orders[p]
  BY <1>1 DEF Without
<1>3. \A p \in Orders : Open(p)' => p # o /\ Open(p) /\ p.token # o.token
  BY <1>2 DEF Open, Escrow, OrdersBacked
<1>4. \A p \in Orders : p.token \in Tokens
  BY DEF Orders
<1>5. OrdersBacked'
  <2> SUFFICES ASSUME NEW p \in Orders, Open(p)'
               PROVE  /\ orders'[p] = 1 /\ held'[Store][p.token] = 1
                      /\ \A q \in Orders : Open(q)' /\ q.token = p.token => q = p
    BY DEF OrdersBacked, Open
  <2>1. Open(p) /\ p # o /\ p.token # o.token
    BY <1>3
  <2>2. orders[p] = 1 /\ held[Store][p.token] = 1
        /\ \A q \in Orders : Open(q) /\ q.token = p.token => q = p
    BY <2>1 DEF Escrow, OrdersBacked
  <2> QED BY <2>1, <2>2, <1>2, <1>3, <1>4
<1>6. Lent'
  BY <1>3 DEF Lent, Escrow, Open
<1> QED BY <1>2, <1>5, <1>6

\* Every call of the store keeps the inductive invariant.
LEMMA StoreStepEscrow ==
  ASSUME Escrow, StoreStep
  PROVE  Escrow'
<1> USE NftAssumption, StoreAssumption
<1>t. StoreTypeOK /\ NftTypeOK
  BY DEF Escrow, StoreTypeOK
<1>1. CASE Tick
  <2>1. StoreTypeOK'
    BY <1>1, <1>t DEF Tick, StoreTypeOK, NftTypeOK, nftVars
  <2>2. Lent'
    BY <1>1 DEF Tick, nftVars, Escrow, Lent, Open
  <2> QED BY <1>1, <2>1, <2>2, QuietStep DEF Tick, nftVars
<1>2. CASE initialize
  <2>1. StoreTypeOK'
    BY <1>2, <1>t DEF initialize, StoreTypeOK, NftTypeOK
  <2>2. cap'[Store] = "lent"
    BY <1>2, <1>t DEF initialize, NftTypeOK
  <2>3. Lent'
    BY <1>2, <2>2 DEF initialize, Escrow, Lent, Open
  <2> QED BY <1>2, <2>1, <2>3, QuietStep DEF initialize
<1>3. CASE register_nft
  <2>1. accept_if_needed(Store)
    BY <1>3 DEF register_nft
  <2>2. StoreTypeOK'
    BY <1>3, <1>t, <2>1, AcceptTyped DEF register_nft, StoreTypeOK, NftTypeOK
  <2>3. cap[Store] = "lent" => cap'[Store] = "lent"
    BY <2>1, AcceptTyped
  <2>4. Lent'
    BY <1>3, <2>3 DEF register_nft, Escrow, Lent, Open
  <2> QED BY <1>3, <2>2, <2>4, QuietStep DEF register_nft
<1>4. ASSUME NEW a \in Addr, accept_customer(a) PROVE Escrow'
  <2>1. accept_if_needed(a)
    BY <1>4 DEF accept_customer
  <2>2. StoreTypeOK'
    BY <1>4, <1>t, <2>1, AcceptTyped DEF accept_customer, StoreTypeOK, NftTypeOK
  <2>3. cap[Store] = "lent" => cap'[Store] = "lent"
    BY <2>1, AcceptTyped
  <2>4. Lent'
    BY <1>4, <2>3 DEF accept_customer, Escrow, Lent, Open
  <2> QED BY <1>4, <2>2, <2>4, QuietStep DEF accept_customer
<1>5. ASSUME NEW a \in Addr, NEW o \in Orders, revoke_order(a, o) PROVE Escrow'
  <2>1. /\ pay_from(Store, a, o.token) /\ orders' = Without(o) /\ Open(o)
        /\ UNCHANGED <<opened, listed, cap, burnt>> /\ o.token \in Tokens
    BY <1>5 DEF revoke_order, Listed, Open, Orders
  <2>2. /\ (OwnerHolds /\ BurnIsFinal /\ Unowned)'
        /\ held' \in [Addr -> [Tokens -> Nat]]
        /\ \A b \in Addr, u \in Tokens : u # o.token => held'[b][u] = held[b][u]
    BY <2>1, PayKeeps
  <2>3. orders' \in [Orders -> Nat] /\ OrdersBacked' /\ Lent'
    BY <2>1, <2>2, CloseOrder
  <2>4. owners' \in [Tokens -> Addr \cup {Nobody}]
    BY <2>1, <1>t DEF pay_from, NftTypeOK
  <2>5. StoreTypeOK'
    BY <1>5, <1>t, <2>2, <2>3, <2>4 DEF revoke_order, StoreTypeOK, NftTypeOK
  <2> QED BY <2>2, <2>3, <2>5 DEF Escrow
<1>6. ASSUME NEW a \in Addr, NEW o \in Orders, NEW c \in Currencies, trade_order(a, o, c)
      PROVE  Escrow'
  <2>1. /\ pay_from(Store, a, o.token) /\ orders' = Without(o) /\ Open(o)
        /\ accept_if_needed(a) /\ UNCHANGED <<opened, listed, burnt>>
        /\ o.token \in Tokens /\ o.price \in Prices /\ o.provider \in Addr
    BY <1>6 DEF trade_order, Listed, Open, Orders
  <2>2. /\ (OwnerHolds /\ BurnIsFinal /\ Unowned)'
        /\ held' \in [Addr -> [Tokens -> Nat]]
        /\ \A b \in Addr, u \in Tokens : u # o.token => held'[b][u] = held[b][u]
    BY <2>1, PayKeeps
  <2>a. /\ accepted \subseteq accepted' /\ accepted' \subseteq Addr /\ a \in accepted'
        /\ cap' \in [Addr -> {"absent", "here", "lent"}]
        /\ cap[Store] = "lent" => cap'[Store] = "lent"
    BY <2>1, AcceptTyped
  <2>3. orders' \in [Orders -> Nat] /\ OrdersBacked' /\ Lent'
    BY <2>1, <2>2, <2>a, CloseOrder
  <2>4. owners' \in [Tokens -> Addr \cup {Nobody}]
    BY <2>1, <1>t DEF pay_from, NftTypeOK
  <2>5. coin' \in [Addr -> [Currencies -> Nat]]
    <3> DEFINE fee == Fee(o.price)
               rev == Revenue(o.price)
               paid == CoinPay(coin, c, a, Store, fee)
    <3>1. coin \in [Addr -> [Currencies -> Nat]] /\ coin[a][c] \in Nat
      BY <1>t DEF StoreTypeOK
    <3>2. fee \in Nat /\ rev \in Nat /\ fee + rev = o.price /\ coin[a][c] > o.price
      <4>1. fee \in Nat /\ rev \in Int /\ fee + rev = o.price
        BY <2>1, FeeTyped
      <4>2. rev > 0 /\ coin[a][c] > o.price
        BY <1>6 DEF trade_order
      <4> HIDE DEF fee, rev
      <4> QED BY <4>1, <4>2
    <3>3. coin' = CoinPay(paid, c, a, o.provider, rev)
      BY <1>6 DEF trade_order
    <3> HIDE DEF fee, rev
    <3>4. coin[a][c] >= fee /\ o.price \in Nat
      BY <3>1, <3>2, <2>1
    <3>5. paid \in [Addr -> [Currencies -> Nat]] /\ paid[a][c] >= coin[a][c] - fee
      BY <3>1, <3>2, <3>4, CoinPayTyped
    <3> HIDE DEF paid
    <3>6. paid[a][c] \in Nat
      BY <3>5
    <3>7. paid[a][c] >= rev
      BY <3>1, <3>2, <3>4, <3>5, <3>6
    <3> QED BY <2>1, <3>2, <3>3, <3>5, <3>7, CoinPayTyped
  <2>6. StoreTypeOK'
    BY <1>6, <1>t, <2>a, <2>2, <2>3, <2>4, <2>5 DEF trade_order, StoreTypeOK, NftTypeOK
  <2> QED BY <2>2, <2>3, <2>6 DEF Escrow
<1>7. ASSUME NEW a \in Addr, NEW t \in Tokens, NEW p \in Prices, NEW c \in Currencies,
             make_order(a, t, p, c)
      PROVE  Escrow'
  <2> DEFINE o == [token |-> t, price |-> p, currency |-> c, provider |-> a, timestamp |-> now]
  <2>0. o \in Orders /\ o.token = t
    BY <1>t DEF Orders, StoreTypeOK
  <2>1. /\ pay_from(a, Store, t) /\ a # Store /\ cap[a] = "here" /\ a \in accepted
        /\ orders' = [orders EXCEPT ![o] = @ + 1]
        /\ UNCHANGED <<burnt, cap, opened, listed>> /\ listed
    BY <1>7 DEF make_order, transfer, pay_from
  <2>2. /\ (OwnerHolds /\ BurnIsFinal /\ Unowned)'
        /\ held' \in [Addr -> [Tokens -> Nat]]
        /\ \A b \in Addr, u \in Tokens : u # t => held'[b][u] = held[b][u]
        /\ held'[Store][t] = 1
    BY <2>1, PayKeeps
  <2>3. held[a][t] = 1 /\ held[Store][t] = 0
    BY <2>1, <1>t DEF pay_from, Escrow, OwnerHolds, NftTypeOK
  <2>4. \A q \in Orders : Open(q) => q.token # t
    BY <2>3 DEF Escrow, OrdersBacked
  <2>5. orders \in [Orders -> Nat] /\ orders[o] = 0
    BY <2>0, <2>4, <1>t DEF StoreTypeOK, Open
  <2>6. /\ orders' \in [Orders -> Nat] /\ orders'[o] = 1
        /\ \A q \in Orders : q # o => orders'[q] = orders[q]
    BY <2>0, <2>1, <2>5
  <2> HIDE DEF o
  <2>7. OrdersBacked'
    <3> SUFFICES ASSUME NEW q \in Orders, Open(q)'
                 PROVE  /\ orders'[q] = 1 /\ held'[Store][q.token] = 1
                        /\ \A r \in Orders : Open(r)' /\ r.token = q.token => r = q
      BY DEF OrdersBacked, Open
    <3>1. \A r \in Orders : Open(r)' /\ r # o => Open(r) /\ r.token # t
      BY <2>4, <2>6 DEF Open
    <3>2. CASE q = o
      BY <3>1, <3>2, <2>0, <2>2, <2>6
    <3>3. CASE q # o
      <4>1. Open(q) /\ q.token # t /\ q.token \in Tokens
        BY <3>1, <3>3 DEF Orders
      <4>2. orders[q] = 1 /\ held[Store][q.token] = 1
            /\ \A r \in Orders : Open(r) /\ r.token = q.token => r = q
        BY <4>1 DEF Escrow, OrdersBacked
      <4> QED BY <3>1, <3>3, <4>1, <4>2, <2>0, <2>2, <2>6
    <3> QED BY <3>2, <3>3
  <2>8. Lent'
    BY <2>1 DEF Escrow, Lent
  <2>9. StoreTypeOK'
    <3>1. owners' \in [Tokens -> Addr \cup {Nobody}]
      BY <2>1, <1>t DEF pay_from, NftTypeOK
    <3> QED BY <1>7, <1>t, <2>1, <2>2, <2>6, <3>1 DEF make_order, StoreTypeOK, NftTypeOK
  <2> QED BY <2>2, <2>7, <2>8, <2>9 DEF Escrow
<1> QED BY <1>1, <1>2, <1>3, <1>4, <1>5, <1>6, <1>7 DEF StoreStep

----------------------------------------------------------------------------
\* Escrow is an invariant of the store whenever the administrator of the NFT
\* is not the store itself, who could burn a token on sale.
LEMMA EscrowInvariant == Admin # Store /\ StoreSpec => []Escrow
<1> SUFFICES ASSUME Admin # Store PROVE StoreSpec => []Escrow
  OBVIOUS
<1>1. Init => Escrow
  BY InitEscrow
<1>2. Escrow /\ [Next]_vars => Escrow'
  <2> SUFFICES ASSUME Escrow, [Next]_vars PROVE Escrow'
    OBVIOUS
  <2>1. CASE NextNft /\ UNCHANGED storeVars
    BY <2>1, NftStepEscrow
  <2>2. CASE StoreStep
    BY <2>2, StoreStepEscrow
  <2>3. CASE UNCHANGED vars
    <3>1. StoreTypeOK' /\ Lent'
      BY <2>3 DEF vars, nftVars, storeVars, Escrow, StoreTypeOK, NftTypeOK, Lent, Open
    <3> QED BY <2>3, <3>1, QuietStep DEF vars, nftVars, storeVars
  <2> QED BY <2>1, <2>2, <2>3 DEF Next
<1> QED BY <1>1, <1>2, PTL DEF StoreSpec

\* Every order of the store has its token in escrow, and only one order.
THEOREM OrdersAreBacked == Admin # Store /\ StoreSpec => []OrdersBacked
<1>1. Escrow => OrdersBacked
  BY DEF Escrow
<1> QED BY <1>1, EscrowInvariant, PTL

\* The map of owners names the account that holds a token.
THEOREM OwnerIsHolder == Admin # Store /\ StoreSpec => []OwnerHolds
<1>1. Escrow => OwnerHolds
  BY DEF Escrow
<1> QED BY <1>1, EscrowInvariant, PTL

\* The state keeps its type: no balance of a coin becomes negative and the
\* amount stays within the total.
THEOREM StoreTyped == Admin # Store /\ StoreSpec => []StoreTypeOK
<1>1. Escrow => StoreTypeOK
  BY DEF Escrow
<1> QED BY <1>1, EscrowInvariant, PTL

\* burn leaves the id in the map of owners, and mint refuses an id that is
\* there: a burnt token is never in anybody's hands again.
THEOREM BurntStaysBurnt == Admin # Store /\ StoreSpec => []BurnIsFinal
<1>1. Escrow => BurnIsFinal
  BY DEF Escrow
<1> QED BY <1>1, EscrowInvariant, PTL

----------------------------------------------------------------------------
(***************************************************************************)
(* What Escrow makes provable of the steps: that they implement            *)
(* TokenLedger, how an order ends, and that the amount of the NFT's        *)
(* Configuration counts the tokens in accounts.                            *)
(***************************************************************************)
Offer(o) == [is |-> "offered", owner |-> o.provider, price |-> o.price]

\* The status of a token by cases: on sale, in somebody's hands, or not.
StatusByCase ==
  \A t \in Tokens :
    /\ \A o \in Orders : Open(o) /\ o.token = t => Status(t) = Offer(o)
    /\ \A a \in Addr :
         held[a][t] > 0 /\ (\A o \in Orders : Open(o) => o.token # t)
           => Status(t) = [is |-> "free", owner |-> a]
    /\ (\A a \in Addr : held[a][t] = 0) =>
         Status(t) = IF t \in burnt THEN [is |-> "burnt"] ELSE [is |-> "unborn"]

LEMMA StatusIs == Escrow => StatusByCase
<1> SUFFICES ASSUME Escrow, NEW t \in Tokens
             PROVE  /\ \A o \in Orders : Open(o) /\ o.token = t => Status(t) = Offer(o)
                    /\ \A a \in Addr :
                         held[a][t] > 0 /\ (\A o \in Orders : Open(o) => o.token # t)
                           => Status(t) = [is |-> "free", owner |-> a]
                    /\ (\A a \in Addr : held[a][t] = 0) =>
                         Status(t) = IF t \in burnt THEN [is |-> "burnt"]
                                                    ELSE [is |-> "unborn"]
  BY DEF StatusByCase
<1>1. ASSUME NEW o \in Orders, Open(o), o.token = t PROVE Status(t) = Offer(o)
  <2>1. held[Store][t] > 0 /\ OffersOf(t) = {o}
    BY <1>1 DEF Escrow, OrdersBacked, OffersOf
  <2>2. (CHOOSE p \in OffersOf(t) : TRUE) = o
    BY <2>1
  <2> QED BY <2>1, <2>2 DEF Status, Offer
<1>2. ASSUME NEW a \in Addr, held[a][t] > 0, \A o \in Orders : Open(o) => o.token # t
      PROVE  Status(t) = [is |-> "free", owner |-> a]
  <2>1. OffersOf(t) = {} /\ t \in InHands /\ owners[t] = a
    BY <1>2 DEF OffersOf, InHands, Escrow, OwnerHolds
  <2> QED BY <2>1 DEF Status
<1>3. ASSUME \A a \in Addr : held[a][t] = 0
      PROVE  Status(t) = IF t \in burnt THEN [is |-> "burnt"] ELSE [is |-> "unborn"]
  <2>1. t \notin InHands /\ ~(held[Store][t] > 0)
    BY <1>3, StoreAssumption DEF InHands
  <2> QED BY <2>1 DEF Status
<1> QED BY <1>1, <1>2, <1>3

\* A token that a step does not touch keeps its status.
LEMMA SameStatus ==
  ASSUME NEW u \in Tokens,
         \A a \in Addr : held'[a][u] = held[a][u], owners'[u] = owners[u],
         u \in burnt' <=> u \in burnt,
         \A o \in Orders : o.token = u => orders'[o] = orders[o]
  PROVE  Status(u)' = Status(u)
<1>1. OffersOf(u)' = OffersOf(u)
  BY DEF OffersOf, Open
<1>2. (u \in InHands)' <=> u \in InHands
  BY DEF InHands
<1> QED BY <1>1, <1>2, StoreAssumption DEF Status

Entries == [t \in Tokens |-> Status(t)]

\* A step that takes one token from one status to another is one of the ledger.
LEMMA OneTurn ==
  ASSUME NEW t \in Tokens, Ledger!Turn(Status(t), Status(t)'),
         \A u \in Tokens : u # t => Status(u)' = Status(u)
  PROVE  Ledger!LedgerNext
BY DEF Ledger!LedgerNext

\* A step that touches no token is a stutter of the ledger.
LEMMA NoTurn ==
  ASSUME UNCHANGED <<held, owners, burnt, orders>>
  PROVE  Entries' = Entries
BY SameStatus DEF Entries

\* Every call of the NFT module is a step of the ledger, or a stutter.
LEMMA NftStepRefines ==
  ASSUME Escrow, Escrow', NextNft, UNCHANGED storeVars, Admin # Store
  PROVE  Ledger!LedgerNext \/ Entries' = Entries
<1>t. StoreTypeOK /\ NftTypeOK /\ StatusByCase
  BY StatusIs DEF Escrow, StoreTypeOK
<1>n. StatusByCase'
  BY StatusIs, PTL
<1>1. CASE register \/ \E a \in Addr : MakeAccount(a) \/ Accept(a)
  BY <1>1, NoTurn DEF register, MakeAccount, Accept, accept, storeVars
<1>2. ASSUME NEW t \in Tokens, burn(t) PROVE Ledger!LedgerNext
  <2>1. held[Admin][t] > 0 /\ \A a \in Addr : held[a][t] > 0 => a = Admin
    BY <1>2, NftAssumption DEF burn, Escrow, OwnerHolds
  <2>2. \A o \in Orders : Open(o) => o.token # t
    BY <2>1, StoreAssumption DEF Escrow, OrdersBacked
  <2>3. Status(t) = [is |-> "free", owner |-> Admin]
    BY <2>1, <2>2, <1>t, NftAssumption DEF StatusByCase
  <2>4. t \in burnt' /\ \A a \in Addr : held'[a][t] = 0
    <3>1. t \in burnt' /\ held' = [held EXCEPT ![Admin][t] = @ - 1]
      BY <1>2 DEF burn
    <3>2. held[Admin][t] = 1 /\ \A a \in Addr : a # Admin => held[a][t] = 0
      BY <2>1, <1>t, NftAssumption DEF Escrow, OwnerHolds, NftTypeOK
    <3> QED BY <3>1, <3>2, <1>t, NftAssumption DEF NftTypeOK
  <2>5. Status(t)' = [is |-> "burnt"]
    BY <2>4, <1>n DEF StatusByCase
  <2>6. ASSUME NEW u \in Tokens, u # t PROVE Status(u)' = Status(u)
    <3>1. \A a \in Addr : held'[a][u] = held[a][u]
      BY <1>2, <2>6, <1>t, NftAssumption DEF burn, NftTypeOK
    <3>2. owners' = owners /\ orders' = orders /\ (u \in burnt' <=> u \in burnt)
      BY <1>2, <2>6 DEF burn, storeVars
    <3> QED BY <3>1, <3>2, SameStatus
  <2>7. Ledger!Turn(Status(t), Status(t)')
    BY <2>3, <2>5 DEF Ledger!Turn, Ledger!Free, Ledger!Burnt
  <2> QED BY <2>6, <2>7, OneTurn
<1>3. ASSUME NEW t \in Tokens, NEW r \in Addr, mint(r, t) PROVE Ledger!LedgerNext
  <2>1. t \notin burnt /\ \A a \in Addr : held[a][t] = 0
    BY <1>3 DEF mint, Escrow, Unowned
  <2>2. \A o \in Orders : Open(o)' => o.token # t
    BY <2>1, StoreAssumption DEF Escrow, OrdersBacked, storeVars, Open
  <2>3. Status(t) = [is |-> "unborn"]
    BY <2>1, <1>t DEF StatusByCase
  <2>4. held'[r][t] > 0
    BY <1>3, <2>1, <1>t DEF mint, NftTypeOK
  <2>5. Status(t)' = [is |-> "free", owner |-> r]
    BY <2>2, <2>4, <1>n DEF StatusByCase
  <2>6. ASSUME NEW u \in Tokens, u # t PROVE Status(u)' = Status(u)
    <3>1. \A a \in Addr : held'[a][u] = held[a][u]
      BY <1>3, <2>6, <1>t DEF mint, NftTypeOK
    <3>2. owners'[u] = owners[u] /\ orders' = orders /\ burnt' = burnt
      BY <1>3, <2>6, <1>t DEF mint, storeVars, NftTypeOK
    <3> QED BY <3>1, <3>2, SameStatus
  <2>7. Ledger!Turn(Status(t), Status(t)')
    BY <2>3, <2>5 DEF Ledger!Turn, Ledger!Free
  <2> QED BY <2>6, <2>7, OneTurn
<1>4. ASSUME NEW t \in Tokens, NEW a \in Addr, NEW r \in Addr, Transfer(a, r, t)
      PROVE  Ledger!LedgerNext
  <2>1. /\ pay_from(a, r, t) /\ a # r /\ cap[a] = "here" /\ held[a][t] > 0
        /\ UNCHANGED <<burnt, orders>>
    BY <1>4 DEF Transfer, transfer, pay_from, storeVars
  <2>2. /\ held'[r][t] = 1
        /\ \A b \in Addr, u \in Tokens : u # t => held'[b][u] = held[b][u]
    BY <2>1, PayKeeps
  <2>3. \A o \in Orders : Open(o) => o.token # t
    BY <2>1, StoreAssumption DEF Escrow, OrdersBacked, OwnerHolds, Lent
  <2>4. Status(t) = [is |-> "free", owner |-> a]
    BY <2>1, <2>3, <1>t DEF StatusByCase
  <2>5. Status(t)' = [is |-> "free", owner |-> r]
    BY <2>1, <2>2, <2>3, <1>n DEF StatusByCase, Open
  <2>6. ASSUME NEW u \in Tokens, u # t PROVE Status(u)' = Status(u)
    <3>1. owners'[u] = owners[u]
      BY <2>1, <2>6, <1>t DEF pay_from, NftTypeOK
    <3> QED BY <2>1, <2>2, <2>6, <3>1, SameStatus
  <2>7. Ledger!Turn(Status(t), Status(t)')
    BY <2>4, <2>5 DEF Ledger!Turn, Ledger!Free
  <2> QED BY <2>6, <2>7, OneTurn
<1> QED BY <1>1, <1>2, <1>3, <1>4 DEF NextNft

\* The end of an order: its token, paid out of the store to a, is a's.
LEMMA SaleRefines ==
  ASSUME Escrow, Escrow', NEW o \in Orders, Open(o), orders' = Without(o), UNCHANGED burnt,
         NEW a \in Addr, pay_from(Store, a, o.token)
  PROVE  Ledger!LedgerNext
<1>t. StoreTypeOK /\ NftTypeOK /\ StatusByCase
  BY StatusIs DEF Escrow, StoreTypeOK
<1>n. StatusByCase'
  BY StatusIs, PTL
<1> DEFINE t == o.token
<1>0. t \in Tokens
  BY DEF Orders
<1>1. Status(t) = Offer(o)
  BY <1>0, <1>t DEF StatusByCase
<1>2. /\ \A u \in Orders : u # o => orders'[u] = orders[u]
      /\ \A u \in Orders : Open(u)' => u.token # t
  <2>1. orders[o] = 1 /\ \A p \in Orders : Open(p) /\ p.token = t => p = o
    BY DEF Escrow, OrdersBacked
  <2>2. orders'[o] = 0 /\ \A u \in Orders : u # o => orders'[u] = orders[u]
    BY <2>1, <1>t DEF Without, StoreTypeOK
  <2> QED BY <2>1, <2>2 DEF Open
<1>3. /\ held'[a][t] > 0
      /\ \A b \in Addr, u \in Tokens : u # t => held'[b][u] = held[b][u]
  <2>1. /\ \A b \in Addr, u \in Tokens : u # t => held'[b][u] = held[b][u]
        /\ Store # a => held'[a][t] = 1
    BY <1>0, StoreAssumption, PayKeeps
  <2>2. Store = a => held' = held /\ held[Store][t] = 1
    BY DEF pay_from, Escrow, OrdersBacked
  <2> QED BY <2>1, <2>2
<1>4. Status(t)' = [is |-> "free", owner |-> a]
  BY <1>0, <1>2, <1>3, <1>n DEF StatusByCase
<1>5. ASSUME NEW u \in Tokens, u # t PROVE Status(u)' = Status(u)
  <2>1. owners'[u] = owners[u]
    BY <1>5, <1>t DEF pay_from, NftTypeOK
  <2> QED BY <2>1, <1>2, <1>3, <1>5, SameStatus
<1>6. Ledger!Turn(Status(t), Status(t)')
  BY <1>1, <1>4 DEF Ledger!Turn, Ledger!Free, Offer
<1> QED BY <1>0, <1>5, <1>6, OneTurn

\* Every call of the store is a step of the ledger, or a stutter.
LEMMA StoreStepRefines ==
  ASSUME Escrow, Escrow', StoreStep
  PROVE  Ledger!LedgerNext \/ Entries' = Entries
<1>t. StoreTypeOK /\ NftTypeOK /\ StatusByCase
  BY StatusIs DEF Escrow, StoreTypeOK
<1>n. StatusByCase'
  BY StatusIs, PTL
<1>1. CASE Tick \/ initialize \/ register_nft \/ \E a \in Addr : accept_customer(a)
  BY <1>1, NoTurn DEF Tick, initialize, register_nft, accept_customer, nftVars
<1>2. ASSUME NEW a \in Addr, NEW o \in Orders, revoke_order(a, o) PROVE Ledger!LedgerNext
  BY <1>2, SaleRefines DEF revoke_order, Listed, Open
<1>3. ASSUME NEW a \in Addr, NEW o \in Orders, NEW c \in Currencies, trade_order(a, o, c)
      PROVE  Ledger!LedgerNext
  BY <1>3, SaleRefines DEF trade_order, Listed, Open
<1>4. ASSUME NEW a \in Addr, NEW t \in Tokens, NEW p \in Prices, NEW c \in Currencies,
             make_order(a, t, p, c)
      PROVE  Ledger!LedgerNext
  <2> DEFINE o == [token |-> t, price |-> p, currency |-> c, provider |-> a, timestamp |-> now]
  <2>0. o \in Orders /\ o.token = t /\ Offer(o) = [is |-> "offered", owner |-> a, price |-> p]
    BY <1>t DEF Orders, StoreTypeOK, Offer
  <2>1. /\ pay_from(a, Store, t) /\ a # Store /\ held[a][t] > 0
        /\ orders' = [orders EXCEPT ![o] = @ + 1] /\ UNCHANGED burnt
    BY <1>4 DEF make_order, transfer, pay_from
  <2> HIDE DEF o
  <2>2. \A b \in Addr, u \in Tokens : u # t => held'[b][u] = held[b][u]
    BY <2>1, StoreAssumption, PayKeeps
  <2>3. \A q \in Orders : Open(q) => q.token # t
    BY <2>1, StoreAssumption DEF Escrow, OrdersBacked, OwnerHolds
  <2>4. Status(t) = [is |-> "free", owner |-> a]
    BY <2>1, <2>3, <1>t DEF StatusByCase
  <2>5. orders'[o] > 0 /\ \A q \in Orders : q # o => orders'[q] = orders[q]
    BY <2>0, <2>1, <1>t DEF StoreTypeOK
  <2>6. Status(t)' = [is |-> "offered", owner |-> a, price |-> p]
    BY <2>0, <2>5, <1>n DEF StatusByCase, Open
  <2>7. ASSUME NEW u \in Tokens, u # t PROVE Status(u)' = Status(u)
    <3>1. owners'[u] = owners[u]
      BY <2>1, <2>7, <1>t DEF pay_from, NftTypeOK
    <3> QED BY <3>1, <2>0, <2>1, <2>2, <2>5, <2>7, SameStatus
  <2>8. Ledger!Turn(Status(t), Status(t)')
    BY <2>4, <2>6 DEF Ledger!Turn, Ledger!Offered
  <2> QED BY <2>7, <2>8, OneTurn
<1> QED BY <1>1, <1>2, <1>3, <1>4 DEF StoreStep

\* NonFungibleToken and NftStore2 implement TokenLedger: whatever the number of
\* accounts, tokens and orders, each transaction moves one token, from one
\* status to another that the ledger lets follow it, or none.
THEOREM StoreImplementsLedger == Admin # Store /\ StoreSpec => ImplementsLedger
<1> SUFFICES ASSUME Admin # Store PROVE StoreSpec => Ledger!LedgerSpec
  BY DEF ImplementsLedger
<1>1. Init => Ledger!LedgerInit
  <2> SUFFICES ASSUME Init PROVE \A t \in Tokens : Status(t) = [is |-> "unborn"]
    BY DEF Ledger!LedgerInit, Ledger!Unborn
  <2>1. StatusByCase
    BY InitEscrow, StatusIs
  <2> QED BY <2>1 DEF StatusByCase, Init, InitNft
<1>2. Escrow /\ Escrow' /\ [Next]_vars => [Ledger!LedgerNext]_Entries
  <2> SUFFICES ASSUME Escrow, Escrow', [Next]_vars
               PROVE  Ledger!LedgerNext \/ Entries' = Entries
    OBVIOUS
  <2>1. CASE NextNft /\ UNCHANGED storeVars
    BY <2>1, NftStepRefines
  <2>2. CASE StoreStep
    BY <2>2, StoreStepRefines
  <2>3. CASE UNCHANGED vars
    BY <2>3, NoTurn DEF vars, nftVars, storeVars
  <2> QED BY <2>1, <2>2, <2>3 DEF Next
<1>3. StoreSpec => []Escrow
  BY EscrowInvariant
<1> QED BY <1>1, <1>2, <1>3, PTL DEF StoreSpec, Ledger!LedgerSpec, Entries

----------------------------------------------------------------------------
\* Nobody has an order of the store itself: make_order's transfer is refused.
Sellers == \A o \in Orders : Open(o) => o.provider # Store

LEMMA StepSellers ==
  ASSUME Escrow, Sellers, [Next]_vars
  PROVE  Sellers'
<1>t. orders \in [Orders -> Nat] /\ now \in 0 .. MaxTime
  BY DEF Escrow, StoreTypeOK
<1>1. ASSUME UNCHANGED orders PROVE Sellers'
  BY <1>1 DEF Sellers, Open
<1>2. ASSUME NEW o \in Orders, orders' = Without(o) PROVE Sellers'
  <2>1. \A p \in Orders : orders'[p] > 0 => orders[p] > 0
    BY <1>2, <1>t DEF Without
  <2> QED BY <2>1 DEF Sellers, Open
<1>3. ASSUME NEW a \in Addr, NEW t \in Tokens, NEW p \in Prices, NEW c \in Currencies,
             make_order(a, t, p, c)
      PROVE  Sellers'
  <2> DEFINE o == [token |-> t, price |-> p, currency |-> c, provider |-> a, timestamp |-> now]
  <2>1. a # Store /\ orders' = [orders EXCEPT ![o] = @ + 1]
    BY <1>3 DEF make_order, transfer
  <2>2. o \in Orders /\ o.provider = a
    BY <1>t DEF Orders
  <2> HIDE DEF o
  <2>3. \A q \in Orders : q # o => orders'[q] = orders[q]
    BY <2>1, <2>2, <1>t
  <2> QED BY <2>1, <2>2, <2>3 DEF Sellers, Open
<1>4. CASE NextNft /\ UNCHANGED storeVars
  BY <1>4, <1>1 DEF storeVars
<1>5. CASE StoreStep
  BY <1>5, <1>1, <1>2, <1>3
  DEF StoreStep, Tick, initialize, register_nft, accept_customer, revoke_order, trade_order
<1>6. CASE UNCHANGED vars
  BY <1>6, <1>1 DEF vars, storeVars
<1> QED BY <1>4, <1>5, <1>6 DEF Next

\* What the coins and the token of an order are after the step that ends it.
EndsWell(o) ==
  \/ /\ owners'[o.token] = o.provider
     /\ \A c \in Currencies : coin'[o.provider][c] <= coin[o.provider][c]
  \/ /\ owners'[o.token] # o.provider
     /\ \E c \in Currencies :
          coin'[o.provider] = [coin[o.provider] EXCEPT ![c] = @ + Revenue(o.price)]

LEMMA TradeEndsWell ==
  ASSUME Escrow, Sellers, NEW a \in Addr, NEW o \in Orders, NEW c \in Currencies,
         trade_order(a, o, c)
  PROVE  EndsWell(o)
<1> DEFINE s    == o.provider
           fee  == Fee(o.price)
           rev  == Revenue(o.price)
           paid == CoinPay(coin, c, a, Store, fee)
<1>1. s \in Addr /\ s # Store /\ o.token \in Tokens /\ fee \in Nat /\ rev \in Int
  BY FeeTyped DEF Orders, Sellers, trade_order, Listed, Open
<1>2. coin \in [Addr -> [Currencies -> Nat]] /\ owners \in [Tokens -> Addr \cup {Nobody}]
  BY DEF Escrow, StoreTypeOK, NftTypeOK
<1>3. coin' = CoinPay(paid, c, a, s, rev) /\ owners'[o.token] = a
  BY <1>1, <1>2 DEF trade_order, pay_from
<1> HIDE DEF fee, rev
<1>4. coin[s] \in [Currencies -> Int]
  BY <1>1, <1>2
<1>5. /\ paid[s] \in [Currencies -> Int]
      /\ \A e \in Currencies : e # c => paid[s][e] = coin[s][e]
      /\ paid[s][c] = coin[s][c] - (IF s = a THEN fee ELSE 0)
  <2>1. paid[s] = [coin[s] EXCEPT ![c] = @ + (IF s = Store THEN fee ELSE 0)
                                           - (IF s = a THEN fee ELSE 0)]
    BY <1>1 DEF CoinPay
  <2> HIDE DEF paid
  <2> QED BY <2>1, <1>1, <1>4
<1> HIDE DEF paid
<1>6. /\ coin'[s] \in [Currencies -> Int]
      /\ \A e \in Currencies : e # c => coin'[s][e] = coin[s][e]
      /\ coin'[s][c] = paid[s][c] + rev - (IF s = a THEN rev ELSE 0)
  <2>1. coin'[s] = [paid[s] EXCEPT ![c] = @ + (IF s = s THEN rev ELSE 0)
                                            - (IF s = a THEN rev ELSE 0)]
    BY <1>1, <1>3 DEF CoinPay
  <2> QED BY <2>1, <1>1, <1>5
<1>7. CASE s = a
  <2>1. coin'[s][c] = coin[s][c] - fee /\ coin[s][c] \in Int
    BY <1>1, <1>4, <1>5, <1>6, <1>7
  <2>2. \A e \in Currencies : coin'[s][e] <= coin[s][e]
    BY <2>1, <1>1, <1>4, <1>6
  <2> QED BY <2>2, <1>3, <1>7 DEF EndsWell
<1>8. CASE s # a
  <2>1. coin'[s][c] = coin[s][c] + rev
    BY <1>1, <1>4, <1>5, <1>6, <1>8
  <2>2. coin'[s] = [coin[s] EXCEPT ![c] = @ + rev]
    BY <2>1, <1>4, <1>6
  <2> QED BY <2>2, <1>3, <1>8 DEF EndsWell, rev
<1> QED BY <1>7, <1>8

LEMMA StepEndsWell ==
  ASSUME Escrow, Sellers, [Next]_vars, NEW o \in Orders, Open(o), ~Open(o)'
  PROVE  EndsWell(o)
<1>t. orders \in [Orders -> Nat] /\ now \in 0 .. MaxTime
  BY DEF Escrow, StoreTypeOK
<1>1. ~UNCHANGED orders
  BY DEF Open
<1>2. ~(NextNft /\ UNCHANGED storeVars) /\ ~UNCHANGED vars
  BY <1>1 DEF storeVars, vars
<1>3. StoreStep
  BY <1>2 DEF Next
<1>4. ASSUME NEW p \in Orders, orders' = Without(p) PROVE p = o
  BY <1>4, <1>t DEF Without, Open
<1>5. ASSUME NEW a \in Addr, NEW p \in Orders, revoke_order(a, p) PROVE EndsWell(o)
  <2>1. p = o /\ a = o.provider /\ coin' = coin /\ pay_from(Store, a, p.token)
    BY <1>5, <1>4 DEF revoke_order
  <2>2. owners'[o.token] = o.provider
    BY <2>1 DEF pay_from, Escrow, StoreTypeOK, NftTypeOK, Orders
  <2>3. coin[o.provider] \in [Currencies -> Nat]
    BY DEF Escrow, StoreTypeOK, Orders
  <2>4. \A c \in Currencies : coin'[o.provider][c] <= coin[o.provider][c]
    BY <2>1, <2>3
  <2> QED BY <2>2, <2>4 DEF EndsWell
<1>6. ASSUME NEW a \in Addr, NEW p \in Orders, NEW c \in Currencies, trade_order(a, p, c)
      PROVE  EndsWell(o)
  <2>1. p = o
    BY <1>6, <1>4 DEF trade_order
  <2> QED BY <1>6, <2>1, TradeEndsWell
<1>7. ASSUME NEW a \in Addr, NEW t \in Tokens, NEW p \in Prices, NEW c \in Currencies,
             make_order(a, t, p, c)
      PROVE  FALSE
  <2> DEFINE q == [token |-> t, price |-> p, currency |-> c, provider |-> a, timestamp |-> now]
  <2>1. orders' = [orders EXCEPT ![q] = @ + 1] /\ q \in Orders
    BY <1>7, <1>t DEF make_order, Orders
  <2> HIDE DEF q
  <2> QED BY <2>1, <1>t DEF Open
<1> QED BY <1>1, <1>3, <1>5, <1>6, <1>7
        DEF StoreStep, Tick, initialize, register_nft, accept_customer

\* A seller's order ends with the token back, or with the price less the fee in
\* the currency the buyer chose, which trade_order does not compare with the
\* one the order asks for.
THEOREM OrdersEndWell == Admin # Store /\ StoreSpec => OrderEndsWell
<1> SUFFICES ASSUME Admin # Store PROVE StoreSpec => OrderEndsWell
  OBVIOUS
<1>1. Init => Sellers
  BY DEF Init, Sellers, Open
<1>2. Escrow /\ Sellers /\ [Next]_vars => Sellers'
  BY StepSellers
<1>3. StoreSpec => []Escrow
  BY EscrowInvariant
<1>4. Escrow /\ Sellers /\ [Next]_vars =>
        [\A o \in Orders : Open(o) /\ ~Open(o)' => EndsWell(o)]_vars
  BY StepEndsWell
<1> QED BY <1>1, <1>2, <1>3, <1>4, PTL DEF StoreSpec, OrderEndsWell, EndsWell

----------------------------------------------------------------------------
\* The conditions of revoke_order for the seller of order o, on the state before
\* it: the rest of it only says what the step leaves behind.
MayRevoke(o) ==
  /\ Listed(o) /\ o.provider \in customers /\ opened
  /\ o.provider \in accepted /\ Store \in accepted /\ registered
  /\ held[Store][o.token] > 0 /\ owners[o.token] # Nobody

RevokeReady == \A o \in Orders : Open(o) => MayRevoke(o)

\* Not inductive: that the accounts revoke_order looks up exist is settled when
\* the store is opened for the NFT and when the order is made.
Admitted ==
  /\ listed => registered /\ Store \in accepted
  /\ \A o \in Orders : Open(o) => o.provider \in customers

LEMMA StepAdmitted ==
  ASSUME Escrow, Admitted, [Next]_vars
  PROVE  Admitted'
<1>t. orders \in [Orders -> Nat] /\ now \in 0 .. MaxTime
  BY DEF Escrow, StoreTypeOK
<1>a. ASSUME NEW a \in Addr, accept_if_needed(a) PROVE accepted \subseteq accepted' /\ a \in accepted'
  BY <1>a DEF accept_if_needed, accept
<1>1. ASSUME UNCHANGED orders, UNCHANGED listed, registered => registered',
             accepted \subseteq accepted', customers \subseteq customers'
      PROVE  Admitted'
  BY <1>1 DEF Admitted, Open
<1>2. ASSUME NEW o \in Orders, orders' = Without(o), UNCHANGED <<listed, registered>>,
             accepted \subseteq accepted', customers \subseteq customers'
      PROVE  Admitted'
  <2>1. \A p \in Orders : orders'[p] > 0 => orders[p] > 0
    BY <1>2, <1>t DEF Without
  <2> QED BY <1>2, <2>1 DEF Admitted, Open
<1>3. ASSUME NEW a \in Addr, NEW t \in Tokens, NEW p \in Prices, NEW c \in Currencies,
             make_order(a, t, p, c)
      PROVE  Admitted'
  <2> DEFINE o == [token |-> t, price |-> p, currency |-> c, provider |-> a, timestamp |-> now]
  <2>1. /\ orders' = [orders EXCEPT ![o] = @ + 1] /\ customers' = customers \cup {a}
        /\ UNCHANGED <<listed, registered, accepted>>
    BY <1>3 DEF make_order
  <2>2. o \in Orders /\ o.provider = a
    BY <1>t DEF Orders
  <2> HIDE DEF o
  <2>3. \A q \in Orders : q # o => orders'[q] = orders[q]
    BY <2>1, <2>2, <1>t
  <2> QED BY <2>1, <2>2, <2>3 DEF Admitted, Open
<1>4. CASE NextNft /\ UNCHANGED storeVars
  <2>1. (registered => registered') /\ accepted \subseteq accepted'
    BY <1>4 DEF NextNft, register, MakeAccount, make_account, Accept, accept, burn, mint, Transfer
  <2> QED BY <1>1, <1>4, <2>1 DEF storeVars
<1>5. CASE StoreStep
  <2>1. CASE Tick \/ initialize
    BY <1>1, <2>1 DEF Tick, initialize, nftVars
  <2>2. CASE register_nft
    <3>1. Store \in Addr
      BY StoreAssumption
    <3>2. Store \in accepted' /\ registered' /\ UNCHANGED <<orders, customers>>
      BY <1>a, <2>2, <3>1 DEF register_nft
    <3> QED BY <3>2 DEF Admitted, Open
  <2>3. ASSUME NEW a \in Addr, accept_customer(a) PROVE Admitted'
    BY <1>1, <1>a, <2>3 DEF accept_customer
  <2>4. ASSUME NEW a \in Addr, NEW o \in Orders, revoke_order(a, o) PROVE Admitted'
    BY <1>2, <2>4 DEF revoke_order
  <2>5. ASSUME NEW a \in Addr, NEW o \in Orders, NEW c \in Currencies, trade_order(a, o, c)
        PROVE  Admitted'
    BY <1>2, <1>a, <2>5 DEF trade_order
  <2> QED BY <1>3, <1>5, <2>1, <2>2, <2>3, <2>4, <2>5 DEF StoreStep
<1>6. CASE UNCHANGED vars
  BY <1>1, <1>6 DEF vars, storeVars, nftVars
<1> QED BY <1>4, <1>5, <1>6 DEF Next

\* Whatever buyers, the administrator or the store do, every check on the way of
\* revoke_order and of the pay_from in it would pass for the seller of any open
\* order: his token is never locked up in the store.
THEOREM SellerPassesChecks == Admin # Store /\ StoreSpec => []RevokeReady
<1> SUFFICES ASSUME Admin # Store PROVE StoreSpec => []RevokeReady
  OBVIOUS
<1>1. Init => Admitted
  BY DEF Init, Admitted, Open
<1>2. Escrow /\ Admitted /\ [Next]_vars => Admitted'
  BY StepAdmitted
<1>3. StoreSpec => []Escrow
  BY EscrowInvariant
<1>4. Escrow /\ Admitted => RevokeReady
  <2> SUFFICES ASSUME Escrow, Admitted, NEW o \in Orders, Open(o) PROVE MayRevoke(o)
    BY DEF RevokeReady
  <2>1. listed /\ opened /\ Listed(o)
    BY DEF Escrow, Lent, Listed, Open
  <2>2. o.provider \in customers /\ o.provider \in accepted /\ Store \in accepted /\ registered
    BY <2>1 DEF Admitted, Escrow, StoreTypeOK
  <2>3. held[Store][o.token] = 1 /\ o.token \in Tokens /\ Store \in Addr
    BY StoreAssumption DEF Escrow, OrdersBacked, Orders
  <2>4. owners[o.token] = Store
    BY <2>3 DEF Escrow, OwnerHolds
  <2> QED BY <2>1, <2>2, <2>3, <2>4, NftAssumption DEF MayRevoke
<1> QED BY <1>1, <1>2, <1>3, <1>4, PTL DEF StoreSpec

----------------------------------------------------------------------------
\* AmountCounts is not inductive alone: Cardinality only counts finite sets.
Counted == IsFiniteSet(InHands) /\ AmountCounts

LEMMA PayCounts ==
  ASSUME Escrow, NEW a \in Addr, NEW r \in Addr, NEW t \in Tokens, pay_from(a, r, t),
         UNCHANGED burnt
  PROVE  InHands' = InHands
<1>1. /\ \A b \in Addr, u \in Tokens : u # t => held'[b][u] = held[b][u]
      /\ a # r => held'[r][t] = 1
      /\ a = r => held' = held
  <2>1. a = r => held' = held
    BY DEF pay_from
  <2> QED BY <2>1, PayKeeps
<1>2. held[a][t] > 0
  BY DEF pay_from
<1> QED BY <1>1, <1>2 DEF InHands

LEMMA StepCounts ==
  ASSUME Escrow, Counted, [Next]_vars
  PROVE  Counted'
<1>t. StoreTypeOK /\ NftTypeOK
  BY DEF Escrow, StoreTypeOK
<1>1. ASSUME UNCHANGED amount, InHands' = InHands PROVE Counted'
  BY <1>1 DEF Counted, AmountCounts
<1>2. ASSUME UNCHANGED <<amount, held>> PROVE Counted'
  BY <1>2, <1>1 DEF InHands
<1>3. ASSUME NEW t \in Tokens, NEW r \in Addr, mint(r, t) PROVE Counted'
  <2>1. t \notin InHands
    BY <1>3 DEF mint, Escrow, Unowned, InHands
  <2>2. InHands' = InHands \cup {t}
    BY <1>3, <1>t DEF mint, InHands, NftTypeOK
  <2>3. /\ IsFiniteSet(InHands \cup {t})
        /\ Cardinality(InHands \cup {t}) = Cardinality(InHands) + 1
    BY <2>1, FS_AddElement DEF Counted
  <2> QED BY <1>3, <2>2, <2>3 DEF Counted, AmountCounts, mint
<1>4. ASSUME NEW t \in Tokens, burn(t) PROVE Counted'
  <2>1. t \in InHands
    BY <1>4, NftAssumption DEF burn, InHands
  <2>2. InHands' = InHands \ {t}
    <3>1. held[Admin][t] = 1 /\ \A a \in Addr : a # Admin => held[a][t] = 0
      BY <1>4, <1>t, NftAssumption DEF burn, Escrow, OwnerHolds, NftTypeOK
    <3>2. /\ \A a \in Addr : held'[a][t] = 0
          /\ \A a \in Addr, u \in Tokens : u # t => held'[a][u] = held[a][u]
      BY <1>4, <1>t, <3>1, NftAssumption DEF burn, NftTypeOK
    <3> QED BY <3>2 DEF InHands
  <2>3. /\ IsFiniteSet(InHands \ {t})
        /\ Cardinality(InHands \ {t}) = Cardinality(InHands) - 1
        /\ Cardinality(InHands \ {t}) \in Nat
    BY <2>1, FS_RemoveElement, FS_CardinalityType DEF Counted
  <2>4. amount' = amount - 1
    BY <1>4, <1>t, <2>3 DEF burn, Counted, AmountCounts, NftTypeOK
  <2> QED BY <2>2, <2>3, <2>4 DEF Counted, AmountCounts
<1>5. ASSUME NEW a \in Addr, NEW r \in Addr, NEW t \in Tokens, pay_from(a, r, t),
             UNCHANGED <<amount, burnt>>
      PROVE  Counted'
  BY <1>5, <1>1, PayCounts
<1>6. CASE NextNft /\ UNCHANGED storeVars
  BY <1>6, <1>2, <1>3, <1>4, <1>5
  DEF NextNft, register, MakeAccount, Accept, accept, Transfer, transfer
<1>7. CASE StoreStep
  <2>1. ASSUME NEW a \in Addr, NEW o \in Orders,
               revoke_order(a, o) \/ \E c \in Currencies : trade_order(a, o, c)
        PROVE  Counted'
    BY <2>1, <1>5, StoreAssumption DEF revoke_order, trade_order, Orders
  <2>2. ASSUME NEW a \in Addr, NEW t \in Tokens, NEW p \in Prices, NEW c \in Currencies,
               make_order(a, t, p, c)
        PROVE  Counted'
    BY <2>2, <1>5, StoreAssumption DEF make_order, transfer
  <2> QED BY <1>7, <1>2, <2>1, <2>2
          DEF StoreStep, Tick, initialize, register_nft, accept_customer, nftVars
<1>8. CASE UNCHANGED vars
  BY <1>8, <1>2 DEF vars, nftVars
<1> QED BY <1>6, <1>7, <1>8 DEF Next

\* The amount that mint compares with the total is the number of tokens in
\* accounts, through every mint, burn, gift and sale.
THEOREM AmountIsCounted == Admin # Store /\ StoreSpec => []AmountCounts
<1> SUFFICES ASSUME Admin # Store PROVE StoreSpec => []AmountCounts
  OBVIOUS
<1>1. Init => Counted
  <2> SUFFICES ASSUME Init PROVE Counted
    OBVIOUS
  <2>1. InHands = {} /\ amount = 0
    BY DEF Init, InitNft, InHands
  <2> QED BY <2>1, FS_EmptySet DEF Counted, AmountCounts
<1>2. Escrow /\ Counted /\ [Next]_vars => Counted'
  BY StepCounts
<1>3. StoreSpec => []Escrow
  BY EscrowInvariant
<1>4. Counted => AmountCounts
  BY DEF Counted
<1> QED BY <1>1, <1>2, <1>3, <1>4, PTL DEF StoreSpec

----------------------------------------------------------------------------
(* The binary search and the sorted vectors of Map and Set, which keep the *)
(* owners of the tokens, for any keys.                                     *)
(*                                                                         *)
(* SearchIsFaithful is not inductive: a search is only right in a vector   *)
(* whose keys increase, and a vector whose keys increase is only what an   *)
(* insertion leaves if the search gave it the right place.  MapOK says     *)
(* both, and that the entries are those that were put in.                  *)

Sorted(ks) == \A i, j \in DOMAIN ks : i < j => ks[i] < ks[j]

\* The body of the search: what h holds for the window left .. right.
Halves(h, ks, k, left, right) ==
  LET mid == (left + right) \div 2 IN
  IF left > right THEN <<left, FALSE>>
  ELSE IF ks[mid + 1] = k THEN <<mid, TRUE>>
  ELSE IF ks[mid + 1] < k THEN h[<<mid + 1, right>>]
  ELSE IF mid = 0 THEN <<0, FALSE>>
  ELSE h[<<left, mid - 1>>]

\* h is the recursive function that find defines.
Searches(h, ks, k) ==
  h = [w \in Windows(ks) |-> Halves(h, ks, k, w[1], w[2])]

LEMMA WindowsAre ==
  ASSUME NEW ks, NEW w \in Windows(ks)
  PROVE  w[1] \in 0 .. Len(ks) /\ w[2] \in 0 .. Len(ks) - 1 /\ w = <<w[1], w[2]>>
BY DEF Windows

LEMMA MidIs ==
  ASSUME NEW left \in Nat, NEW right \in Nat, left <= right
  PROVE  LET mid == (left + right) \div 2 IN mid \in Nat /\ left <= mid /\ mid <= right
OBVIOUS

\* The windows only get shorter, so the recursive function exists: it is built
\* up from the short ones.
LEMMA SearchExists ==
  ASSUME NEW ks \in Seq(Int), NEW k
  PROVE  \E h : Searches(h, ks, k)
<1> DEFINE L == 0 .. Len(ks)
           R == 0 .. Len(ks) - 1
           Upto(g, j) == \A l \in L, r \in R : r - l < j => g[<<l, r>>] = Halves(g, ks, k, l, r)
           Built(j) == \E g : Upto(g, j)
           T == {j \in Nat : ~Built(j)}
<1>0. Len(ks) \in Nat
  OBVIOUS
<1>1. T = {}
  <2> SUFFICES ASSUME T # {} PROVE FALSE
    OBVIOUS
  <2>1. PICK j \in T : \A i \in T : j <= i
    BY Least
  <2>2. ~Built(j)
    OBVIOUS
  <2>j. j \in Nat
    OBVIOUS
  <2>3. \E g : \A l \in L, r \in R : r - l < j - 1 => g[<<l, r>>] = Halves(g, ks, k, l, r)
    <3>1. CASE j = 0
      <4> DEFINE g == [w \in Windows(ks) |-> <<w[1], FALSE>>]
      <4>1. ASSUME NEW l \in L, NEW r \in R, r - l < j - 1
            PROVE  g[<<l, r>>] = Halves(g, ks, k, l, r)
        <5>1. <<l, r>> \in Windows(ks)
          BY DEF Windows
        <5>2. l > r
          BY <1>0, <3>1, <4>1
        <5> QED BY <5>1, <5>2 DEF Halves
      <4> QED BY <4>1
    <3>2. CASE j # 0
      <4>1. j - 1 \in Nat /\ j - 1 \notin T
        <5> HIDE DEF T
        <5> QED BY <2>1, <2>j, <3>2
      <4> QED BY <4>1
    <3> QED BY <3>1, <3>2
  <2>4. PICK g : \A l \in L, r \in R : r - l < j - 1 => g[<<l, r>>] = Halves(g, ks, k, l, r)
    BY <2>3
  <2> DEFINE h == [w \in Windows(ks) |-> Halves(g, ks, k, w[1], w[2])]
  <2>5. ASSUME NEW l \in L, NEW r \in R PROVE h[<<l, r>>] = Halves(g, ks, k, l, r)
    <3>1. <<l, r>> \in Windows(ks)
      BY DEF Windows
    <3> QED BY <3>1
  <2> HIDE DEF h
  <2>6. ASSUME NEW l \in L, NEW r \in R, r - l < j
        PROVE  Halves(g, ks, k, l, r) = Halves(h, ks, k, l, r)
    <3> DEFINE mid == (l + r) \div 2
    <3>1. CASE l > r
      BY <3>1 DEF Halves
    <3>2. CASE l <= r
      <4>0. l \in Nat /\ r \in Nat /\ r <= Len(ks) - 1
        BY <1>0
      <4>1. mid \in Nat /\ l <= mid /\ mid <= r
        BY <3>2, <4>0, MidIs
      <4> HIDE DEF mid
      <4>2. mid + 1 \in L /\ r - (mid + 1) < j - 1
        <5>1. mid + 1 \in L
          BY <1>0, <4>0, <4>1
        <5>2. r - l < j
          BY <2>6
        <5> HIDE DEF L
        <5> QED BY <2>j, <4>0, <4>1, <5>1, <5>2
      <4>3. h[<<mid + 1, r>>] = g[<<mid + 1, r>>]
        BY <2>4, <2>5, <4>2
      <4>4. mid # 0 => mid - 1 \in R /\ (mid - 1) - l < j - 1
        BY <1>0, <2>j, <2>6, <4>0, <4>1
      <4>5. mid # 0 => h[<<l, mid - 1>>] = g[<<l, mid - 1>>]
        BY <2>4, <2>5, <4>4
      <4> QED BY <4>3, <4>5 DEF Halves, mid
    <3> QED BY <1>0, <3>1, <3>2
  <2>7. Upto(h, j)
    BY <2>5, <2>6
  <2> QED BY <2>2, <2>7
<1>2. PICK g : Upto(g, Len(ks))
  BY <1>0, <1>1
<1> DEFINE h == [w \in Windows(ks) |-> g[w]]
<1>3. ASSUME NEW l \in L, NEW r \in R PROVE h[<<l, r>>] = g[<<l, r>>]
  <2>1. <<l, r>> \in Windows(ks)
    BY DEF Windows
  <2> QED BY <2>1
<1>4. ASSUME NEW w \in Windows(ks) PROVE g[w] = Halves(h, ks, k, w[1], w[2])
  <2> DEFINE l == w[1]
             r == w[2]
             mid == (l + r) \div 2
  <2>1. l \in L /\ r \in R /\ w = <<l, r>>
    BY WindowsAre
  <2> HIDE DEF l, r, h
  <2>2. g[w] = Halves(g, ks, k, l, r)
    <3>1. r - l < Len(ks)
      BY <1>0, <2>1
    <3> QED BY <1>2, <2>1, <3>1
  <2>3. Halves(g, ks, k, l, r) = Halves(h, ks, k, l, r)
    <3>1. CASE l > r
      BY <3>1 DEF Halves
    <3>2. CASE l <= r
      <4>0. l \in Nat /\ r \in Nat /\ r <= Len(ks) - 1
        BY <1>0, <2>1
      <4>1. mid \in Nat /\ l <= mid /\ mid <= r
        BY <3>2, <4>0, MidIs
      <4> HIDE DEF mid
      <4>2. mid + 1 \in L /\ (mid # 0 => mid - 1 \in R)
        BY <1>0, <4>0, <4>1
      <4>3. h[<<mid + 1, r>>] = g[<<mid + 1, r>>]
        BY <1>3, <2>1, <4>2
      <4>4. mid # 0 => h[<<l, mid - 1>>] = g[<<l, mid - 1>>]
        BY <1>3, <2>1, <4>2
      <4> QED BY <4>3, <4>4 DEF Halves, mid
    <3> QED BY <1>0, <2>1, <3>1, <3>2
  <2> QED BY <2>2, <2>3 DEF l, r
<1>5. h = [w \in Windows(ks) |-> Halves(h, ks, k, w[1], w[2])]
  BY <1>4, Zenon
<1> QED BY <1>5 DEF Searches

\* What the search may answer.
Answers(ks, k, place, found) ==
  IF found
    THEN place \in 0 .. Len(ks) - 1 /\ ks[place + 1] = k
    ELSE /\ place \in 0 .. Len(ks)
         /\ \A i \in DOMAIN ks : IF i <= place THEN ks[i] < k ELSE k < ks[i]

\* In a vector of increasing keys the search answers right for every window
\* outside which the key cannot be.
LEMMA SearchAnswers ==
  ASSUME NEW ks \in Seq(Int), Sorted(ks), NEW k \in Int, NEW h, Searches(h, ks, k)
  PROVE  \A l \in 0 .. Len(ks), r \in 0 .. Len(ks) - 1 :
           /\ l <= r + 1
           /\ \A i \in DOMAIN ks : (i <= l => ks[i] < k) /\ (i > r + 1 => k < ks[i])
           => Answers(ks, k, h[<<l, r>>][1], h[<<l, r>>][2])
<1> DEFINE L == 0 .. Len(ks)
           R == 0 .. Len(ks) - 1
           Window(l, r) ==
             /\ l <= r + 1
             /\ \A i \in DOMAIN ks : (i <= l => ks[i] < k) /\ (i > r + 1 => k < ks[i])
           Right(l, r) == Answers(ks, k, h[<<l, r>>][1], h[<<l, r>>][2])
           T == {j \in Nat : \E l \in L, r \in R : r - l + 1 = j /\ Window(l, r) /\ ~Right(l, r)}
<1>0. Len(ks) \in Nat /\ DOMAIN ks = 1 .. Len(ks) /\ \A i \in DOMAIN ks : ks[i] \in Int
  OBVIOUS
<1>1. ASSUME NEW l \in L, NEW r \in R PROVE h[<<l, r>>] = Halves(h, ks, k, l, r)
  <2>1. <<l, r>> \in Windows(ks) /\ <<l, r>>[1] = l /\ <<l, r>>[2] = r
    BY DEF Windows
  <2> QED BY <2>1, Zenon DEF Searches
<1>2. T = {}
  <2> SUFFICES ASSUME T # {} PROVE FALSE
    OBVIOUS
  <2>1. PICK j \in T : \A i \in T : j <= i
    BY Least
  <2>2. PICK l \in L, r \in R : r - l + 1 = j /\ Window(l, r) /\ ~Right(l, r)
    OBVIOUS
  <2>3. l \in Nat /\ r \in Nat /\ r <= Len(ks) - 1 /\ l <= Len(ks)
    BY <1>0
  <2>4. ASSUME NEW p \in L, NEW q \in R, q - p < r - l, Window(p, q) PROVE Right(p, q)
    <3>1. q - p + 1 \in Nat
      BY <1>0, <2>4
    <3>2. q - p + 1 \notin T
      <4>1. q - p + 1 < j
        BY <1>0, <2>2, <2>3, <2>4
      <4>2. j \in Nat
        OBVIOUS
      <4> HIDE DEF T
      <4> QED BY <2>1, <3>1, <4>1, <4>2
    <3> HIDE DEF Window, Right
    <3> QED BY <2>4, <3>1, <3>2
  <2>h. h[<<l, r>>] = Halves(h, ks, k, l, r)
    BY <1>1
  <2>w. l <= r + 1
    BY <2>2
  <2> DEFINE mid == (l + r) \div 2
  <2>5. CASE l > r
    <3>0. l = r + 1
      BY <2>w, <2>3, <2>5
    <3>1. h[<<l, r>>] = <<l, FALSE>>
      BY <2>h, <2>5, Zenon DEF Halves
    <3>2. \A i \in DOMAIN ks : IF i <= l THEN ks[i] < k ELSE k < ks[i]
      BY <1>0, <2>2, <2>3, <3>0
    <3> QED BY <2>2, <3>1, <3>2 DEF Answers
  <2>6. CASE l <= r
    <3>1. mid \in Nat /\ l <= mid /\ mid <= r /\ mid + 1 \in DOMAIN ks
      BY <1>0, <2>3, <2>6, MidIs
    <3>2. h[<<l, r>>] = IF ks[mid + 1] = k THEN <<mid, TRUE>>
                        ELSE IF ks[mid + 1] < k THEN h[<<mid + 1, r>>]
                        ELSE IF mid = 0 THEN <<0, FALSE>>
                        ELSE h[<<l, mid - 1>>]
      BY <2>h, <2>3, <2>6 DEF Halves
    <3> HIDE DEF mid, Right, T
    <3>3. CASE ks[mid + 1] = k
      BY <1>0, <2>2, <2>3, <3>1, <3>2, <3>3 DEF Answers, Right
    <3>4. CASE ks[mid + 1] < k
      <4>1. \A i \in DOMAIN ks : i <= mid + 1 => ks[i] < k
        <5> SUFFICES ASSUME NEW i \in DOMAIN ks, i <= mid + 1 PROVE ks[i] < k
          OBVIOUS
        <5>0. i \in Int /\ (i = mid + 1 \/ i < mid + 1)
          BY <1>0, <3>1
        <5>1. i = mid + 1 \/ ks[i] < ks[mid + 1]
          BY <3>1, <5>0 DEF Sorted
        <5> QED BY <1>0, <3>1, <3>4, <5>1
      <4>2. mid + 1 \in L /\ Window(mid + 1, r)
        BY <1>0, <2>2, <2>3, <3>1, <4>1
      <4>3. Right(mid + 1, r)
        BY <2>3, <2>4, <3>1, <4>2
      <4>4. h[<<l, r>>] = h[<<mid + 1, r>>]
        BY <1>0, <3>1, <3>2, <3>4
      <4> QED BY <2>2, <4>3, <4>4 DEF Right
    <3>5. CASE k < ks[mid + 1]
      <4>0. ks[mid + 1] # k /\ ~(ks[mid + 1] < k)
        BY <1>0, <3>1, <3>5
      <4>1. \A i \in DOMAIN ks : i >= mid + 1 => k < ks[i]
        <5> SUFFICES ASSUME NEW i \in DOMAIN ks, i >= mid + 1 PROVE k < ks[i]
          OBVIOUS
        <5>0. i \in Int /\ (i = mid + 1 \/ mid + 1 < i)
          BY <1>0, <3>1
        <5>1. i = mid + 1 \/ ks[mid + 1] < ks[i]
          BY <3>1, <5>0 DEF Sorted
        <5> QED BY <1>0, <3>1, <3>5, <5>1
      <4>2. CASE mid = 0
        <5>1. h[<<l, r>>] = <<0, FALSE>>
          BY <3>2, <4>0, <4>2, Zenon
        <5> QED BY <1>0, <2>2, <4>1, <4>2, <5>1 DEF Answers, Right
      <4>3. CASE mid # 0
        <5>1. mid - 1 \in R /\ Window(l, mid - 1)
          BY <1>0, <2>2, <2>3, <3>1, <4>1, <4>3
        <5>2. Right(l, mid - 1)
          BY <2>3, <2>4, <3>1, <5>1
        <5>3. h[<<l, r>>] = h[<<l, mid - 1>>]
          BY <3>2, <4>0, <4>3, Zenon
        <5> QED BY <2>2, <5>2, <5>3 DEF Right
      <4> QED BY <4>2, <4>3
    <3> QED BY <1>0, <3>1, <3>3, <3>4, <3>5
  <2> QED BY <2>3, <2>5, <2>6
<1>3. ASSUME NEW l \in L, NEW r \in R, Window(l, r) PROVE Right(l, r)
  <2>1. r - l + 1 \in Nat
    BY <1>0, <1>3
  <2> HIDE DEF Window, Right
  <2> QED BY <1>2, <1>3, <2>1
<1> QED BY <1>3

LEMMA FindIs ==
  ASSUME NEW ks, NEW k, Len(ks) # 0
  PROVE  find(ks, k) = (CHOOSE h : Searches(h, ks, k))[<<0, Len(ks) - 1>>]
BY Zenon DEF find, Searches, Halves, At

\* find gives the index of the key, or, if it is missing, the place before
\* which all keys are smaller and from which all are larger.
LEMMA FindAnswers ==
  ASSUME NEW ks \in Seq(Int), Sorted(ks), NEW k \in Int
  PROVE  Answers(ks, k, Index(ks, k), Found(ks, k))
<1>0. Len(ks) \in Nat /\ DOMAIN ks = 1 .. Len(ks)
  OBVIOUS
<1>1. CASE Len(ks) = 0
  <2>1. find(ks, k) = <<0, FALSE>>
    BY <1>1 DEF find
  <2> QED BY <1>0, <1>1, <2>1 DEF Answers, Index, Found
<1>2. CASE Len(ks) # 0
  <2> DEFINE h == CHOOSE h : Searches(h, ks, k)
  <2>1. Searches(h, ks, k)
    BY SearchExists
  <2>2. find(ks, k) = h[<<0, Len(ks) - 1>>]
    BY <1>2, FindIs
  <2> HIDE DEF h
  <2>3. Answers(ks, k, h[<<0, Len(ks) - 1>>][1], h[<<0, Len(ks) - 1>>][2])
    <3>1. 0 \in 0 .. Len(ks) /\ Len(ks) - 1 \in 0 .. Len(ks) - 1 /\ 0 <= (Len(ks) - 1) + 1
      BY <1>0, <1>2
    <3>2. \A i \in DOMAIN ks : (i <= 0 => ks[i] < k) /\ (i > (Len(ks) - 1) + 1 => k < ks[i])
      BY <1>0
    <3> QED BY <2>1, <3>1, <3>2, SearchAnswers
  <2> QED BY <2>2, <2>3 DEF Index, Found
<1> QED BY <1>1, <1>2

Nodes == [key : Keys, value : Values]

MapOK ==
  /\ nodes \in Seq(Nodes) /\ v \in Seq(Keys) /\ ref \in [Keys -> Values \cup {Absent}]
  /\ Sorted(KeysOf(nodes)) /\ Sorted(v)
  /\ \A i \in DOMAIN nodes : ref[nodes[i].key] = nodes[i].value
  /\ \A k \in Keys : ref[k] # Absent => \E i \in DOMAIN nodes : nodes[i].key = k
  /\ ToSet(v) = members

LEMMA WiderSeq ==
  ASSUME NEW S, NEW T, S \subseteq T, NEW s \in Seq(S)
  PROVE  s \in Seq(T)
<1>1. Len(s) \in Nat /\ \A i \in 1 .. Len(s) : s[i] \in T
  OBVIOUS
<1>2. s = [i \in 1 .. Len(s) |-> s[i]]
  OBVIOUS
<1>3. [i \in 1 .. Len(s) |-> s[i]] \in Seq(T)
  BY <1>1
<1> QED BY <1>2, <1>3

\* push_back and the swaps put the element in its place and move those from
\* there on up by one.
IsPut(u, s, p, e) ==
  /\ Len(u) = Len(s) + 1 /\ u[p + 1] = e
  /\ \A i \in 1 .. p : u[i] = s[i]
  /\ \A i \in p + 1 .. Len(s) : u[i + 1] = s[i]

LEMMA PutAtIs ==
  ASSUME NEW S, NEW s \in Seq(S), NEW p \in 0 .. Len(s), NEW e \in S
  PROVE  PutAt(s, p, e) \in Seq(S) /\ IsPut(PutAt(s, p, e), s, p, e)
<1> DEFINE a == SubSeq(s, 1, p)
           b == SubSeq(s, p + 1, Len(s))
           t == (a \o <<e>>) \o b
<1>0. Len(s) \in Nat /\ p \in Nat /\ p <= Len(s)
  OBVIOUS
<1>1. a \in Seq(S) /\ Len(a) = p /\ \A i \in 1 .. p : a[i] = s[i]
  BY <1>0
<1>2. b \in Seq(S) /\ Len(b) = Len(s) - p /\ \A i \in 1 .. Len(s) - p : b[i] = s[p + i]
  BY <1>0
<1>3. PutAt(s, p, e) = t
  <2>1. (p + 1) - 1 = p
    BY <1>0
  <2> QED BY <2>1 DEF PutAt, InsertAt
<1> HIDE DEF a, b
<1>4. /\ a \o <<e>> \in Seq(S) /\ Len(a \o <<e>>) = p + 1 /\ (a \o <<e>>)[p + 1] = e
      /\ \A i \in 1 .. p : (a \o <<e>>)[i] = s[i]
  BY <1>0, <1>1
<1> DEFINE c == a \o <<e>>
<1> HIDE DEF c
<1>5. /\ c \in Seq(S) /\ Len(c) = p + 1 /\ c[p + 1] = e
      /\ \A i \in 1 .. p : c[i] = s[i]
  BY <1>4 DEF c
<1>6. t = c \o b
  BY DEF c
<1>7. /\ c \o b \in Seq(S) /\ Len(c \o b) = Len(s) + 1
      /\ \A i \in 1 .. p + 1 : (c \o b)[i] = c[i]
      /\ \A i \in 1 .. Len(s) - p : (c \o b)[p + 1 + i] = b[i]
  BY <1>0, <1>2, <1>5
<1> HIDE DEF t
<1>8. \A i \in p + 1 .. Len(s) : t[i + 1] = s[i]
  <2> SUFFICES ASSUME NEW i \in p + 1 .. Len(s) PROVE t[i + 1] = s[i]
    OBVIOUS
  <2>1. i - p \in 1 .. Len(s) - p /\ p + 1 + (i - p) = i + 1 /\ p + (i - p) = i
    BY <1>0
  <2> QED BY <1>2, <1>6, <1>7, <2>1
<1>9. t[p + 1] = e /\ \A i \in 1 .. p : t[i] = s[i]
  BY <1>0, <1>5, <1>6, <1>7
<1> QED BY <1>3, <1>6, <1>7, <1>8, <1>9 DEF IsPut

LEMMA OneDown ==
  ASSUME NEW n \in Nat, NEW p \in Nat, NEW i \in Nat, i > p + 1, i <= n + 1
  PROVE  i - 1 \in p + 1 .. n /\ (i - 1) + 1 = i /\ i - 1 \in 1 .. n /\ i - 1 > p
OBVIOUS

\* At the place the search gives for a missing key the keys stay increasing.
LEMMA PutSorted ==
  ASSUME NEW ks \in Seq(Int), Sorted(ks), NEW k \in Int, NEW p, Answers(ks, k, p, FALSE),
         NEW t \in Seq(Int), Len(t) = Len(ks) + 1, t[p + 1] = k,
         \A i \in 1 .. p : t[i] = ks[i],
         \A i \in p + 1 .. Len(ks) : t[i + 1] = ks[i]
  PROVE  Sorted(t)
<1>0. /\ Len(ks) \in Nat /\ p \in Nat /\ p <= Len(ks) /\ DOMAIN ks = 1 .. Len(ks)
      /\ DOMAIN t = 1 .. Len(ks) + 1
  BY DEF Answers
<1>1. \A i \in DOMAIN ks : (i <= p => ks[i] < k) /\ (i > p => k < ks[i]) /\ ks[i] \in Int
  BY <1>0 DEF Answers
<1> SUFFICES ASSUME NEW i \in DOMAIN t, NEW j \in DOMAIN t, i < j PROVE t[i] < t[j]
  BY DEF Sorted
<1>2. i \in Nat /\ j \in Nat /\ 1 <= i /\ i <= Len(ks) + 1 /\ j <= Len(ks) + 1
  BY <1>0
<1>3. i <= p => t[i] = ks[i] /\ i \in DOMAIN ks
  BY <1>0, <1>2
<1>4. j <= p => t[j] = ks[j] /\ j \in DOMAIN ks
  BY <1>0, <1>2
<1>5. i > p + 1 => t[i] = ks[i - 1] /\ i - 1 \in DOMAIN ks /\ i - 1 > p
  <2> SUFFICES ASSUME i > p + 1 PROVE t[i] = ks[i - 1] /\ i - 1 \in DOMAIN ks /\ i - 1 > p
    OBVIOUS
  <2>1. i - 1 \in p + 1 .. Len(ks) /\ (i - 1) + 1 = i /\ i - 1 \in DOMAIN ks
        /\ i - 1 > p
    BY <1>0, <1>2, OneDown, Zenon
  <2>2. t[(i - 1) + 1] = ks[i - 1]
    BY <2>1
  <2> QED BY <2>1, <2>2, Zenon
<1>6. j > p + 1 => t[j] = ks[j - 1] /\ j - 1 \in DOMAIN ks /\ j - 1 > p
  <2> SUFFICES ASSUME j > p + 1 PROVE t[j] = ks[j - 1] /\ j - 1 \in DOMAIN ks /\ j - 1 > p
    OBVIOUS
  <2>1. j - 1 \in p + 1 .. Len(ks) /\ (j - 1) + 1 = j /\ j - 1 \in DOMAIN ks
        /\ j - 1 > p
    BY <1>0, <1>2, OneDown, Zenon
  <2>2. t[(j - 1) + 1] = ks[j - 1]
    BY <2>1
  <2> QED BY <2>1, <2>2, Zenon
<1>7. CASE j <= p
  <2>1. i <= p
    BY <1>0, <1>2, <1>7
  <2> QED BY <1>3, <1>4, <1>7, <2>1 DEF Sorted
<1>8. CASE j = p + 1
  <2>1. i <= p
    BY <1>0, <1>2, <1>8
  <2> QED BY <1>1, <1>3, <1>8, <2>1
<1>9. CASE j > p + 1
  <2>1. CASE i <= p
    <3>1. i < j - 1
      BY <1>0, <1>2, <1>9, <2>1
    <3> QED BY <1>3, <1>6, <1>9, <2>1, <3>1 DEF Sorted
  <2>2. CASE i = p + 1
    BY <1>1, <1>6, <1>9, <2>2
  <2>3. CASE i > p + 1
    <3>1. i - 1 < j - 1
      BY <1>2
    <3> QED BY <1>5, <1>6, <1>9, <2>3, <3>1 DEF Sorted
  <2> QED BY <1>0, <1>2, <2>1, <2>2, <2>3
<1> QED BY <1>0, <1>2, <1>7, <1>8, <1>9

LEMMA KeysAre ==
  ASSUME NEW s \in Seq(Nodes)
  PROVE  LET ks == KeysOf(s) IN
         /\ ks \in Seq(Int) /\ Len(ks) = Len(s) /\ DOMAIN ks = DOMAIN s
         /\ \A i \in DOMAIN s : /\ ks[i] = s[i].key /\ s[i].key \in Keys
                                /\ s[i].value \in Values
                                /\ s[i] = [key |-> s[i].key, value |-> s[i].value]
<1> USE MapAssumption
<1>1. DOMAIN s = 1 .. Len(s) /\ Len(s) \in Nat /\ \A i \in DOMAIN s : s[i] \in Nodes
  OBVIOUS
<1>2. ASSUME NEW i \in DOMAIN s
      PROVE  /\ s[i].key \in Keys /\ s[i].value \in Values
             /\ s[i] = [key |-> s[i].key, value |-> s[i].value]
  BY <1>1 DEF Nodes
<1>3. KeysOf(s) = [i \in 1 .. Len(s) |-> s[i].key]
  BY <1>1 DEF KeysOf
<1>4. [i \in 1 .. Len(s) |-> s[i].key] \in Seq(Int)
  <2>1. Len(s) \in Nat /\ \A i \in 1 .. Len(s) : s[i].key \in Int
    BY <1>1, <1>2
  <2> QED BY <2>1
<1> QED BY <1>1, <1>2, <1>3, <1>4

\* An increasing sequence has no element twice.
LEMMA SortedOnce ==
  ASSUME NEW ks \in Seq(Int), Sorted(ks), NEW i \in DOMAIN ks, NEW j \in DOMAIN ks, ks[i] = ks[j]
  PROVE  i = j
<1>1. i \in Int /\ j \in Int /\ ks[i] \in Int /\ ks[j] \in Int
  OBVIOUS
<1>2. ~(i < j) /\ ~(j < i)
  BY <1>1 DEF Sorted
<1> QED BY <1>1, <1>2

LEMMA InsertKeeps ==
  ASSUME MapOK, NEW k \in Keys, NEW x \in Values,
         insert(k, x)
  PROVE  MapOK'
<1> USE MapAssumption
<1> DEFINE ks == KeysOf(nodes)
           p == Index(ks, k)
           e == [key |-> k, value |-> x]
           new == PutAt(nodes, p, e)
<1>1. /\ nodes' = new /\ ~Found(ks, k)
      /\ ref' = IF ref[k] = Absent THEN [ref EXCEPT ![k] = x] ELSE ref
      /\ v' = v /\ members' = members
  BY DEF insert
<1>2. /\ ks \in Seq(Int) /\ Len(ks) = Len(nodes) /\ DOMAIN ks = DOMAIN nodes
      /\ \A i \in DOMAIN nodes : ks[i] = nodes[i].key /\ nodes[i].key \in Keys
  BY KeysAre DEF MapOK
<1>3. Answers(ks, k, p, FALSE)
  <2>1. Answers(ks, k, p, Found(ks, k))
    BY <1>2, FindAnswers DEF MapOK
  <2> HIDE DEF p, ks
  <2> QED BY <1>1, <2>1 DEF Answers
<1> HIDE DEF p
<1>4. p \in 0 .. Len(nodes) /\ e \in Nodes /\ nodes \in Seq(Nodes)
  BY <1>2, <1>3 DEF Answers, Nodes, MapOK
<1> HIDE DEF e
<1>5. /\ new \in Seq(Nodes) /\ Len(new) = Len(nodes) + 1 /\ new[p + 1] = e
      /\ \A i \in 1 .. p : new[i] = nodes[i]
      /\ \A i \in p + 1 .. Len(nodes) : new[i + 1] = nodes[i]
  <2>1. new \in Seq(Nodes) /\ IsPut(new, nodes, p, e)
    BY <1>4, PutAtIs, Zenon
  <2> HIDE DEF new
  <2> QED BY <2>1 DEF IsPut
<1> HIDE DEF new, ks
<1>e. e.key = k /\ e.value = x
  BY DEF e
<1>6. nodes \in Seq(Nodes) /\ Len(nodes) \in Nat /\ DOMAIN nodes = 1 .. Len(nodes)
  BY DEF MapOK
<1>7. DOMAIN new = 1 .. Len(nodes) + 1
  BY <1>5, <1>6
<1>8. Sorted(KeysOf(new))
  <2> DEFINE t == KeysOf(new)
  <2>1. /\ t \in Seq(Int) /\ Len(t) = Len(new) /\ DOMAIN t = DOMAIN new
        /\ \A i \in DOMAIN new : t[i] = new[i].key
    BY <1>5, KeysAre
  <2> HIDE DEF t
  <2>2. t[p + 1] = k
    <3>1. p + 1 \in DOMAIN new
      BY <1>4, <1>6, <1>7
    <3> QED BY <1>5, <1>e, <2>1, <3>1
  <2>3. ASSUME NEW i \in 1 .. p PROVE t[i] = ks[i]
    <3>1. i \in DOMAIN new /\ i \in DOMAIN nodes
      BY <1>4, <1>6, <1>7
    <3> QED BY <1>2, <1>5, <2>1, <3>1
  <2>4. ASSUME NEW i \in p + 1 .. Len(ks) PROVE t[i + 1] = ks[i]
    <3>1. i + 1 \in DOMAIN new /\ i \in DOMAIN nodes /\ i \in p + 1 .. Len(nodes)
      BY <1>2, <1>4, <1>6, <1>7
    <3> QED BY <1>2, <1>5, <2>1, <3>1
  <2>5. k \in Int /\ Len(t) = Len(ks) + 1 /\ Sorted(ks)
    BY <1>2, <1>5, <2>1 DEF MapOK, ks
  <2>6. Sorted(t)
    BY <1>2, <1>3, <2>1, <2>2, <2>3, <2>4, <2>5, PutSorted
  <2> QED BY <2>6 DEF t
<1>9. \A i \in DOMAIN nodes : nodes[i].key # k
  <2> SUFFICES ASSUME NEW i \in DOMAIN nodes PROVE nodes[i].key # k
    OBVIOUS
  <2>1. ks[i] < k \/ k < ks[i]
    BY <1>2, <1>3 DEF Answers
  <2> QED BY <1>2, <2>1
<1>10. ref' = [ref EXCEPT ![k] = x] /\ ref \in [Keys -> Values \cup {Absent}]
  BY <1>1, <1>9 DEF MapOK
<1>11. ref' \in [Keys -> Values \cup {Absent}] /\ ref'[k] = x
       /\ \A j \in Keys : j # k => ref'[j] = ref[j]
  BY <1>10
<1>12. ASSUME NEW i \in DOMAIN new PROVE ref'[new[i].key] = new[i].value
  <2>1. CASE i = p + 1
    BY <1>5, <1>e, <1>11, <2>1
  <2>2. CASE i # p + 1
    <3>1. PICK j \in DOMAIN nodes : new[i] = nodes[j]
      <4>1. CASE i <= p
        <5>1. i \in 1 .. p /\ i \in DOMAIN nodes
          BY <1>4, <1>6, <1>7, <4>1
        <5> QED BY <1>5, <5>1
      <4>2. CASE i > p
        <5>1. i - 1 \in p + 1 .. Len(nodes) /\ i - 1 \in DOMAIN nodes /\ (i - 1) + 1 = i
          <6>1. i \in Nat /\ p \in Nat /\ i <= Len(nodes) + 1 /\ i > p + 1
            BY <1>4, <1>6, <1>7, <2>2, <4>2
          <6> QED BY <1>6, <6>1, OneDown, Zenon
        <5> QED BY <1>5, <5>1
      <4> QED BY <1>4, <1>6, <1>7, <4>1, <4>2
    <3> QED BY <1>2, <1>9, <1>11, <3>1 DEF MapOK
  <2> QED BY <2>1, <2>2
<1>13. ASSUME NEW j \in Keys, ref'[j] # Absent PROVE \E i \in DOMAIN new : new[i].key = j
  <2>1. CASE j = k
    <3>1. p + 1 \in DOMAIN new
      BY <1>4, <1>6, <1>7
    <3> QED BY <1>5, <1>e, <2>1, <3>1
  <2>2. CASE j # k
    <3>1. PICK i \in DOMAIN nodes : nodes[i].key = j
      BY <1>11, <1>13, <2>2 DEF MapOK
    <3>2. CASE i <= p
      <4>1. i \in 1 .. p /\ i \in DOMAIN new
        BY <1>4, <1>6, <1>7, <3>2
      <4> QED BY <1>5, <3>1, <4>1
    <3>3. CASE i > p
      <4>1. i \in p + 1 .. Len(nodes) /\ i + 1 \in DOMAIN new
        BY <1>4, <1>6, <1>7, <3>3
      <4> QED BY <1>5, <3>1, <4>1
    <3> QED BY <1>4, <1>6, <3>2, <3>3
  <2> QED BY <2>1, <2>2
<1> QED BY <1>1, <1>5, <1>8, <1>11, <1>12, <1>13 DEF MapOK, KeysOf

LEMMA UpdateKeeps ==
  ASSUME MapOK, NEW k \in Keys, NEW x \in Values,
         update(k, x)
  PROVE  MapOK'
<1> USE MapAssumption
<1> DEFINE ks == KeysOf(nodes)
           p == Index(ks, k) + 1
           new == [nodes EXCEPT ![p].value = x]
<1>1. /\ nodes' = new /\ Found(ks, k)
      /\ ref' = IF ref[k] # Absent THEN [ref EXCEPT ![k] = x] ELSE ref
      /\ v' = v /\ members' = members
  BY DEF update
<1>2. /\ ks \in Seq(Int) /\ Len(ks) = Len(nodes) /\ DOMAIN ks = DOMAIN nodes
      /\ \A i \in DOMAIN nodes : /\ ks[i] = nodes[i].key /\ nodes[i].key \in Keys
                                 /\ nodes[i].value \in Values
  BY KeysAre DEF MapOK
<1>3. p \in DOMAIN nodes /\ nodes[p].key = k
  <2>1. Answers(ks, k, Index(ks, k), Found(ks, k))
    BY <1>2, FindAnswers DEF MapOK
  <2> HIDE DEF ks
  <2>2. p \in 1 .. Len(ks) /\ ks[p] = k
    BY <1>1, <1>2, <2>1 DEF Answers
  <2> HIDE DEF p
  <2> QED BY <1>2, <2>2
<1> HIDE DEF p
<1>4. nodes \in Seq(Nodes) /\ Len(nodes) \in Nat /\ DOMAIN nodes = 1 .. Len(nodes)
      /\ nodes[p] \in Nodes
  BY <1>3 DEF MapOK
<1>5. /\ new \in Seq(Nodes) /\ DOMAIN new = DOMAIN nodes
      /\ new[p].key = k /\ new[p].value = x
      /\ \A i \in DOMAIN nodes : i # p => new[i] = nodes[i]
  <2> DEFINE e == [nodes[p] EXCEPT !.value = x]
  <2>1. e \in Nodes /\ e.key = k /\ e.value = x
    BY <1>3, <1>4 DEF Nodes
  <2>2. new = [nodes EXCEPT ![p] = e]
    OBVIOUS
  <2> HIDE DEF e, new
  <2>3. new \in Seq(Nodes)
    BY <1>3, <1>4, <2>1, <2>2
  <2>4. DOMAIN new = DOMAIN nodes /\ new[p] = e /\ \A i \in DOMAIN nodes : i # p => new[i] = nodes[i]
    BY <1>3, <1>4, <2>2
  <2> QED BY <2>1, <2>3, <2>4
<1> HIDE DEF new
<1>6. \A i \in DOMAIN nodes : new[i].key = nodes[i].key
  BY <1>3, <1>5
<1>7. KeysOf(new) = ks
  BY <1>5, <1>6 DEF KeysOf
<1>8. ref[k] # Absent /\ ref \in [Keys -> Values \cup {Absent}]
  BY <1>2, <1>3 DEF MapOK
<1>9. /\ ref' \in [Keys -> Values \cup {Absent}] /\ ref'[k] = x
      /\ \A j \in Keys : j # k => ref'[j] = ref[j]
  BY <1>1, <1>8
<1>10. ASSUME NEW i \in DOMAIN new PROVE ref'[new[i].key] = new[i].value
  <2>1. CASE i = p
    BY <1>5, <1>9, <2>1
  <2>2. CASE i # p
    <3>1. nodes[i].key # k
      <4>1. i \in DOMAIN ks /\ p \in DOMAIN ks /\ ks[p] = k /\ ks[i] = nodes[i].key
        BY <1>2, <1>3, <1>5
      <4>2. ks \in Seq(Int) /\ Sorted(ks)
        BY <1>2 DEF MapOK
      <4> HIDE DEF ks
      <4> QED BY <2>2, <4>1, <4>2, SortedOnce
    <3> QED BY <1>2, <1>5, <1>9, <2>2, <3>1 DEF MapOK
  <2> QED BY <2>1, <2>2
<1>11. ASSUME NEW j \in Keys, ref'[j] # Absent PROVE \E i \in DOMAIN new : new[i].key = j
  <2>1. ref[j] # Absent
    BY <1>8, <1>9, <1>11
  <2>2. PICK i \in DOMAIN nodes : nodes[i].key = j
    BY <2>1 DEF MapOK
  <2> QED BY <1>5, <1>6, <2>2
<1>12. Sorted(KeysOf(new))
  BY <1>7 DEF MapOK
<1> QED BY <1>1, <1>5, <1>9, <1>10, <1>11, <1>12 DEF MapOK, KeysOf

LEMMA SetInsertKeeps ==
  ASSUME MapOK, NEW k \in Keys, set_insert(k)
  PROVE  MapOK'
<1> USE MapAssumption
<1> DEFINE p == Index(v, k)
           new == PutAt(v, p, k)
<1>1. /\ v' = new /\ ~Found(v, k) /\ members' = members \cup {k}
      /\ nodes' = nodes /\ ref' = ref
  BY DEF set_insert
<1>2. v \in Seq(Keys) /\ v \in Seq(Int) /\ Len(v) \in Nat
      /\ DOMAIN v = 1 .. Len(v)
  <2>1. v \in Seq(Keys)
    BY DEF MapOK
  <2>2. v \in Seq(Int)
    BY <2>1, WiderSeq, Zenon
  <2> QED BY <2>1, <2>2
<1>3. Answers(v, k, p, FALSE)
  <2>1. Answers(v, k, p, Found(v, k))
    BY <1>2, FindAnswers DEF MapOK
  <2> HIDE DEF p
  <2> QED BY <1>1, <2>1 DEF Answers
<1> HIDE DEF p
<1>4. p \in 0 .. Len(v)
  BY <1>3 DEF Answers
<1>5. /\ new \in Seq(Keys) /\ Len(new) = Len(v) + 1 /\ new[p + 1] = k
      /\ \A i \in 1 .. p : new[i] = v[i]
      /\ \A i \in p + 1 .. Len(v) : new[i + 1] = v[i]
  <2> v \in Seq(Keys) /\ p \in 0 .. Len(v) /\ k \in Keys
    BY <1>2, <1>4
  <2>1. new \in Seq(Keys) /\ IsPut(new, v, p, k)
    BY PutAtIs, Zenon
  <2> HIDE DEF new
  <2> QED BY <2>1 DEF IsPut
<1> HIDE DEF new
<1>6. new \in Seq(Int) /\ DOMAIN new = 1 .. Len(v) + 1
  <2>1. new \in Seq(Int)
    BY <1>5, WiderSeq
  <2> QED BY <1>2, <1>5, <2>1
<1>7. Sorted(new)
  BY <1>2, <1>3, <1>5, <1>6, PutSorted DEF MapOK
<1>8. ToSet(new) = members \cup {k}
  <2>1. members = {v[i] : i \in DOMAIN v}
    BY DEF MapOK, ToSet
  <2>2. ASSUME NEW i \in DOMAIN new PROVE new[i] \in members \cup {k}
    <3>1. CASE i <= p
      <4>1. i \in 1 .. p /\ i \in DOMAIN v
        BY <1>2, <1>4, <1>6, <3>1
      <4> QED BY <1>5, <2>1, <4>1
    <3>2. CASE i = p + 1
      BY <1>5, <3>2
    <3>3. CASE i > p + 1
      <4>1. i - 1 \in p + 1 .. Len(v) /\ i - 1 \in DOMAIN v /\ (i - 1) + 1 = i
        <5>1. i \in Nat /\ p \in Nat /\ i <= Len(v) + 1
          BY <1>2, <1>4, <1>6
        <5> QED BY <1>2, <3>3, <5>1, OneDown, Zenon
      <4> QED BY <1>5, <2>1, <4>1
    <3> QED BY <1>4, <1>6, <3>1, <3>2, <3>3
  <2>3. ASSUME NEW i \in DOMAIN v PROVE \E j \in DOMAIN new : new[j] = v[i]
    <3>1. CASE i <= p
      <4>1. i \in 1 .. p /\ i \in DOMAIN new
        BY <1>2, <1>4, <1>6, <3>1
      <4> QED BY <1>5, <4>1
    <3>2. CASE i > p
      <4>1. i \in p + 1 .. Len(v) /\ i + 1 \in DOMAIN new
        BY <1>2, <1>4, <1>6, <3>2
      <4> QED BY <1>5, <4>1
    <3> QED BY <1>2, <1>4, <3>1, <3>2
  <2>4. p + 1 \in DOMAIN new
    BY <1>2, <1>4, <1>6
  <2> QED BY <1>5, <2>1, <2>2, <2>3, <2>4 DEF ToSet
<1>9. /\ v' \in Seq(Keys) /\ Sorted(v')
      /\ ToSet(v') = members'
  BY <1>1, <1>5, <1>7, <1>8
<1>10. /\ nodes' \in Seq(Nodes) /\ ref' \in [Keys -> Values \cup {Absent}]
       /\ Sorted(KeysOf(nodes'))
       /\ \A i \in DOMAIN nodes' : ref'[nodes'[i].key] = nodes'[i].value
       /\ \A j \in Keys : ref'[j] # Absent => \E i \in DOMAIN nodes' : nodes'[i].key = j
  BY <1>1 DEF MapOK
<1> QED BY <1>9, <1>10 DEF MapOK, KeysOf, ToSet

LEMMA FaithfulIfOK ==
  ASSUME MapOK
  PROVE  SearchIsFaithful
<1> USE MapAssumption
<1> DEFINE ks == KeysOf(nodes)
<1>1. /\ ks \in Seq(Int) /\ Len(ks) = Len(nodes) /\ DOMAIN ks = DOMAIN nodes
      /\ \A i \in DOMAIN nodes : /\ ks[i] = nodes[i].key /\ nodes[i].key \in Keys
                                 /\ nodes[i].value \in Values
                                 /\ nodes[i] = [key |-> nodes[i].key, value |-> nodes[i].value]
  BY KeysAre DEF MapOK
<1>2. v \in Seq(Int) /\ Sorted(ks) /\ Sorted(v)
  BY WiderSeq DEF MapOK
<1>3. DOMAIN nodes = 1 .. Len(nodes) /\ Len(nodes) \in Nat
      /\ DOMAIN v = 1 .. Len(v) /\ Len(v) \in Nat
  BY DEF MapOK
<1> HIDE DEF ks
<1>4. ASSUME NEW k \in Keys
      PROVE  /\ Lookup(k) = {ref[k]} \ {Absent}
             /\ Found(ks, k) <=> ref[k] # Absent
             /\ Found(ks, k) =>
                  At(nodes, Index(ks, k)) = [key |-> k, value |-> ref[k]]
             /\ Found(v, k) <=> k \in members
  <2> DEFINE p == Index(ks, k)
             found == Found(ks, k)
  <2>1. Answers(ks, k, p, found)
    BY <1>1, <1>2, FindAnswers
  <2> HIDE DEF p, found
  <2>2. ASSUME found
        PROVE  /\ p + 1 \in DOMAIN nodes /\ nodes[p + 1] = [key |-> k, value |-> ref[k]]
               /\ ref[k] \in Values
    <3>1. p \in 0 .. Len(ks) - 1 /\ ks[p + 1] = k
      BY <2>1, <2>2 DEF Answers
    <3>2. p + 1 \in DOMAIN nodes
      BY <1>1, <1>3, <3>1
    <3> QED BY <1>1, <3>1, <3>2 DEF MapOK
  <2>3. ASSUME ~found, NEW i \in DOMAIN nodes PROVE nodes[i].key # k
    <3>1. ks[i] < k \/ k < ks[i]
      BY <1>1, <2>1, <2>3 DEF Answers
    <3> QED BY <1>1, <3>1
  <2>4. found <=> ref[k] # Absent
    BY <2>2, <2>3 DEF MapOK
  <2>5. Lookup(k) = {ref[k]} \ {Absent}
    <3>1. Lookup(k) = {nodes[i].value : i \in {j \in DOMAIN nodes : nodes[j].key = k}}
      BY DEF Lookup
    <3>2. \A i \in DOMAIN nodes : nodes[i].key = k => nodes[i].value = ref[k]
      BY DEF MapOK
    <3>3. CASE found
      <4>1. nodes[p + 1].key = k /\ nodes[p + 1].value = ref[k] /\ ref[k] # Absent
        BY <2>2, <3>3
      <4> QED BY <2>2, <3>1, <3>2, <3>3, <4>1
    <3>4. CASE ~found
      BY <2>3, <2>4, <3>1, <3>4
    <3> QED BY <3>3, <3>4
  <2>6. found => At(nodes, p) = [key |-> k, value |-> ref[k]]
    BY <2>2 DEF At
  <2>7. Found(v, k) <=> k \in members
    <3>1. Answers(v, k, Index(v, k), Found(v, k))
      BY <1>2, FindAnswers
    <3>2. members = {v[i] : i \in DOMAIN v}
      BY DEF MapOK, ToSet
    <3>3. CASE Found(v, k)
      <4>1. Index(v, k) + 1 \in DOMAIN v
            /\ v[Index(v, k) + 1] = k
        BY <1>3, <3>1, <3>3 DEF Answers
      <4> QED BY <3>2, <3>3, <4>1
    <3>4. CASE ~Found(v, k)
      <4>1. \A i \in DOMAIN v : v[i] < k \/ k < v[i]
        BY <3>1, <3>4 DEF Answers
      <4>2. \A i \in DOMAIN v : v[i] # k
        BY <1>2, <4>1
      <4> QED BY <3>2, <3>4, <4>2
    <3> QED BY <3>3, <3>4
  <2> QED BY <2>4, <2>5, <2>6, <2>7 DEF p, found
<1>5. ToSet(v) = members
  BY DEF MapOK
<1>6. IsInjective(v)
  BY <1>2, SortedOnce DEF IsInjective
<1> QED BY <1>4, <1>5, <1>6 DEF SearchIsFaithful, ks

\* The owner of a token is found whenever there is one, and mint never enters a
\* second one: whatever is inserted and updated in whatever order, the vectors
\* stay sorted and the binary search answers for every key what a scan would.
THEOREM MapIsFaithful == MapSpec => []SearchIsFaithful
<1>1. MapInit => MapOK
  <2> SUFFICES ASSUME MapInit PROVE MapOK
    OBVIOUS
  <2>1. /\ nodes = <<>> /\ ref = [k \in Keys |-> Absent] /\ v = <<>> /\ members = {}
    BY DEF MapInit
  <2>2. DOMAIN nodes = {} /\ DOMAIN v = {}
    BY <2>1
  <2>3. DOMAIN KeysOf(nodes) = {}
    BY <2>2 DEF KeysOf
  <2> QED BY <2>1, <2>2, <2>3 DEF MapOK, Sorted, ToSet
<1>2. MapOK /\ [MapNext]_mapVars => MapOK'
  <2> SUFFICES ASSUME MapOK, [MapNext]_mapVars PROVE MapOK'
    OBVIOUS
  <2>1. CASE UNCHANGED mapVars
    BY <2>1 DEF MapOK, mapVars, KeysOf, ToSet
  <2>2. CASE MapNext
    BY <2>2, InsertKeeps, UpdateKeeps, SetInsertKeeps DEF MapNext
  <2> QED BY <2>1, <2>2
<1>3. MapOK => SearchIsFaithful
  BY FaithfulIfOK
<1> QED BY <1>1, <1>2, <1>3, PTL DEF MapSpec
============================================================================
