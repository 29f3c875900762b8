------------------------- MODULE NonFungibleToken -------------------------
(***************************************************************************)
(* move/stdlib/modules/NonFungibleToken.move for one type of NFT.  A token *)
(* id is the hash of the token, so Tokens stands for both.  The vector of  *)
(* tokens an address holds is only ever searched by id and shuffled by     *)
(* swap_remove; it is kept as the number of times it holds each token.     *)
(* Configuration.owners is a Map (see SortedMap) from ids to addresses.    *)
(*                                                                         *)
(* A Move transaction that fails an assert leaves no trace, so asserts are *)
(* guards.  A WithdrawCapability can be neither copied nor dropped: it is  *)
(* in its Account, or was moved out of it for good by NftStore2.           *)
(***************************************************************************)
EXTENDS Integers, FiniteSets

CONSTANTS
  Addr,    \* the addresses of the chain
  Tokens,  \* the tokens that can be minted
  Admin,   \* admin_address given to register
  Total,   \* the total given to register
  Nobody   \* no entry in the map of owners

ASSUME NftAssumption == Admin \in Addr /\ Nobody \notin Addr /\ Total \in Nat

VARIABLES
  registered,  \* whether Configuration<Token> exists
  amount,      \* Configuration.amount
  owners,      \* Configuration.owners
  burnt,       \* the ids in Configuration.burned_events
  accepted,    \* the addresses that have an NFT<Token> resource
  held,        \* held[a][t]: how often t occurs in NFT<Token>.tokens of a
  cap          \* cap[a]: "absent" (no Account), "here", or "lent"

nftVars == <<registered, amount, owners, burnt, accepted, held, cap>>

InitNft ==
  /\ registered = FALSE /\ amount = 0 /\ burnt = {}
  /\ owners = [t \in Tokens |-> Nobody]
  /\ accepted = {}
  /\ held = [a \in Addr |-> [t \in Tokens |-> 0]]
  /\ cap = [a \in Addr |-> "absent"]

----------------------------------------------------------------------------
\* By NFT_PUBLISHER; a second move_to of the Configuration aborts.
register ==
  /\ ~registered /\ registered' = TRUE
  /\ UNCHANGED <<amount, owners, burnt, accepted, held, cap>>

make_account(a) ==
  cap' = [cap EXCEPT ![a] = IF @ = "absent" THEN "here" ELSE @]

MakeAccount(a) ==
  make_account(a) /\ UNCHANGED <<registered, amount, owners, burnt, accepted, held>>

\* accept, and the call of it by somebody who may have accepted already.
accept(a) ==
  /\ a \notin accepted
  /\ accepted' = accepted \cup {a} /\ make_account(a)
accept_if_needed(a) ==
  IF a \in accepted THEN UNCHANGED <<accepted, cap>> ELSE accept(a)

Accept(a) == accept(a) /\ UNCHANGED <<registered, amount, owners, burnt, held>>

\* By the administrator.  An id that is in the map already is refused.
mint(receiver, t) ==
  /\ registered /\ receiver \in accepted
  /\ owners[t] = Nobody
  /\ amount + 1 <= Total
  /\ owners' = [owners EXCEPT ![t] = receiver]
  /\ amount' = amount + 1
  /\ held' = [held EXCEPT ![receiver][t] = @ + 1]
  /\ UNCHANGED <<registered, burnt, accepted, cap>>

\* A variant: the amount is not decreased.
BurnUncounted(t) ==
  /\ registered /\ Admin \in accepted
  /\ held[Admin][t] > 0
  /\ held' = [held EXCEPT ![Admin][t] = @ - 1]
  /\ burnt' = burnt \cup {t}
  /\ UNCHANGED <<registered, amount, owners, accepted, cap>>

\* A variant: with the commented-out Map::erase.
BurnAndErase(t) ==
  /\ registered /\ Admin \in accepted
  /\ held[Admin][t] > 0
  /\ held' = [held EXCEPT ![Admin][t] = @ - 1]
  /\ burnt' = burnt \cup {t}
  /\ amount' = IF amount # 0 THEN amount - 1 ELSE amount
  /\ owners' = [owners EXCEPT ![t] = Nobody]
  /\ UNCHANGED <<registered, accepted, cap>>

\* By the administrator, of a token of its own.  The map keeps the id.
burn(t) ==
  /\ registered /\ Admin \in accepted
  /\ held[Admin][t] > 0
  /\ held' = [held EXCEPT ![Admin][t] = @ - 1]
  /\ burnt' = burnt \cup {t}
  /\ amount' = IF amount # 0 THEN amount - 1 ELSE amount
  /\ UNCHANGED <<registered, owners, accepted, cap>>

\* A variant: the map of owners is not brought up to date.
PayKeepsOwner(payer, receiver, t) ==
  /\ registered /\ payer \in accepted
  /\ held[payer][t] > 0 /\ owners[t] # Nobody
  /\ held' = IF payer = receiver THEN held
             ELSE [held EXCEPT ![payer][t] = @ - 1, ![receiver][t] = @ + 1]
  /\ owners' = owners

\* withdraw and deposite of pay_from, for a receiver that has accepted by the
\* time it is paid.
pay_from(payer, receiver, t) ==
  /\ registered /\ payer \in accepted
  /\ held[payer][t] > 0 /\ owners[t] # Nobody
  /\ held' = IF payer = receiver THEN held
             ELSE [held EXCEPT ![payer][t] = @ - 1, ![receiver][t] = @ + 1]
  /\ owners' = [owners EXCEPT ![t] = receiver]

\* transfer, and transfer_by_index, which looks up the id first: the sender
\* must still have its withdraw capability.
transfer(a, receiver, t) ==
  /\ a # receiver /\ cap[a] = "here"
  /\ pay_from(a, receiver, t)

Transfer(a, receiver, t) ==
  /\ receiver \in accepted /\ transfer(a, receiver, t)
  /\ UNCHANGED <<registered, amount, burnt, accepted, cap>>

----------------------------------------------------------------------------
NextNft ==
  \/ register
  \/ \E a \in Addr : MakeAccount(a) \/ Accept(a)
  \/ \E t \in Tokens :
       \/ burn(t)
       \/ \E r \in Addr : mint(r, t)
       \/ \E a, r \in Addr : Transfer(a, r, t)

----------------------------------------------------------------------------
\* Type invariant; amount never exceeds the total that register was given.
NftTypeOK ==
  /\ registered \in BOOLEAN /\ amount \in 0 .. Total
  /\ owners \in [Tokens -> Addr \cup {Nobody}]
  /\ burnt \subseteq Tokens /\ accepted \subseteq Addr
  /\ held \in [Addr -> [Tokens -> Nat]]
  /\ cap \in [Addr -> {"absent", "here", "lent"}]

\* A token is in one account at most, once, and the map of owners names that
\* account, so owner() never sends a buyer to the wrong one: every way a token
\* moves (mint, transfer, pay_from with a lent capability) updates both.
OwnerHolds ==
  \A a \in Addr, t \in Tokens :
    held[a][t] > 0 => held[a][t] = 1 /\ owners[t] = a

InHands == {t \in Tokens : \E a \in Addr : held[a][t] > 0}

\* Configuration.amount, which mint checks against the total, is the number of
\* tokens in accounts (OwnerHolds: each is there once): decrease_nft_amount
\* never meets its zero.
AmountCounts == amount = Cardinality(InHands)

\* A token whose BurnedEvent was emitted is never held again: mint refuses
\* its id for ever, because burn leaves it in the map of owners.
BurnIsFinal == \A t \in burnt : t \notin InHands
============================================================================
