---------------------------- MODULE MCNftStore2 ----------------------------
(* An instance of NftStore2 for TLC, from the empty chain. *)
EXTENDS NftStore2, TLC

CONSTANTS admin, store, seller, buyer, xus, vls

\* The buyer can pay for one token in xus and, just not, in vls; the store
\* can buy as well.
Coins == [a \in Addr |-> CASE a = buyer -> (xus :> 5) @@ (vls :> 4)
                           [] a = store -> (xus :> 0) @@ (vls :> 6)
                           [] OTHER -> (xus :> 0) @@ (vls :> 0)]

\* Only the buyer has coins, and of one currency.
BuyerCoins == [a \in Addr |-> IF a = buyer THEN (xus :> 5) @@ (vls :> 0)
                                          ELSE (xus :> 0) @@ (vls :> 0)]

\* The two tokens are interchangeable, and every property is about safety.
TokenSymmetry == Permutations(Tokens)
============================================================================
