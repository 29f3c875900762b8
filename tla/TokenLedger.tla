---------------------------- MODULE TokenLedger -----------------------------
(***************************************************************************)
(* What the NFT contracts promise together, without accounts, maps,        *)
(* capabilities or lists of orders: every token has one status, and moves  *)
(* between owners by a gift of the owner or by a sale of a token offered.  *)
(***************************************************************************)
EXTENDS Integers

CONSTANTS Addr, Tokens, Prices, Admin

VARIABLE ledger

Unborn        == [is |-> "unborn"]
Free(a)       == [is |-> "free", owner |-> a]
Offered(a, p) == [is |-> "offered", owner |-> a, price |-> p]
Burnt         == [is |-> "burnt"]

LedgerInit == ledger = [t \in Tokens |-> Unborn]

\* What may follow a status of a token: it is minted, given away, offered by
\* its owner, sold or taken back, or burnt by the administrator, who has it.
Turn(s, r) ==
  \/ s.is \in {"unborn", "free", "offered"} /\ r \in {Free(a) : a \in Addr}
  \/ s.is = "free" /\ r \in {Offered(s.owner, p) : p \in Prices}
  \/ s = Free(Admin) /\ r = Burnt

LedgerNext ==
  \E t \in Tokens :
    /\ Turn(ledger[t], ledger'[t])
    /\ \A u \in Tokens \ {t} : ledger'[u] = ledger[u]

LedgerSpec == LedgerInit /\ [][LedgerNext]_ledger
=============================================================================
