------------------------------ MODULE SwapPath ------------------------------
(***************************************************************************)
(* find_swap_path of cpp/sdk/src/violas_sdk.cpp (violas_sdk2.cpp has the   *)
(* same text): the chain of exchange pools that a swap is sent through.    *)
(*                                                                         *)
(* A pool joins two coins and holds an amount of each.  The search takes   *)
(* the pools in the direction from the lower to the higher index when a    *)
(* has the lower one, and in the other direction otherwise.                *)
(***************************************************************************)
EXTENDS Integers, SequencesExt

CONSTANTS
  Coins,      \* indexes in currency_codes, at most 32
  Reserves,   \* lists of pools that get_reserves may answer
  Amounts,    \* what the user wants to swap
  Wrap        \* 2^64, the values an uint64_t has

ASSUME SwapAssumption == Coins \subseteq Nat /\ 0 \in Coins

VARIABLE swap

NoSwap == [at |-> "none"]

\* The edges, seen from the coin that is given to the one that is had.
Edge(pool, up) ==
  IF up THEN [from |-> pool.a, in |-> pool.va, to |-> pool.b, out |-> pool.vb]
        ELSE [from |-> pool.b, in |-> pool.vb, to |-> pool.a, out |-> pool.va]

\* dist_to starts with 0 as the coin before every other one.
Begin(a, b, amount, reserves) ==
  [at |-> "search", a |-> a, b |-> b, amount |-> amount,
   edges   |-> [i \in DOMAIN reserves |-> Edge(reserves[i], a < b)],
   dist_to |-> [c \in Coins |-> [pre |-> 0, value |-> 0]],
   minpq   |-> {<<a, amount>>}, i |-> b, path |-> <<>>,
   short   |-> FALSE]      \* a pool was too small, or a product wrapped

SwapInit == swap = NoSwap

Start ==
  /\ swap = NoSwap
  /\ \E a, b \in Coins, amount \in Amounts, reserves \in Reserves :
       a # b /\ swap' = Begin(a, b, amount, reserves)

Available(v, e) == ((v[2] * e.out) % Wrap) \div e.in

TooSmall(v, edges) ==
  \E i \in DOMAIN edges : edges[i].in < v[2] \/ v[2] * edges[i].out >= Wrap

\* A variant: a better value does not replace one that is there.
RelaxFirst(s, v, e) ==
  IF e.in >= v[2] /\ s.dist_to[e.to].value = 0 /\ Available(v, e) > 0
  THEN [s EXCEPT !.dist_to[e.to] = [pre |-> e.from, value |-> Available(v, e)],
                 !.minpq = @ \cup {<<e.to, Available(v, e)>>}]
  ELSE s

relax(s, v, e) ==
  IF e.in >= v[2] /\ s.dist_to[e.to].value < Available(v, e)
  THEN [s EXCEPT !.dist_to[e.to] = [pre |-> e.from, value |-> Available(v, e)],
                 !.minpq = @ \cup {<<e.to, Available(v, e)>>}]
  ELSE s

\* A vertex of the least value is taken, and its edges in the order of the
\* pools.  The division by an empty reserve ends the process.
Pop ==
  /\ swap.at = "search"
  /\ \E v \in swap.minpq :
       /\ \A w \in swap.minpq : v[2] <= w[2]
       /\ LET out == SelectSeq(swap.edges, LAMBDA e : e.from = v[1])
          IN  swap' = IF \E i \in DOMAIN out : out[i].in = 0
                      THEN [swap EXCEPT !.at = "fault"]
                      ELSE FoldLeft(LAMBDA s, e : relax(s, v, e),
                                    [swap EXCEPT !.minpq = @ \ {v},
                                                 !.short = @ \/ TooSmall(v, out)], out)

Searched ==
  /\ swap.at = "search" /\ swap.minpq = {}
  /\ swap' = [swap EXCEPT !.at = "walk"]

\* From b back to a, onto a stack that is read from its top.  The stack of a
\* walk that never comes to a grows without end; Stuck cuts it off.
Walk ==
  /\ swap.at = "walk" /\ swap.i # swap.a /\ swap.i \in Coins
  /\ swap' = [swap EXCEPT !.path = <<swap.i>> \o @, !.i = swap.dist_to[swap.i].pre,
                          !.at = IF Len(swap.path) > Cardinality(Coins)
                                 THEN "stuck" ELSE "walk"]
Arrive ==
  /\ swap.at = "walk" /\ swap.i = swap.a
  /\ swap' = [swap EXCEPT !.path = <<swap.a>> \o @, !.at = "done"]

SwapNext == Start \/ Pop \/ Searched \/ Walk \/ Arrive

----------------------------------------------------------------------------
RECURSIVE Routes(_, _, _)
\* The values of coin b that the routes give from an amount x of coin c.
Routes(c, x, s) ==
  IF c = s.b THEN {x}
  ELSE UNION {LET e == s.edges[i] IN
              IF e.from = c /\ (x * e.out) \div e.in > 0
              THEN Routes(e.to, (x * e.out) \div e.in, s) ELSE {}
              : i \in DOMAIN s.edges}

RECURSIVE Along(_, _, _)
\* What a path gives, or 0 when two of its coins have no pool.
Along(p, x, s) ==
  IF Len(p) = 1 THEN x
  ELSE LET hops == {i \in DOMAIN s.edges : s.edges[i].from = p[1] /\ s.edges[i].to = p[2]}
       IN  IF hops = {} THEN 0
           ELSE LET e == s.edges[Max(hops)] IN Along(Tail(p), (x * e.out) \div e.in, s)

FoundPath == swap.dist_to[swap.b].value > 0

\* "search the most value path": when the search has come to b, the walk back
\* ends and gives a chain of existing pools from a to b.  Unless a pool was too
\* small for an amount or a product did not fit, the search comes to b whenever
\* there is a path, the path gives the value that the search computed, and no
\* route gives more.
MostValue ==
  /\ swap.at = "stuck" => ~FoundPath
  /\ (swap.at = "done" /\ FoundPath) =>
       LET p == swap.path IN
       /\ Head(p) = swap.a /\ Last(p) = swap.b
       /\ \A k \in 1 .. Len(p) - 1 :
            \E i \in DOMAIN swap.edges :
              swap.edges[i].from = p[k] /\ swap.edges[i].to = p[k + 1]
  /\ (swap.at \in {"walk", "done", "stuck"} /\ ~swap.short) =>
       LET all == Routes(swap.a, swap.amount, swap) IN
       /\ FoundPath <=> all # {}
       /\ all # {} => swap.dist_to[swap.b].value = Max(all)
       /\ (swap.at = "done" /\ all # {}) => Along(swap.path, swap.amount, swap) = Max(all)
=============================================================================
