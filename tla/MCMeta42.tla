------------------------------ MODULE MCMeta42 ------------------------------
(* An instance of Meta42 for TLC. *)
EXTENDS Meta42, TLC

CONSTANTS admin, m1, m2, other, t1, t2, q1, q2

\* Members, tokens and commands are interchangeable, and only invariants are
\* checked.
Interchangeable ==
  Permutations(Members) \cup Permutations(Tokens) \cup Permutations(Queries)
============================================================================
