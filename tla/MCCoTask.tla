------------------------------ MODULE MCCoTask ------------------------------
(* An instance of CoTask for TLC. *)
EXTENDS CoTask, TLC

CONSTANTS root, submit, post, check, poll1, poll2, main, w1, w2

\* await_mint_token of meta42: a submission, then a check that asks twice.
Calls == (root :> <<submit, check>>) @@ (submit :> <<post>>) @@ (check :> <<poll1, poll2>>)
           @@ [f \in {post, poll1, poll2} |-> <<>>]
============================================================================
