----------------------------- MODULE MCClient2 -----------------------------
(* Instances of Client2 for TLC. *)
EXTENDS Client2, TLC

CONSTANTS root, user, c1, c2, c3, c4

\* Coroutines beside blocking calls of both kinds, as the meta42 shell and the
\* tests start them.
KindMixed ==
  (c1 :> "await") @@ (c2 :> "await") @@ (c3 :> "sync") @@ (c4 :> "multi")

\* One call of each kind.
KindAgents == (c1 :> "sync") @@ (c2 :> "await") @@ (c3 :> "multi")

KindCoroutines == (c1 :> "await") @@ (c2 :> "await")
============================================================================
