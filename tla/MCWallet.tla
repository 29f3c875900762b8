------------------------------ MODULE MCWallet ------------------------------
(* Bytes of 2 bits, an entropy of 2 bytes and words of 3 bits: a byte      *)
(* boundary lies inside a word and a word boundary inside a byte.          *)
EXTENDS Wallet, TLC

MCHash  == [e \in Entropy |-> (e[1] + 3 * e[2] + 1) % 4]
Symmetry == Permutations(Procs) \cup Permutations(Memory)
MCTyped == UNION {[1 .. n -> Token] : n \in 0 .. 2}
=============================================================================
