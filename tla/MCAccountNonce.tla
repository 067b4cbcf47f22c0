--------------------------- MODULE MCAccountNonce ---------------------------
(* Instances of AccountNonce for TLC. *)
EXTENDS AccountNonce, TLC

CONSTANTS q1, q2, q3, q4, o1, o2, faucet, nil

Symmetry == Permutations(Requests)
=============================================================================
