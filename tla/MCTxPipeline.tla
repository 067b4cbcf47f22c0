--------------------------- MODULE MCTxPipeline ----------------------------
(***************************************************************************)
(* Instances of TxPipeline for TLC.  Columns that no step of the pipeline  *)
(* tells apart have one value.                                             *)
(***************************************************************************)
EXTENDS TxPipeline, TLC

CONSTANTS i1, i2, k1, k2, k3, a1, a2, p1, w1, w2, h1, h2, h3, nil,
          email1, email2, profile, cipher, token, uri

(* Values that only their identity distinguishes. *)
Symmetry ==
  Permutations(Hashes) \cup Permutations(Workers) \cup Permutations(Ids)
    \cup Permutations(Keys) \cup Permutations(Emails) \cup Permutations(Addrs)
=============================================================================
