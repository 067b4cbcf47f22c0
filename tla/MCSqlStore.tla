----------------------------- MODULE MCSqlStore -----------------------------
(***************************************************************************)
(* SqlStore for TLC: two integrators that draw from three keys.            *)
(***************************************************************************)
EXTENDS SqlStore

CONSTANTS i1, i2, k1, k2, k3, email1, email2, profile, plan1, limits,
          a1, a2, uri, token, cipher, quota, p1, empty, nil
=============================================================================
