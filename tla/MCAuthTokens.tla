---------------------------- MODULE MCAuthTokens ----------------------------
(***************************************************************************)
(* AuthTokens for TLC, in the order of main and in that of the tests.      *)
(***************************************************************************)
EXTENDS AuthTokens

CONSTANTS i1, k1, k2, email1, profile, a1, uri, token1, cipher, nil
=============================================================================
