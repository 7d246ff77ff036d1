-------------------------- MODULE MCRefreshTokens --------------------------
(* Small instances of RefreshTokens for TLC: requests are interchangeable. *)
EXTENDS RefreshTokens, TLC

RequestSymmetry == Permutations(Requests)
=============================================================================
