-------------------------- MODULE MCRefreshTokens ---------------------------
(* RefreshTokens for TLC.                                                  *)
EXTENDS RefreshTokens, TLC

Symmetry == Permutations(Calls)
=============================================================================
