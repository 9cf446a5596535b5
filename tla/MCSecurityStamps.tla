------------------------- MODULE MCSecurityStamps -------------------------
(* SecurityStamps for TLC: interchangeable renewals.                       *)
EXTENDS SecurityStamps, TLC

Symmetry == Permutations(Renewals)
=============================================================================
