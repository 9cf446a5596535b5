------------------------------ MODULE MCImages ------------------------------
(* Images for TLC.                                                         *)
EXTENDS Images, TLC

Symmetry == Permutations(Paths) \cup Permutations(Jobs)
=============================================================================
