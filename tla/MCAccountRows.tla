---------------------------- MODULE MCAccountRows ----------------------------
(* AccountRows for TLC.                                                    *)
EXTENDS AccountRows, TLC

Symmetry == Permutations(Calls) \cup Permutations(Users \ {Target}) \cup Permutations(Roles)
=============================================================================
