------------------------------- MODULE MCSocial -------------------------------
(* Users, whinnies and calls are interchangeable.                          *)
EXTENDS Social, TLC

Symmetry == Permutations(Users) \cup Permutations(Whinnies) \cup Permutations(Calls)
=============================================================================
