------------------------------ MODULE MCWsAuth ------------------------------
(* WsAuth for TLC.                                                         *)
EXTENDS WsAuth, TLC

Symmetry == Permutations(Sockets) \cup Permutations(Users)
=============================================================================
