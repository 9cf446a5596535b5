---------------------------- MODULE MCRoomMembers ----------------------------
(* RoomMembers for TLC.                                                    *)
EXTENDS RoomMembers, TLC

Symmetry == Permutations(Users) \cup Permutations(Calls)
=============================================================================
