---------------------------- MODULE MCRoleOrder -----------------------------
(* RoleOrder for TLC: two seeded roles and two more that may come and go.    *)
EXTENDS RoleOrder, TLC

CONSTANTS a, b, c, d

MCRoleIds == {a, b, c, d}
MCDefaults == <<a, b>>

Symmetry == Permutations(Requests) \cup Permutations({c, d})
=============================================================================
