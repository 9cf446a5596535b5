----------------------------- MODULE MCAccounts -----------------------------
(* Accounts for TLC: every profile is of one provider.                     *)
EXTENDS Accounts, TLC

OneProvider == [p \in Profiles |-> "google"]
Symmetry == Permutations(Users) \cup Permutations(Calls) \cup Permutations(Emails)
=============================================================================
