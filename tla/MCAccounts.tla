----------------------------- MODULE MCAccounts -----------------------------
(* Accounts on a small instance. *)
EXTENDS Accounts, TLC

Symmetry == Permutations(Users) \cup Permutations(Keys)
              \cup Permutations(Items) \cup Permutations(Requests)
=============================================================================
