---------------------------- MODULE MCCredentials ----------------------------
(* Credentials on a small instance. *)
EXTENDS Credentials, TLC

Symmetry == Permutations(Users \ Imported) \cup Permutations(Emails)
              \cup Permutations(Words) \cup Permutations(Requests)
=============================================================================
