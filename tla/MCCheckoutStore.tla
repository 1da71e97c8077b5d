-------------------------- MODULE MCCheckoutStore --------------------------
(* Instances of CheckoutStore for TLC: symmetry and small sets from the cfg. *)
EXTENDS CheckoutStore, TLC

Symmetry == Permutations(Requests) \cup Permutations(Sessions)
              \cup Permutations(Keys) \cup Permutations(Counters)
              \cup Permutations(Cameras)
=============================================================================
