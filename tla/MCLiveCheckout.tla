--------------------------- MODULE MCLiveCheckout ---------------------------
(* Instances of LiveCheckout for TLC.  Symmetry only where no liveness is     *)
(* checked.                                                                   *)
EXTENDS LiveCheckout, TLC

Symmetry == Permutations(Tills) \cup Permutations(Admins) \cup Permutations(Workers)
              \cup Permutations(Sessions) \cup Permutations(Keys)
              \cup Permutations(Tasks)
=============================================================================
