------------------------ MODULE MCVisionIntegrations ------------------------
(* VisionIntegrations on a small instance. *)
EXTENDS VisionIntegrations, TLC

Symmetry == Permutations(Integrations) \cup Permutations(Requests)
              \cup Permutations(Endpoints) \cup Permutations(Models)
=============================================================================
