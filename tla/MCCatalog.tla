----------------------------- MODULE MCCatalog ------------------------------
(* Catalog on a small instance: a name whose slug is another's second key. *)
EXTENDS Catalog, TLC

CONSTANTS otherWord, fruitWord

MCSlugs == {<<otherWord>>, <<fruitWord>>, <<fruitWord, 2>>}
MCOtherSlug == <<otherWord>>

Symmetry == Permutations(Categories \ {Default}) \cup Permutations(Requests)
              \cup Permutations(Products) \cup Permutations(Uploads)
=============================================================================
