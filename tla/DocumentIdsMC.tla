-------------------------- MODULE DocumentIdsMC ------------------------------
(* Instances of DocumentIds for TLC. *)
EXTENDS DocumentIds, TLC

Symmetry == Permutations(Creators) \union Permutations(Updaters) \union Permutations(Deleters)
              \union Permutations(Urls) \union Permutations(Channels)
=============================================================================
