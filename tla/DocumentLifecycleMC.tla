------------------------ MODULE DocumentLifecycleMC ------------------------
(* Instances of DocumentLifecycle for TLC. *)
EXTENDS DocumentLifecycle, TLC

Symmetry == Permutations(Handlers \ Runners) \union Permutations(Runners \ Handlers)
              \union Permutations(Contents)
=============================================================================
