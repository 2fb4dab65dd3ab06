---------------------------- MODULE FileCacheMC ----------------------------
(* FileCache for model checking. *)
EXTENDS FileCache, TLC

Symmetry == Permutations(Readers) \union Permutations(Sharers)
============================================================================
