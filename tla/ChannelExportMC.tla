-------------------------- MODULE ChannelExportMC --------------------------
(* Instances of ChannelExport for TLC: requests and exports are interchangeable. *)
EXTENDS ChannelExport, TLC

Symmetry == Permutations(Changers) \union Permutations(Askers) \union Permutations(Exporters)
============================================================================
