-------------------------- MODULE ChannelImportMC --------------------------
(* Three documents in two batches; one of them has records for the index. *)
EXTENDS ChannelImport, TLC

CONSTANTS d1, d2, d3, i1

OneHasRecords == d1 :> {i1} @@ d2 :> {} @@ d3 :> {}
============================================================================
