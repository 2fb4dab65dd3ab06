--------------------------- MODULE IndexTablesMC ---------------------------
(* Model values for IndexTables. *)
EXTENDS IndexTables

CONSTANTS s1, s2, i1, i2, text, vector, o1, o2, o3

(* Two operations of one server, the first of a request with a transaction, *)
(* and one of another server.                                               *)
Placed == [o \in Ops |-> IF o = o3 THEN s2 ELSE s1]

(* All use the same new index. *)
SameIndex == [o \in Ops |-> i2]

(* The second was configured otherwise. *)
Configured == [o \in Ops |-> IF o = o2 THEN vector ELSE text]
============================================================================
