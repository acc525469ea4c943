--------------------------- MODULE MCDestination ---------------------------
(***************************************************************************)
(* Instances of CanalDestination for TLC: a transaction of two rows, which *)
(* the transaction buffer splits, a DDL and a transaction of one row.      *)
(***************************************************************************)
EXTENDS CanalDestination

MCKinds == <<"BEGIN", "ROW", "ROW", "END", "DDL", "BEGIN", "ROW", "END">>
MCKindOf == [e \in Event |-> MCKinds[e]]
MCRawLength == [e \in Event |-> 1]

=============================================================================
