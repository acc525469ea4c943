------------------------- MODULE MCMemoryEventStore -------------------------
(***************************************************************************)
(* Instances of MemoryEventStore for TLC: a row, a heavy row and a DDL.    *)
(***************************************************************************)
EXTENDS MemoryEventStore

CONSTANTS smallRow, bigRow, ddlRow

MCKindOf == [e \in Event |-> IF e = ddlRow THEN "DDL" ELSE "ROW"]
MCRawLength == [e \in Event |-> CASE e = bigRow -> 3 [] e = ddlRow -> 2 [] OTHER -> 1]

=============================================================================
