-------------------------- MODULE MCBlockingStore --------------------------
(***************************************************************************)
(* Instances of BlockingEventStore for TLC: a row and a heavy row.         *)
(***************************************************************************)
EXTENDS BlockingEventStore

CONSTANTS smallRow, bigRow

MCKindOf == [e \in Event |-> "ROW"]
MCRawLength == [e \in Event |-> IF e = bigRow THEN 3 ELSE 1]

=============================================================================
