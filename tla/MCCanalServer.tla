---------------------------- MODULE MCCanalServer ----------------------------
(***************************************************************************)
(* Instances of CanalServerWithEmbedded for TLC.  MCStream holds two       *)
(* transactions, begin row end / begin row, the second still open; the     *)
(* first transaction of MCGtidStream begins with a GTID event, which is    *)
(* not an ack point.                                                       *)
(***************************************************************************)
EXTENDS CanalServerWithEmbedded

CONSTANTS b1, r1, e1, b2, r2, g1, q1

MCStream == <<b1, r1, e1, b2, r2>>
MCGtidStream == <<g1, q1, r1, e1, b2>>
MCKindOf == [e \in Event |-> CASE e \in {b1, b2} -> "BEGIN" [] e = e1 -> "END"
                               [] e = g1 -> "GTIDBEGIN" [] OTHER -> "ROW"]
MCRawLength == [e \in Event |-> 1]

=============================================================================
