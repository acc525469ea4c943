-------------------------- MODULE MCGroupEventSink --------------------------
(***************************************************************************)
(* Instances of GroupEventSink for TLC: two databases, each with a         *)
(* transaction that the transaction buffer has split, one of them so that  *)
(* its END is alone, a DDL, and a stream that starts at the END the cursor *)
(* stands on.                                                              *)
(***************************************************************************)
EXTENDS GroupEventSink

CONSTANTS db1, db2

Ev(kind, time) == [kind |-> kind, time |-> time]
Transaction(t) == <<Ev("BEGIN", t), Ev("ROW", t), Ev("END", t)>>

MCLists ==
  [p \in Parser |->
     IF p = db1
     THEN << <<Ev("BEGIN", 1), Ev("ROW", 1)>>, <<Ev("ROW", 1), Ev("END", 2)>>,
             <<Ev("DDL", 3)>> >>
     ELSE << <<Ev("END", 0)>>, <<Ev("BEGIN", 2), Ev("ROW", 2)>>, <<Ev("END", 2)>>,
             Transaction(4) >>]

=============================================================================
