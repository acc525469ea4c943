-------------------------- MODULE AtLeastOnceQueue --------------------------
(***************************************************************************)
(* What an event store promises a single caller (store/.../CanalEventStore *)
(* and the javadoc of CanalServer): a bounded queue that hands out items   *)
(* in order, forgets an item only when it is confirmed, confirms only what *)
(* was handed out, and hands everything unconfirmed out again after a      *)
(* replay.                                                                 *)
(***************************************************************************)
EXTENDS Integers, Sequences

CONSTANTS Item, Capacity

VARIABLES
  pending,  \* the unconfirmed items, oldest first
  sent      \* how many of them have been handed out since the last replay

queueVars == <<pending, sent>>

QInit == pending = <<>> /\ sent = 0

Enqueue(items) ==
  /\ pending' = pending \o items
  /\ UNCHANGED sent

HandOut(n) ==
  /\ sent' = sent + n
  /\ UNCHANGED pending

Confirm(n) ==
  /\ pending' = SubSeq(pending, n+1, Len(pending))
  /\ sent' = sent - n

Replay == sent' = 0 /\ UNCHANGED pending

Clear == pending' = <<>> /\ sent' = 0

QNext ==
  \/ \E n \in 1..Capacity - Len(pending) : \E items \in [1..n -> Item] : Enqueue(items)
  \/ \E n \in 1..Len(pending) - sent : HandOut(n)
  \/ \E n \in 1..sent : Confirm(n)
  \/ Replay
  \/ Clear

QSpec == QInit /\ [][QNext]_queueVars

=============================================================================
