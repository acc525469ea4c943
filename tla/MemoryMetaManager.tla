-------------------------- MODULE MemoryMetaManager --------------------------
(***************************************************************************)
(* What the server remembers of the client of a destination                *)
(* (meta/.../MemoryMetaManager.java): whether it is subscribed, its cursor *)
(* and its unacked batches.  Every operation synchronizes on one object    *)
(* and touches one of the variables, so each is one action.  The model has *)
(* one ClientIdentity: the clients of a destination share one event store, *)
(* and canal serves one of them at a time.                                 *)
(***************************************************************************)
EXTENDS Integers

CONSTANT NoPosition  \* a null Position

VARIABLES
  subscribed,  \* the client is in the destination's list
  cursor,      \* the last position the client acked, or NoPosition
  batches,     \* MemoryClientIdentityBatch.batches: batch id -> PositionRange
  maxBatchId   \* atomicMaxBatchId: the next batch id

metaVars == <<subscribed, cursor, batches, maxBatchId>>

MetaInit ==
  /\ subscribed = FALSE
  /\ cursor = NoPosition
  /\ batches = [id \in {} |-> {}]
  /\ maxBatchId = 1

Subscribe == subscribed' = TRUE /\ UNCHANGED <<cursor, batches, maxBatchId>>

\* The cursor and the batches stay: only the list entry goes.
Unsubscribe == subscribed' = FALSE /\ UNCHANGED <<cursor, batches, maxBatchId>>

UpdateCursor(position) ==
  cursor' = position /\ UNCHANGED <<subscribed, batches, maxBatchId>>

AddBatch(range) ==
  /\ batches' = [id \in DOMAIN batches \cup {maxBatchId} |->
                   IF id = maxBatchId THEN range ELSE batches[id]]
  /\ maxBatchId' = maxBatchId + 1
  /\ UNCHANGED <<subscribed, cursor>>

\* A faulty variant: any known batch may be removed.
IsSomeBatch(id) == id \in DOMAIN batches

\* Only the oldest batch may be removed: removePositionRange returns null for
\* an unknown id and throws for a later one.
IsFirstBatch(id) == id \in DOMAIN batches /\ \A other \in DOMAIN batches : id <= other

RemoveBatch(id) ==
  /\ IsFirstBatch(id)
  /\ batches' = [other \in DOMAIN batches \ {id} |-> batches[other]]
  /\ UNCHANGED <<subscribed, cursor, maxBatchId>>

\* The next id is not reset.
ClearAllBatchs ==
  batches' = [id \in {} |-> {}] /\ UNCHANGED <<subscribed, cursor, maxBatchId>>

=============================================================================
