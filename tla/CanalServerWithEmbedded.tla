----------------------- MODULE CanalServerWithEmbedded -----------------------
(***************************************************************************)
(* One destination of the canal server                                     *)
(* (server/.../embedded/CanalServerWithEmbedded.java) with its memory      *)
(* event store and memory meta manager.  Requests of one ClientIdentity    *)
(* arrive on several connections, each served by a thread of its own: a    *)
(* client that reconnects has its requests of the old connection still     *)
(* running while the new one is served.                                    *)
(*                                                                         *)
(* get, getWithoutAck and both rollbacks hold the CanalInstance's monitor, *)
(* ack holds nothing: its three effects (removeBatch, updateCursor,        *)
(* store.ack) interleave with everything.  The message of a get holds the  *)
(* Event objects through a lazy view and reads their entries only when it  *)
(* is written to the channel or by the caller.                             *)
(*                                                                         *)
(* The events put are the elements of Stream, each once: sequence q of the *)
(* store is Stream[q+1].                                                   *)
(***************************************************************************)
EXTENDS MemoryEventStore, MemoryMetaManager

CONSTANTS
  Conn,        \* connections, each with the thread serving it
  Free,        \* no thread holds the instance's monitor
  Stream,      \* the events the parser delivers, in order
  Requests,    \* the kinds of request the clients send
  MaxBatchId   \* bound on the batch ids handed out

RequestKind == {"subscribe", "unsubscribe", "getWithoutAck", "get", "ack",
                "rollback", "rollbackBatch"}

ASSUME ServerAssumption ==
  /\ Stream \in Seq(Event)
  /\ \A i, j \in 1..Len(Stream) : Stream[i] = Stream[j] => i = j
  /\ Free \notin Conn
  /\ Requests \subseteq RequestKind
  /\ NoPosition = NoEvent
  /\ Len(Stream) <= MaxLog
  /\ MaxBatchId \in Nat

VARIABLES
  monitor,   \* the connection holding synchronized (canalInstance), or Free
  pc,        \* where the thread of each connection is in its request
  batchId,   \* its batch id argument or result
  range,     \* the PositionRange it holds
  stripped,  \* sequences whose Event object has lost its entry and raw entry
  acked,     \* history: the sequences of the batches whose ack was accepted
  torn       \* history: the rollback of one batch has left later batches behind

threadVars == <<monitor, pc, batchId, range>>
history == <<acked, torn>>
serverVars == <<storeVars, metaVars, threadVars, stripped, history>>

NoRange == [start |-> NoEvent, end |-> NoEvent, endSeq |-> -1, ack |-> NoEvent]

\* The sequence number of an event of the stream.
SeqOf(e) == (CHOOSE i \in 1..Len(Stream) : Stream[i] = e) - 1

SeqsOf(r) == SeqOf(r.start)..r.endSeq

-----------------------------------------------------------------------------
(* Control: a thread moves, enters or leaves the monitor, or returns. *)

Goto(c, label) == pc' = [pc EXCEPT ![c] = label]

Hold(c, id, r) ==
  /\ batchId' = [batchId EXCEPT ![c] = id]
  /\ range' = [range EXCEPT ![c] = r]

\* A faulty variant: no synchronized block.
EnterUnsynchronized(c) == UNCHANGED monitor

Enter(c) == monitor = Free /\ monitor' = c

\* A faulty variant: the monitor stays held.
ReturnHoldingMonitor(c) ==
  Goto(c, "idle") /\ Hold(c, 0, NoRange) /\ UNCHANGED monitor

\* The end of a request, normal or by an exception, outside or inside the
\* monitor.
Return(c) ==
  /\ Goto(c, "idle") /\ Hold(c, 0, NoRange)
  /\ monitor' = IF monitor = c THEN Free ELSE monitor

StoreUnchanged == UNCHANGED <<storeVars, stripped>>

\* checkStart and checkSubscribe pass; without them a request throws or
\* returns with nothing changed.  The code checks the subscription some time
\* before the first effect of a request; an unsubscribe in between changes
\* nothing the request reads, so it may as well come after that effect.
Request(c, kind) == pc[c] = "idle" /\ kind \in Requests /\ running

-----------------------------------------------------------------------------
(* The parser side of the destination. *)

StartInstance ==
  /\ Start
  /\ UNCHANGED <<metaVars, threadVars, stripped, history>>

\* The sink stores the next events of the stream.
Sink ==
  /\ \E n \in 1..MaxData :
       /\ Len(log) + n <= Len(Stream)
       /\ Put(SubSeq(Stream, Len(log)+1, Len(log)+n))
  /\ UNCHANGED <<metaVars, threadVars, stripped, history>>

-----------------------------------------------------------------------------
(* subscribe and unsubscribe. *)

SubscribeMeta(c) ==
  /\ Request(c, "subscribe")
  /\ Subscribe
  /\ Goto(c, "subscribe.getCursor")
  /\ StoreUnchanged /\ UNCHANGED <<monitor, batchId, range, history>>

SubscribeGetCursor(c) ==
  /\ pc[c] = "subscribe.getCursor"
  /\ IF cursor = NoPosition
     THEN Goto(c, "subscribe.getFirst") /\ UNCHANGED <<monitor, batchId, range>>
     ELSE Return(c)
  /\ StoreUnchanged /\ UNCHANGED <<metaVars, history>>

SubscribeGetFirst(c) ==
  /\ pc[c] = "subscribe.getFirst"
  /\ IF FirstPosition # NoPosition
     THEN /\ Goto(c, "subscribe.updateCursor")
          /\ Hold(c, 0, [NoRange EXCEPT !.ack = FirstPosition])
          /\ UNCHANGED monitor
     ELSE Return(c)
  /\ StoreUnchanged /\ UNCHANGED <<metaVars, history>>

SubscribeUpdateCursor(c) ==
  /\ pc[c] = "subscribe.updateCursor"
  /\ UpdateCursor(range[c].ack)
  /\ Return(c)
  /\ StoreUnchanged /\ UNCHANGED history

UnsubscribeMeta(c) ==
  /\ Request(c, "unsubscribe")
  /\ Unsubscribe
  /\ StoreUnchanged /\ UNCHANGED <<threadVars, history>>

-----------------------------------------------------------------------------
(* getWithoutAck and get.  The start position they look up in the meta     *)
(* manager does not influence what the store returns.                      *)

\* get refuses to run over an unacked batch.
Fetch(c, kind) ==
  /\ Request(c, kind) /\ subscribed
  /\ kind = "get" => DOMAIN batches = {}
  /\ maxBatchId <= MaxBatchId
  /\ Enter(c)
  /\ \E batchSize \in BatchSizes, end \in getSequence+1..putSequence :
       GetTo(end, batchSize) /\ Hold(c, 0, RangeTo(end))
  /\ Goto(c, kind)
  /\ UNCHANGED <<metaVars, stripped, history>>

GetWithoutAckAddBatch(c) ==
  /\ pc[c] = "getWithoutAck"
  /\ AddBatch(range[c])
  /\ monitor' = Free
  /\ Goto(c, "reply")
  /\ StoreUnchanged /\ UNCHANGED <<batchId, range, history>>

\* get acks its own batch before it returns, still in the monitor.
GetAddBatch(c) ==
  /\ pc[c] = "get"
  /\ AddBatch(range[c])
  /\ Hold(c, maxBatchId, range[c])
  /\ Goto(c, "get.ack")
  /\ StoreUnchanged /\ UNCHANGED <<monitor, history>>

\* The entries of the message are read.
Reply(c) ==
  /\ pc[c] = "reply"
  /\ Return(c)
  /\ StoreUnchanged /\ UNCHANGED <<metaVars, history>>

-----------------------------------------------------------------------------
(* ack, for a client's request and at the end of get. *)

\* The batch leaves the meta manager; any other id throws.
AckRemove(c, id, label) ==
  /\ RemoveBatch(id)
  /\ Hold(c, id, batches[id])
  /\ Goto(c, label)
  /\ acked' = acked \cup SeqsOf(batches[id])
  /\ StoreUnchanged /\ UNCHANGED <<monitor, torn>>

AckRemoveBatch(c) ==
  /\ Request(c, "ack") /\ subscribed
  /\ \E id \in 1..maxBatchId-1 : AckRemove(c, id, "ack.cursor")

GetRemoveBatch(c) ==
  /\ pc[c] = "get.ack" /\ subscribed
  /\ AckRemove(c, batchId[c], "get.cursor")

\* A client that unsubscribed meanwhile makes the ack inside get throw.
GetAckFails(c) ==
  /\ pc[c] = "get.ack" /\ ~ (subscribed /\ IsFirstBatch(batchId[c]))
  /\ Return(c)
  /\ StoreUnchanged /\ UNCHANGED <<metaVars, history>>

AckUpdateCursor(c) ==
  /\ pc[c] \in {"ack.cursor", "get.cursor"}
  /\ IF range[c].ack # NoEvent THEN UpdateCursor(range[c].ack)
                               ELSE UNCHANGED metaVars
  /\ Goto(c, IF pc[c] = "get.cursor" THEN "get.store" ELSE "ack.store")
  /\ StoreUnchanged /\ UNCHANGED <<monitor, batchId, range, history>>

AckFound(c) == AckMatches(range[c].end, range[c].endSeq) # {}

\* A faulty variant: the server acks whatever is stored.
AckStoreEverything(c) ==
  /\ pc[c] = "ack.store"
  /\ putSequence > ackSequence /\ CleanTo(putSequence)
  /\ Return(c)
  /\ UNCHANGED <<metaVars, stripped, history>>

\* The store drops everything up to the end of the batch; in MEMSIZE mode the
\* Event object there loses its entry.
AckStore(c) ==
  /\ pc[c] \in {"ack.store", "get.store"}
  /\ IF AckFound(c)
     THEN /\ CleanUntil(range[c].end, range[c].endSeq)
          /\ stripped' = IF MemMode THEN stripped \cup {ackSequence'} ELSE stripped
     ELSE StoreUnchanged
  /\ IF pc[c] = "get.store" /\ AckFound(c)
     THEN monitor' = Free /\ Goto(c, "reply") /\ UNCHANGED <<batchId, range>>
     ELSE Return(c)
  /\ UNCHANGED <<metaVars, history>>

-----------------------------------------------------------------------------
(* rollback of all batches and of one. *)

RollbackClear(c) ==
  /\ Request(c, "rollback") /\ subscribed
  /\ Enter(c)
  /\ ClearAllBatchs
  /\ Goto(c, "rollback.store")
  /\ StoreUnchanged /\ UNCHANGED <<batchId, range, history>>

\* Only the batch named leaves the meta manager, the ones after it stay.
RollbackRemove(c) ==
  /\ Request(c, "rollbackBatch") /\ subscribed
  /\ Enter(c)
  /\ \E id \in 1..maxBatchId-1 : RemoveBatch(id)
  /\ torn' = (torn \/ DOMAIN batches' # {})
  /\ Goto(c, "rollback.store")
  /\ StoreUnchanged /\ UNCHANGED <<batchId, range, acked>>

RollbackStore(c) ==
  /\ pc[c] = "rollback.store"
  /\ Rollback
  /\ Return(c)
  /\ UNCHANGED <<metaVars, stripped, history>>

-----------------------------------------------------------------------------
ServerInit ==
  /\ Init
  /\ MetaInit
  /\ monitor = Free
  /\ pc = [c \in Conn |-> "idle"]
  /\ batchId = [c \in Conn |-> 0]
  /\ range = [c \in Conn |-> NoRange]
  /\ stripped = {}
  /\ acked = {} /\ torn = FALSE

Serve(c) ==
  \/ SubscribeMeta(c) \/ SubscribeGetCursor(c) \/ SubscribeGetFirst(c)
  \/ SubscribeUpdateCursor(c) \/ UnsubscribeMeta(c)
  \/ Fetch(c, "getWithoutAck") \/ GetWithoutAckAddBatch(c)
  \/ Fetch(c, "get") \/ GetAddBatch(c) \/ GetRemoveBatch(c) \/ GetAckFails(c)
  \/ Reply(c)
  \/ AckRemoveBatch(c) \/ AckUpdateCursor(c) \/ AckStore(c)
  \/ RollbackClear(c) \/ RollbackRemove(c) \/ RollbackStore(c)

ServerNext == StartInstance \/ Sink \/ \E c \in Conn : Serve(c)

ServerSpec == ServerInit /\ [][ServerNext]_serverVars

-----------------------------------------------------------------------------
ServerTypeOK ==
  /\ TypeOK
  /\ subscribed \in BOOLEAN
  /\ cursor \in Event \cup {NoPosition}
  /\ DOMAIN batches \subseteq 1..maxBatchId-1
  /\ maxBatchId \in 1..MaxBatchId+1
  /\ monitor \in Conn \cup {Free}
  /\ \A c \in Conn : monitor = c <=>
       pc[c] \in {"getWithoutAck", "get", "get.ack", "get.cursor", "get.store",
                  "rollback.store"}
  /\ stripped \subseteq 0..putSequence /\ acked \subseteq 0..fetched
  /\ torn \in BOOLEAN

\* The ids handed out follow the order of the data (the comment at get: who
\* gets the meta first must get the data first): a later unacked batch lies
\* wholly after an earlier one, whichever connection fetched it, as long as no
\* rollback of one batch has left later ones behind.
BatchOrder ==
  ~ torn => \A i, j \in DOMAIN batches :
              i < j => batches[i].endSeq < SeqOf(batches[j].start)

\* What the store has released was in a batch whose ack the server accepted:
\* a rollback makes the events come again before a later ack passes them.
ReleasedWereAcked == 0..ackSequence \subseteq acked

\* The same under full rollbacks, which clear every batch.
OrderlyReleases == ~ torn => ReleasedWereAcked

\* The cursor, from which a restarted destination resumes, never passes an
\* event the client has not acked, whichever of ack and subscribe wrote it.
CursorWasAcked ==
  ~ torn /\ cursor # NoPosition => 0..SeqOf(cursor)-1 \subseteq acked

\* When the entries of a message are read, every one of them is still there.
RepliesComplete ==
  \A c \in Conn : pc[c] = "reply" => SeqsOf(range[c]) \cap stripped = {}

\* Whatever the connections interleave, the store sees only calls its own
\* specification allows, so what holds of every such store holds here.
UsesStore == Spec

=============================================================================
