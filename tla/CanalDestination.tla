-------------------------- MODULE CanalDestination --------------------------
(***************************************************************************)
(* A destination from the binlog to the client, with stops, crashes and    *)
(* restarts: the parser and its transaction buffer, the event store, the   *)
(* meta manager with its file, and one client that reads batches in order, *)
(* acks them, rolls back and subscribes again after every restart.  The    *)
(* races between several connections of the client are in                  *)
(* CanalServerWithEmbedded; here requests come one at a time, and what     *)
(* interleaves is the request, the parser thread, the executor thread of   *)
(* the meta manager, and the death of all of them.                         *)
(***************************************************************************)
EXTENDS EventParser, FileMixedMetaManager

\* A null position is a null reference too, and is none of the data of a file.
ASSUME DestinationAssumption ==
  /\ NoPosition = NoEvent
  /\ NoData \notin [subscribed : BOOLEAN, cursor : Event \cup {NoPosition}]

VARIABLES
  request,   \* what the client's request has still to do, "none" between two
  held,      \* the PositionRange it holds
  acked,     \* history: the events of the batches the client has acked
  written    \* history: the file has been written

clientVars == <<request, held>>
history == <<acked, written>>
destinationVars == <<storeVars, parserVars, faults, metaVars, fileVars,
                     clientVars, history>>

NoRange == [start |-> NoEvent, end |-> NoEvent, endSeq |-> -1, ack |-> NoEvent]

ParserUnchanged == UNCHANGED <<parserVars, faults>>
MetaUnchanged == UNCHANGED <<metaVars, fileVars>>

-----------------------------------------------------------------------------
(* The threads of the server. *)

\* MetaLogPositionManager: the cursor of the clients that are subscribed.
LatestIndex == IF subscribed THEN cursor ELSE NoPosition

ParserStep ==
  /\ Parse(LatestIndex)
  /\ MetaUnchanged /\ UNCHANGED <<clientVars, history>>

DumpBreaks ==
  /\ DumpFails
  /\ MetaUnchanged /\ UNCHANGED <<clientVars, history>>

ExecutorStep ==
  /\ FlushStep
  /\ written' = (written \/ dataFile' # NoData)
  /\ ParserUnchanged /\ UNCHANGED <<storeVars, clientVars, acked>>

-----------------------------------------------------------------------------
(* The requests of the client. *)

Requesting(step) == running /\ parser # "stopped" /\ request = step

ClientSubscribe ==
  /\ Requesting("connect")
  /\ SubscribeAndFlush
  /\ request' = "subscribe" /\ UNCHANGED held
  /\ ParserUnchanged /\ UNCHANGED <<storeVars, history>>

\* The cursor is asked for, then the first position of the store.
SubscribeCursor ==
  /\ Requesting("subscribe")
  /\ IF cursor = NoPosition /\ FirstPosition # NoPosition
     THEN /\ AddCursorTask
          /\ request' = "subscribe.cursor"
          /\ held' = [NoRange EXCEPT !.ack = FirstPosition]
     ELSE request' = "none" /\ held' = NoRange /\ UNCHANGED fileVars
  /\ ParserUnchanged /\ UNCHANGED <<storeVars, metaVars, history>>

\* The client goes away and comes back, with or without unsubscribing.
ClientDisconnect ==
  /\ Requesting("none") /\ faults < MaxFaults
  /\ \/ subscribed /\ UnsubscribeAndFlush
     \/ MetaUnchanged
  /\ request' = "connect"
  /\ faults' = faults + 1
  /\ UNCHANGED <<storeVars, parserVars, held, history>>

ClientGet ==
  /\ Requesting("none") /\ subscribed
  /\ \E batchSize \in BatchSizes, end \in getSequence+1..putSequence :
       GetTo(end, batchSize) /\ AddBatch(RangeTo(end))
  /\ ParserUnchanged /\ UNCHANGED <<fileVars, clientVars, history>>

\* The client has processed the batch.  Only a range with an ack point moves
\* the cursor.
AckRemove ==
  /\ Requesting("none") /\ subscribed
  /\ \E id \in DOMAIN batches :
       /\ RemoveBatch(id)
       /\ held' = batches[id]
       /\ acked' = acked \cup {log[q+1] : q \in ackSequence+1..batches[id].endSeq}
       /\ IF batches[id].ack # NoEvent
          THEN AddCursorTask /\ request' = "ack.cursor"
          ELSE request' = "ack.store" /\ UNCHANGED fileVars
  /\ ParserUnchanged /\ UNCHANGED <<storeVars, written>>

WriteCursor ==
  /\ Requesting("ack.cursor") \/ Requesting("subscribe.cursor")
  /\ UpdateCursor(held.ack)
  /\ IF request = "ack.cursor" THEN request' = "ack.store" /\ UNCHANGED held
                               ELSE request' = "none" /\ held' = NoRange
  /\ ParserUnchanged /\ UNCHANGED <<storeVars, fileVars, history>>

\* A faulty variant: the store is not told.
AckNotStored ==
  /\ Requesting("ack.store")
  /\ request' = "none" /\ held' = NoRange
  /\ ParserUnchanged /\ MetaUnchanged /\ UNCHANGED <<storeVars, history>>

AckStore ==
  /\ Requesting("ack.store")
  /\ CleanUntil(held.end, held.endSeq)
  /\ request' = "none" /\ held' = NoRange
  /\ ParserUnchanged /\ MetaUnchanged /\ UNCHANGED history

ClientRollback ==
  /\ Requesting("none") /\ subscribed /\ faults < MaxFaults
  /\ ClearAllBatchs
  /\ Rollback
  /\ faults' = faults + 1
  /\ UNCHANGED <<parserVars, fileVars, clientVars, history>>

-----------------------------------------------------------------------------
(* Start, stop and crash.  The memory of a destination does not survive.   *)

StartInstance ==
  /\ Start
  /\ parser = "stopped" /\ parser' = "finding"
  /\ LoadFile
  /\ UNCHANGED <<next, todo, buffer, logPosition, faults, batches, maxBatchId,
                 fileVars, clientVars, history>>

ForgetMemory ==
  /\ Stop
  /\ parser' = "stopped" /\ next' = 1
  /\ todo' = <<>> /\ buffer' = <<>> /\ logPosition' = NoEvent
  /\ subscribed' = FALSE /\ cursor' = NoPosition
  /\ batches' = [id \in {} |-> {}] /\ maxBatchId' = 1
  /\ updateCursorTasks' = FALSE /\ submitted' = 0
  /\ request' = "connect" /\ held' = NoRange

\* The parser is stopped and joined before anything else.
StopParser ==
  /\ running /\ parser # "stopped" /\ faults < MaxFaults
  /\ parser' = "stopped"
  /\ faults' = faults + 1
  /\ MetaUnchanged
  /\ UNCHANGED <<storeVars, next, todo, buffer, logPosition, clientVars, history>>

\* The meta manager flushes, in the stopping thread; a write of the executor
\* goes on behind its back.
StopInstance ==
  /\ parser = "stopped"
  /\ dataFile' = InstanceData /\ written' = TRUE
  /\ ForgetMemory
  /\ UNCHANGED <<flushing, faults, acked>>

Crash ==
  /\ faults < MaxFaults
  /\ ForgetMemory
  /\ faults' = faults + 1
  /\ flushing' = NoData
  /\ UNCHANGED <<dataFile, history>>

-----------------------------------------------------------------------------
DestinationInit ==
  /\ Init /\ ParserInit /\ MetaInit /\ FileInit
  /\ faults = 0
  /\ request = "connect" /\ held = NoRange
  /\ acked = {} /\ written = FALSE

ClientStep ==
  \/ ClientSubscribe \/ SubscribeCursor \/ ClientGet
  \/ AckRemove \/ WriteCursor \/ AckStore

DestinationNext ==
  \/ StartInstance \/ ParserStep \/ ExecutorStep \/ ClientStep
  \/ DumpBreaks \/ ClientDisconnect \/ ClientRollback
  \/ StopParser \/ StopInstance \/ Crash

\* Every thread goes on, and a destination that is stopped is started again.
DestinationFairness ==
  /\ WF_destinationVars(StartInstance) /\ WF_destinationVars(StopInstance)
  /\ WF_destinationVars(ParserStep)
  /\ WF_destinationVars(ExecutorStep)
  /\ WF_destinationVars(ClientStep)

DestinationSpec ==
  DestinationInit /\ [][DestinationNext]_destinationVars /\ DestinationFairness

-----------------------------------------------------------------------------
DestinationTypeOK ==
  /\ TypeOK
  /\ parser \in {"stopped", "finding", "dumping"}
  /\ next \in 1..Last+1
  /\ Len(buffer) <= TransactionSize
  /\ logPosition \in Event \cup {NoEvent}
  /\ cursor \in Event \cup {NoPosition}
  /\ dataFile # NoData => dataFile.cursor \in Event \cup {NoPosition}
  /\ request \in {"connect", "none", "subscribe", "subscribe.cursor", "ack.cursor", "ack.store"}
  /\ acked \subseteq Event

\* The data the destination is to deliver: what precedes the configured start is
\* never dumped.
Data == {e \in Event : HasData(e) /\ MasterPosition <= e}

\* The data events the destination holds for the client.
Stored == {log[q+1] : q \in ackSequence+1..putSequence}
Gathered == {buffer[i] : i \in DOMAIN buffer}
Received == IF todo = <<>> THEN {} ELSE {next-1}

\* No data event is lost between the binlog and the client: whatever dump,
\* buffer, restart and crash do, an event the dump has passed was acked, or
\* waits in the store, in the transaction buffer or in add().
NothingLost ==
  parser = "dumping" =>
    \A e \in Data : e < next => e \in acked \cup Stored \cup Gathered \cup Received

\* In every run of the destination the client is given the data in the order
\* of the binlog without a gap, up to repetitions: no event is stored before
\* all its predecessors are stored or acked.
NoGap ==
  \A i \in DOMAIN log : \A e \in Data :
    e < log[i] => e \in acked \/ \E j \in 1..i-1 : log[j] = e

\* Neither the cursor in memory nor the one in the file, from which the next
\* start resumes, passes a data event the client has not acked.
CursorsBehindAcks ==
  \A e \in Data :
    /\ e < cursor => e \in acked
    /\ dataFile # NoData /\ e < dataFile.cursor => e \in acked
    /\ flushing # NoData /\ e < flushing.cursor => e \in acked

\* A client without a cursor starts at the last acked event, as long as no put
\* has taken the slot in which the store keeps it: without a cursor nothing is
\* acked yet, or the ring is not full of unacked events.
FirstPositionKept ==
  cursor = NoPosition /\ ackSequence # InitSequence =>
    putSequence - ackSequence < BufferSize

\* Every data event is acked in the end, whatever faults have happened before.
AllAcked == <>(Data \subseteq acked)

\* The last cursor reaches the file ("the newest value in memory is written to
\* the file on a timer"), unless the destination goes down.
CursorReachesFile ==
  \A e \in Event : (running /\ subscribed /\ cursor = e) ~>
    (~ running \/ ~ subscribed \/ cursor # e \/ (dataFile # NoData /\ dataFile.cursor = e))

\* Once written, the file holds some version of the data whenever no write is
\* under way ("overwrite mode, only the last version is kept").
FileSurvives == written /\ flushing = NoData => dataFile # NoData

=============================================================================
