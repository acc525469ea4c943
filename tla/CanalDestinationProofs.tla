----------------------- MODULE CanalDestinationProofs -----------------------
(***************************************************************************)
(* Proofs about CanalDestination for every binlog, ring, transaction       *)
(* buffer and number of faults.                                            *)
(*                                                                         *)
(* TypeInv says that each part keeps its own invariant: the store those of *)
(* MemoryEventStoreProofs, the parser what add() can have still to do, the *)
(* client that its ranges are ranges of the log.  DataInv says where an    *)
(* event with data can be: all that the dump has passed is acked, in the   *)
(* log, in the transaction buffer or pending; each of the log position,    *)
(* the cursors and the held range precedes nothing but what is acked or in *)
(* the log.  It rests on FirstPositionKept, which ResumeInv proves for a   *)
(* binlog of whole transactions: a batch without an ack point releases the *)
(* store and leaves no cursor, and ResumeInv says that the first batch is  *)
(* not such a one.                                                         *)
(***************************************************************************)
EXTENDS CanalDestination, MemoryEventStoreProofs, SequenceTheorems

StoreOK == Inv /\ SlotsHoldLog /\ GetAheadOfAck

\* What add(entry) can have still to do.
Steps == {<<>>, <<"put">>, <<"flush">>, <<"flush", "put">>, <<"put", "flush">>,
          <<"flush", "put", "flush">>}

ParserOK ==
  /\ parser \in {"stopped", "finding", "dumping"}
  /\ next \in 1..Last+1
  /\ todo \in Steps
  /\ todo # <<>> => next >= 2
  /\ buffer \in Seq(Event) /\ Len(buffer) <= TransactionSize
  /\ logPosition \in Event \cup {NoEvent}
  /\ parser = "finding" => todo = <<>> /\ buffer = <<>>
  /\ ~ running => /\ parser = "stopped" /\ todo = <<>> /\ buffer = <<>>
                  /\ logPosition = NoEvent

\* A range that ends at one of the sequences 0..n, with an ack point, if any,
\* among the events up to there.
RangeIn(r, events, n) ==
  /\ r.endSeq \in 0..n
  /\ r.ack = NoEvent \/ \E q \in 0..r.endSeq : r.ack = events[q+1]

Position == Event \cup {NoPosition}
FileData == [subscribed : BOOLEAN, cursor : Position]

RequestOK ==
  /\ request \in {"connect", "none", "subscribe", "subscribe.cursor", "ack.cursor", "ack.store"}
  /\ request \in {"subscribe.cursor", "ack.cursor"} => held.ack \in Event
  /\ request \in {"ack.cursor", "ack.store"} => held.endSeq \in 0..getSequence
  /\ ~ running => request = "connect"

BatchesOK ==
  /\ \A id \in DOMAIN batches : RangeIn(batches[id], log, getSequence)
  /\ ~ running => DOMAIN batches = {}

MetaOK ==
  /\ subscribed \in BOOLEAN /\ cursor \in Position
  /\ dataFile \in FileData \cup {NoData}
  /\ flushing \in FileData \cup {NoData}
  /\ acked \subseteq Event

ClientOK == RequestOK /\ BatchesOK /\ MetaOK

TypeInv == StoreOK /\ ParserOK /\ ClientOK

-----------------------------------------------------------------------------
(* The event store under the parser and the client. *)

\* What is assumed of the binlog, in numbers.
LEMMA Binlog ==
  /\ Last \in Nat /\ Event = 1..Last /\ Event \subseteq Int
  /\ NoEvent = 0 /\ NoPosition = 0 /\ MasterPosition \in Event
  /\ TransactionSize \in 1..BufferSize
  /\ NoData \notin FileData
BY ParserAssumption, DestinationAssumption, FS_CardinalityType DEF Last, FileData, Position

\* An ack of the client releases the store up to the end of the batch it holds.
AckTo(n) == n = held.endSeq /\ n \in ackSequence+1..getSequence /\ CleanTo(n)

LEMMA AckStoreCleans ==
  ASSUME TypeInv, AckStore PROVE \E n \in Int : AckTo(n)
<1>1. held.endSeq \in 0..getSequence /\ getSequence \in Int /\ ackSequence \in Int
      /\ -1 <= ackSequence
  BY CursorFacts DEF TypeInv, ClientOK, RequestOK, StoreOK, Inv, AckStore, Requesting
<1>2. PICK n \in AckMatches(held.end, held.endSeq) : CleanTo(n)
  BY DEF AckStore, CleanUntil
<1>3. n = held.endSeq /\ n \in Int /\ ackSequence + 1 <= n
  BY <1>1, <1>2 DEF AckMatches
<1> QED BY <1>1, <1>2, <1>3 DEF AckTo

\* What a step of the destination does to the store: nothing, or one of the
\* store's operations.
GoesDown == StopInstance \/ Crash

StoreOperation ==
  \/ UNCHANGED storeVars
  \/ buffer # <<>> /\ Put(buffer) /\ Flush
  \/ \E end \in getSequence+1..putSequence : \E batchSize \in BatchSizes :
       GetTo(end, batchSize)
  \/ AckStore /\ \E n \in Int : AckTo(n)
  \/ Rollback \/ Start
  \/ Stop /\ GoesDown

LEMMA StoreOperations ==
  ASSUME TypeInv, [DestinationNext]_destinationVars PROVE StoreOperation
<1>1. CASE StartInstance \/ StopInstance \/ Crash
  BY <1>1 DEF StartInstance, StopInstance, Crash, ForgetMemory, StoreOperation, GoesDown
<1>2. CASE ParserStep
  <2>1. CASE FindStartPosition(LatestIndex) \/ Receive \/ PutEntry
    BY <2>1 DEF FindStartPosition, Receive, PutEntry, StoreOperation
  <2>2. CASE Flush
    BY <2>2 DEF Flush, Sink, StoreOperation
  <2> QED BY <1>2, <2>1, <2>2 DEF ParserStep, Parse
<1>3. CASE AckStore
  BY <1>3, AckStoreCleans DEF StoreOperation
<1>4. CASE ClientGet
  BY <1>4 DEF ClientGet, StoreOperation
<1>5. CASE ClientRollback
  BY <1>5 DEF ClientRollback, StoreOperation
<1>6. CASE \/ ExecutorStep \/ ClientSubscribe \/ SubscribeCursor \/ AckRemove
           \/ WriteCursor \/ DumpBreaks \/ ClientDisconnect \/ StopParser
           \/ UNCHANGED destinationVars
  BY <1>6 DEF ExecutorStep, ClientSubscribe, SubscribeCursor, AckRemove, WriteCursor,
     DumpBreaks, DumpFails, ClientDisconnect, StopParser, StoreOperation, destinationVars
<1> QED BY <1>1, <1>2, <1>3, <1>4, <1>5, <1>6 DEF DestinationNext, ClientStep

LEMMA NextStoreOK ==
  ASSUME TypeInv, [DestinationNext]_destinationVars PROVE StoreOK'
<1>1. Inv /\ SlotsHoldLog /\ GetAheadOfAck
  BY DEF TypeInv, StoreOK
<1>2. CASE UNCHANGED storeVars
  <2>1. Inv' /\ SlotsHoldLog'
    BY <1>1, <1>2, NextInv, NextSlots
  <2> QED BY <1>1, <1>2, <2>1 DEF StoreOK, storeVars, cursors, GetAheadOfAck
<1>3. CASE buffer # <<>> /\ Put(buffer)
  <2>1. buffer \in Seq(Event)
    BY DEF TypeInv, ParserOK
  <2>2. Inv' /\ SlotsHoldLog'
    BY <1>1, <1>3, <2>1, PutInv, PutSlots
  <2> QED BY <1>1, <1>3, <2>2 DEF StoreOK, Put, GetAheadOfAck
<1>4. ASSUME NEW end \in getSequence+1..putSequence, NEW batchSize \in BatchSizes,
             GetTo(end, batchSize)
      PROVE  StoreOK'
  <2>1. Get(batchSize) /\ GetSome
    BY <1>4 DEF Get, GetSome
  <2>2. Inv' /\ SlotsHoldLog'
    BY <1>1, <2>1, GetInv, NextSlots DEF Next
  <2>3. getSequence' = end /\ ackSequence' = ackSequence
    BY <1>4 DEF GetTo
  <2> QED BY <1>1, <2>2, <2>3, CursorFacts DEF StoreOK, GetAheadOfAck, Inv
<1>5. ASSUME NEW n \in Int, AckTo(n) PROVE StoreOK'
  <2>1. n \in ackSequence+1..fetched /\ n <= getSequence /\ CleanTo(n)
    BY <1>1, <1>5, CursorFacts DEF AckTo, Inv
  <2>2. Inv' /\ SlotsHoldLog'
    BY <1>1, <2>1, CleanToInv, CleanToSlots
  <2> QED BY <2>1, <2>2 DEF StoreOK, CleanTo, GetAheadOfAck
<1>6. CASE Rollback
  <2>1. Inv' /\ SlotsHoldLog'
    BY <1>1, <1>6, RollbackInv, NextSlots DEF Next
  <2> QED BY <1>1, <1>6, <2>1, CursorFacts DEF StoreOK, Rollback, GetAheadOfAck, Inv
<1>7. CASE Start
  <2>1. Inv' /\ SlotsHoldLog'
    BY <1>1, <1>7, NextInv, NextSlots DEF Next
  <2> QED BY <1>1, <1>7, <2>1 DEF StoreOK, Start, cursors, GetAheadOfAck
<1>8. CASE Stop
  <2>1. Inv' /\ SlotsHoldLog'
    BY <1>1, <1>8, StopInv, NextSlots DEF Next
  <2> QED BY <1>8, <2>1 DEF StoreOK, Stop, Reset, GetAheadOfAck, InitSequence
<1> QED BY StoreOperations, <1>2, <1>3, <1>4, <1>5, <1>6, <1>7, <1>8 DEF StoreOperation

\* Except when the destination goes down, the log only grows.
LogGrows ==
  /\ log \in Seq(Event) /\ log' \in Seq(Event) /\ Len(log) <= Len(log')
  /\ \A i \in 1..Len(log) : log'[i] = log[i]

LEMMA LogKept ==
  ASSUME TypeInv, [DestinationNext]_destinationVars, ~ GoesDown
  PROVE  LogGrows
<1>1. log \in Seq(Event) /\ buffer \in Seq(Event) /\ Len(buffer) \in Nat
  BY DEF TypeInv, StoreOK, Inv, TypeOK, ParserOK
<1>2. CASE Put(buffer)
  <2>1. log' = log \o buffer
    BY <1>2 DEF Put
  <2>2. log' \in Seq(Event) /\ Len(log') = Len(log) + Len(buffer)
    BY <1>1, <2>1
  <2> QED BY <1>1, <2>1, <2>2 DEF LogGrows
<1>3. CASE log' = log
  BY <1>1, <1>3 DEF LogGrows
<1>4. Put(buffer) \/ log' = log
  BY StoreOperations DEF StoreOperation, storeVars, GetTo, AckTo, CleanTo, Rollback, Start
<1> QED BY <1>2, <1>3, <1>4

-----------------------------------------------------------------------------
(* The parser. *)

\* A flush in front of what is left of add().
LEMMA FlushFirst ==
  /\ <<"flush">> \o <<"put">> = <<"flush", "put">>
  /\ <<"flush">> \o <<"put", "flush">> = <<"flush", "put", "flush">>
<1> DEFINE x == <<"flush">> \o <<"put">>
           y == <<"flush", "put">>
           u == <<"flush">> \o <<"put", "flush">>
           v == <<"flush", "put", "flush">>
           S == {"flush", "put"}
<1>1. <<"flush">> \in Seq(S) /\ <<"put">> \in Seq(S) /\ <<"put", "flush">> \in Seq(S)
  OBVIOUS
<1>2. /\ x \in Seq(S) /\ Len(x) = 2 /\ x[1] = "flush" /\ x[2] = "put"
      /\ y \in Seq(S) /\ Len(y) = 2 /\ y[1] = "flush" /\ y[2] = "put"
  BY <1>1
<1>3. /\ u \in Seq(S) /\ Len(u) = 3 /\ u[1] = "flush" /\ u[2] = "put" /\ u[3] = "flush"
      /\ v \in Seq(S) /\ Len(v) = 3 /\ v[1] = "flush" /\ v[2] = "put" /\ v[3] = "flush"
  BY <1>1
<1> HIDE DEF x, y, u, v
<1>4. \A i \in 1..2 : i = 1 \/ i = 2
  OBVIOUS
<1>5. \A i \in 1..3 : i = 1 \/ i = 2 \/ i = 3
  OBVIOUS
<1>6. x = y
  BY <1>2, <1>4, SeqEqual
<1>7. u = v
  BY <1>3, <1>5, SeqEqual
<1> QED BY <1>6, <1>7 DEF x, y, u, v

\* What is left of add() after each of its steps.
LEMMA PutDue ==
  ASSUME NEW t \in Steps, t # <<>>, Head(t) = "put"
  PROVE  /\ t \notin {<<>>, <<"flush">>}
         /\ Tail(t) \in {<<>>, <<"flush">>}
         /\ <<"flush">> \o t \in {<<"flush", "put">>, <<"flush", "put", "flush">>}
<1>1. t \in {<<"put">>, <<"put", "flush">>}
  BY DEF Steps
<1>2. CASE t = <<"put">>
  BY <1>2, FlushFirst
<1>3. CASE t = <<"put", "flush">>
  BY <1>3, FlushFirst
<1> QED BY <1>1, <1>2, <1>3

LEMMA FlushDue ==
  ASSUME NEW t \in Steps, t # <<>>, Head(t) = "flush"
  PROVE  \/ t = <<"flush">> /\ Tail(t) = <<>>
         \/ /\ t \notin {<<>>, <<"flush">>}
            /\ Tail(t) \in {<<"put">>, <<"put", "flush">>}
<1>1. t \in {<<"flush">>, <<"flush", "put">>, <<"flush", "put", "flush">>}
  BY DEF Steps
<1>2. CASE t = <<"flush">>
  BY <1>2
<1>3. CASE t = <<"flush", "put">>
  BY <1>3
<1>4. CASE t = <<"flush", "put", "flush">>
  BY <1>4
<1> QED BY <1>1, <1>2, <1>3, <1>4

LEMMA StepsOfEntry ==
  ASSUME NEW e \in Event
  PROVE  AddSteps(e) \in {<<"flush", "put">>, <<"put", "flush">>, <<"put">>}
<1>1. KindOf[e] \in Kind
  BY StoreAssumption
<1>2. CASE KindOf[e] \in {"BEGIN", "GTIDBEGIN"}
  BY <1>2 DEF AddSteps
<1>3. CASE KindOf[e] \in {"END", "DDL"}
  BY <1>3 DEF AddSteps
<1>4. CASE KindOf[e] = "ROW"
  BY <1>4 DEF AddSteps
<1> QED BY <1>1, <1>2, <1>3, <1>4 DEF Kind

\* The position a dump begins at is that of an event.
LEMMA StartIsEvent ==
  ASSUME ParserOK, cursor \in Position
  PROVE  StartPosition(LatestIndex) \in Event
BY Binlog DEF ParserOK, StartPosition, LatestIndex, Position

\* The position that is remembered of a buffer is that of one of its entries.
LEMMA LastTransaction ==
  ASSUME buffer \in Seq(Event), LastTransactionPosition # NoEvent
  PROVE  /\ \E i \in 2..Len(buffer) : LastTransactionPosition = buffer[i]
         /\ KindOf[LastTransactionPosition] = "END"
<1> DEFINE ends == {i \in 2..Len(buffer) : KindOf[buffer[i]] = "END"}
<1>1. ends # {} /\ LastTransactionPosition = buffer[Max(ends)]
  BY DEF LastTransactionPosition
<1>2. ends \in SUBSET (2..Len(buffer)) /\ Len(buffer) \in Int /\ 2 \in Int
  OBVIOUS
<1>3. Max(ends) \in ends
  <2> HIDE DEF ends
  <2> QED BY <1>1, <1>2, IntervalMax
<1> QED BY <1>1, <1>3

LEMMA NextParserOK ==
  ASSUME TypeInv, [DestinationNext]_destinationVars PROVE ParserOK'
<1>1. ParserOK /\ cursor \in Position /\ running \in BOOLEAN
  BY DEF TypeInv, ClientOK, MetaOK, StoreOK, Inv, TypeOK
<1>2. CASE StartInstance
  BY <1>1, <1>2 DEF StartInstance, Start, ParserOK
<1>3. CASE FindStartPosition(LatestIndex)
  <2>1. next' \in Event /\ next' \in 1..Last+1
    BY <1>1, <1>3, StartIsEvent, Binlog DEF FindStartPosition
  <2>2. running /\ todo = <<>>
    BY <1>1, <1>3 DEF FindStartPosition, ParserOK
  <2> QED BY <1>1, <1>3, <2>1, <2>2 DEF FindStartPosition, ParserOK, storeVars
<1>4. CASE Receive
  <2>1. next \in Event /\ next' \in 1..Last+1 /\ next' >= 2
    BY <1>1, <1>4, Binlog DEF Receive, ParserOK
  <2>2. todo' \in Steps
    BY <1>4, <2>1, StepsOfEntry DEF Receive, Steps
  <2>3. running /\ parser = "dumping"
    BY <1>1, <1>4 DEF Receive, ParserOK
  <2> QED BY <1>1, <1>4, <2>1, <2>2, <2>3 DEF Receive, ParserOK, storeVars
<1>5. CASE PutEntry
  <2>1. todo \in Steps /\ todo # <<>> /\ Head(todo) = "put" /\ running /\ next >= 2
        /\ parser = "dumping"
    BY <1>1, <1>5 DEF PutEntry, Due, ParserOK
  <2>2. Tail(todo) \in Steps /\ <<"flush">> \o todo \in Steps
    BY <2>1, PutDue DEF Steps
  <2>3. next - 1 \in Event
    BY <1>1, <2>1, Binlog DEF ParserOK
  <2>4. buffer' \in Seq(Event) /\ Len(buffer') <= TransactionSize
    <3>1. buffer \in Seq(Event) /\ Len(buffer) \in Nat /\ TransactionSize \in Nat
          /\ Len(buffer) <= TransactionSize
      BY <1>1, Binlog, StoreAssumption DEF ParserOK
    <3>2. CASE buffer' = Append(buffer, next-1) /\ Len(buffer) < TransactionSize
      BY <2>3, <3>1, <3>2
    <3> QED BY <1>5, <3>1, <3>2 DEF PutEntry
  <2>5. todo' \in Steps
    BY <1>5, <2>2 DEF PutEntry
  <2> QED BY <1>1, <1>5, <2>1, <2>4, <2>5 DEF PutEntry, ParserOK, storeVars
<1>6. CASE Flush
  <2>1. todo \in Steps /\ todo # <<>> /\ Head(todo) = "flush" /\ running /\ next >= 2
        /\ parser = "dumping"
    BY <1>1, <1>6 DEF Flush, Due, ParserOK
  <2>2. todo' \in Steps
    BY <1>6, <2>1, FlushDue DEF Flush, Steps
  <2>3. logPosition' \in Event \cup {NoEvent}
    BY <1>1, <1>6, LastTransaction DEF Flush, PersistLogPosition, ParserOK
  <2>4. running' = running
    BY <1>6 DEF Flush, Sink, Put, storeVars
  <2>5. buffer' = <<>> /\ UNCHANGED <<parser, next>> /\ TransactionSize \in Nat
    BY <1>6, Binlog, StoreAssumption DEF Flush
  <2> QED BY <1>1, <2>1, <2>2, <2>3, <2>4, <2>5 DEF ParserOK
<1>7. CASE DumpBreaks
  <2>1. running /\ parser = "dumping" /\ TransactionSize \in Nat
    BY <1>1, <1>7, Binlog, StoreAssumption DEF DumpBreaks, DumpFails, ParserOK
  <2>2. parser' = "finding" /\ todo' = <<>> /\ buffer' = <<>>
        /\ UNCHANGED <<running, next, logPosition>>
    BY <1>7 DEF DumpBreaks, DumpFails, storeVars
  <2> QED BY <1>1, <2>1, <2>2 DEF ParserOK, Steps
<1>8. CASE StopParser
  BY <1>1, <1>8 DEF StopParser, ParserOK, storeVars
<1>9. CASE StopInstance \/ Crash
  <2>1. /\ parser' = "stopped" /\ next' = 1 /\ todo' = <<>> /\ buffer' = <<>>
        /\ logPosition' = NoEvent /\ 1 \in 1..Last+1 /\ TransactionSize \in Nat
    BY <1>9, Binlog, StoreAssumption DEF StopInstance, Crash, ForgetMemory
  <2> QED BY <2>1 DEF ParserOK, Steps
<1>10. ASSUME UNCHANGED parserVars, UNCHANGED running PROVE ParserOK'
  BY <1>1, <1>10 DEF ParserOK, parserVars
<1>11. CASE ExecutorStep \/ ClientStep \/ ClientDisconnect \/ ClientRollback
            \/ UNCHANGED destinationVars
  BY <1>10, <1>11 DEF ExecutorStep, ClientStep, ClientSubscribe, SubscribeCursor,
     ClientGet, AckRemove, WriteCursor, AckStore, ClientDisconnect, ClientRollback,
     ParserUnchanged, storeVars, destinationVars, GetTo, CleanUntil, CleanTo, Rollback
<1> QED BY <1>2, <1>3, <1>4, <1>5, <1>6, <1>7, <1>8, <1>9, <1>11
        DEF DestinationNext, ParserStep, Parse

-----------------------------------------------------------------------------
(* The client and what the server remembers of it. *)

\* The facts about the cursors the proofs below need.
LEMMA StoreFacts ==
  ASSUME StoreOK
  PROVE  /\ putSequence \in Int /\ getSequence \in Int /\ ackSequence \in Int
         /\ -1 <= ackSequence /\ ackSequence <= getSequence
         /\ getSequence <= putSequence /\ putSequence = Len(log) - 1
         /\ log \in Seq(Event)
         /\ \A q \in 0..putSequence : log[q+1] \in Event
         /\ \A q \in getSequence+1..putSequence : At(q).event = log[q+1]
<1>1. /\ putSequence \in Int /\ getSequence \in Int /\ ackSequence \in Int
      /\ -1 <= ackSequence /\ ackSequence <= getSequence
      /\ getSequence <= putSequence /\ putSequence = Len(log) - 1
      /\ log \in Seq(Event)
  BY CursorFacts DEF StoreOK, Inv, TypeOK, GetAheadOfAck
<1>2. ASSUME NEW q \in 0..putSequence PROVE log[q+1] \in Event
  <2>1. q + 1 \in 1..Len(log)
    BY <1>1
  <2> QED BY <1>1, <2>1
<1>3. ASSUME NEW q \in getSequence+1..putSequence PROVE At(q).event = log[q+1]
  <2>1. q \in ackSequence+1..putSequence
    BY <1>1
  <2> QED BY <2>1 DEF StoreOK, Inv, UnackedRetained, Full
<1> QED BY <1>1, <1>2, <1>3

\* The range of a batch that get returns.
LEMMA GotRange ==
  ASSUME StoreOK, NEW end \in getSequence+1..putSequence
  PROVE  RangeIn(RangeTo(end), log, end)
<1> DEFINE ackable == {q \in getSequence+1..end : Ackable(q)}
<1>0. end \in 0..end
  BY StoreFacts
<1>1. /\ RangeTo(end).endSeq = end
      /\ RangeTo(end).ack = IF ackable = {} THEN NoEvent ELSE At(Max(ackable)).event
  BY DEF RangeTo
<1>2. CASE ackable # {}
  <2>1. ackable \in SUBSET (getSequence+1..end) /\ getSequence+1 \in Int /\ end \in Int
    BY StoreFacts
  <2>2. Max(ackable) \in ackable
    <3> HIDE DEF ackable
    <3>1. PICK lo \in Int : lo = getSequence+1
      BY <2>1
    <3> QED BY <1>2, <2>1, <3>1, IntervalMax
  <2>3. PICK q \in getSequence+1..end : q = Max(ackable)
    BY <2>1, <2>2
  <2>4. RangeTo(end).ack = At(q).event
    BY <1>1, <1>2, <2>3
  <2>5. q \in getSequence+1..putSequence /\ q \in 0..end
    BY StoreFacts
  <2>6. At(q).event = log[q+1]
    BY <2>5, StoreFacts
  <2> QED BY <1>1, <1>0, <2>4, <2>5, <2>6 DEF RangeIn
<1> QED BY <1>0, <1>1, <1>2 DEF RangeIn

\* A range stays good while the log grows and the get cursor does not go back.
LEMMA RangeKept ==
  ASSUME StoreOK, LogGrows, getSequence' \in Int, getSequence <= getSequence',
         NEW r, RangeIn(r, log, getSequence)
  PROVE  RangeIn(r, log', getSequence')
<1>1. r.endSeq \in 0..getSequence /\ r.endSeq \in 0..getSequence'
  BY StoreFacts DEF RangeIn
<1>2. ASSUME NEW q \in 0..r.endSeq PROVE log'[q+1] = log[q+1]
  <2>1. q + 1 \in 1..Len(log)
    BY <1>1, StoreFacts
  <2> QED BY <2>1 DEF LogGrows
<1> QED BY <1>1, <1>2 DEF RangeIn

\* Every step leaves the get cursor, moves it on with a get or back with a
\* rollback or a stop.
LEMMA GetCursorMoves ==
  ASSUME TypeInv, [DestinationNext]_destinationVars
  PROVE  \/ UNCHANGED getSequence
         \/ ClientGet \/ ClientRollback \/ GoesDown
<1>1. CASE StartInstance \/ DumpBreaks \/ StopParser \/ UNCHANGED destinationVars
  BY <1>1 DEF StartInstance, Start, DumpBreaks, DumpFails, StopParser, destinationVars,
     storeVars, cursors
<1>2. CASE ParserStep
  BY <1>2 DEF ParserStep, Parse, FindStartPosition, Receive, PutEntry, Flush, Sink, Put,
     storeVars, cursors
<1>3. CASE \/ ExecutorStep \/ ClientSubscribe \/ SubscribeCursor \/ AckRemove
           \/ WriteCursor \/ AckStore \/ ClientDisconnect
  BY <1>3 DEF ExecutorStep, ClientSubscribe, SubscribeCursor, AckRemove, WriteCursor,
     AckStore, CleanUntil, CleanTo, ClientDisconnect, storeVars, cursors
<1> QED BY <1>1, <1>2, <1>3 DEF DestinationNext, ClientStep, GoesDown

LEMMA NextBatchesOK ==
  ASSUME TypeInv, StoreOK', [DestinationNext]_destinationVars PROVE BatchesOK'
<1>1. StoreOK /\ BatchesOK
  BY DEF TypeInv, ClientOK
<1>2. getSequence \in Int /\ getSequence' \in Int
  BY <1>1, StoreFacts DEF StoreOK, Inv, TypeOK
<1>3. CASE GoesDown
  BY <1>3 DEF GoesDown, StopInstance, Crash, ForgetMemory, BatchesOK
<1>4. CASE ClientRollback
  BY <1>4 DEF ClientRollback, ClearAllBatchs, BatchesOK
<1>5. ASSUME LogGrows, getSequence <= getSequence', NEW id \in DOMAIN batches,
             batches'[id] = batches[id]
      PROVE  RangeIn(batches'[id], log', getSequence')
  <2>1. RangeIn(batches[id], log, getSequence)
    BY <1>1, <1>5 DEF BatchesOK
  <2>2. PICK r : r = batches[id]
    OBVIOUS
  <2> QED BY <1>1, <1>2, <1>5, <2>1, <2>2, RangeKept
<1>6. CASE ClientGet
  <2>1. PICK batchSize \in BatchSizes, end \in getSequence+1..putSequence :
          GetTo(end, batchSize) /\ AddBatch(RangeTo(end))
    BY <1>6 DEF ClientGet
  <2>2. /\ getSequence' = end /\ running /\ running' /\ log' = log
        /\ end \in 0..end /\ getSequence <= getSequence'
    BY <1>1, <2>1, StoreFacts DEF GetTo
  <2>3. LogGrows
    BY <1>1, <2>2, StoreFacts DEF LogGrows
  <2>4. PICK r : r = RangeTo(end)
    OBVIOUS
  <2>5. RangeIn(r, log', getSequence')
    BY <1>1, <2>2, <2>4, GotRange
  <2>6. /\ DOMAIN batches' = DOMAIN batches \cup {maxBatchId}
        /\ \A id \in DOMAIN batches' :
             batches'[id] = IF id = maxBatchId THEN r ELSE batches[id]
    BY <2>1, <2>4 DEF AddBatch
  <2>7. ASSUME NEW id \in DOMAIN batches' PROVE RangeIn(batches'[id], log', getSequence')
    <3>1. CASE id = maxBatchId
      <4>1. batches'[id] = r
        BY <2>6, <3>1
      <4> QED BY <2>5, <4>1
    <3>2. CASE id # maxBatchId
      <4>1. id \in DOMAIN batches /\ batches'[id] = batches[id]
        BY <2>6, <3>2
      <4> QED BY <1>5, <2>2, <2>3, <4>1
    <3> QED BY <3>1, <3>2
  <2> QED BY <2>2, <2>7 DEF BatchesOK
<1>7. CASE ~ GoesDown /\ ~ ClientRollback /\ ~ ClientGet
  <2>1. LogGrows /\ getSequence' = getSequence
    BY <1>7, LogKept, GetCursorMoves
  <2>2. /\ DOMAIN batches' \subseteq DOMAIN batches
        /\ \A id \in DOMAIN batches' : batches'[id] = batches[id]
    <3>1. CASE AckRemove
      BY <3>1 DEF AckRemove, RemoveBatch
    <3>2. CASE UNCHANGED batches
      BY <3>2
    <3>3. CASE \/ StartInstance \/ ParserStep \/ DumpBreaks \/ StopParser
               \/ ClientDisconnect \/ UNCHANGED destinationVars
      <4>1. UNCHANGED batches
        BY <3>3 DEF StartInstance, ParserStep, DumpBreaks, StopParser, ClientDisconnect,
           UnsubscribeAndFlush, Unsubscribe, MetaUnchanged, metaVars, destinationVars
      <4> QED BY <4>1
    <3>4. CASE \/ ExecutorStep \/ ClientSubscribe \/ SubscribeCursor \/ WriteCursor
               \/ AckStore
      <4>1. UNCHANGED batches
        BY <3>4 DEF ExecutorStep, FlushStep, BeginTimedFlush, BeginSubmittedFlush, Truncate,
           EndFlush, ClientSubscribe, SubscribeAndFlush, Subscribe, SubscribeCursor,
           WriteCursor, UpdateCursor, AckStore, MetaUnchanged, metaVars
      <4> QED BY <4>1
    <3> QED BY <1>7, <3>1, <3>3, <3>4 DEF DestinationNext, ClientStep, GoesDown
  <2>3. ~ running' => DOMAIN batches' = {}
    <3>1. ~ running' => ~ running
      BY <1>7, StoreOperations
         DEF StoreOperation, storeVars, Put, GetTo, AckTo, CleanTo, Rollback, Start
    <3> QED BY <1>1, <2>2, <3>1 DEF BatchesOK
  <2>4. ASSUME NEW id \in DOMAIN batches' PROVE RangeIn(batches'[id], log', getSequence')
    BY <1>2, <1>5, <2>1, <2>2
  <2> QED BY <2>3, <2>4 DEF BatchesOK
<1> QED BY <1>3, <1>4, <1>6, <1>7

\* Only a start and a stop touch running.
LEMMA RunningKept ==
  ASSUME TypeInv, [DestinationNext]_destinationVars, ~ GoesDown
  PROVE  ~ running' => ~ running
BY StoreOperations DEF StoreOperation, storeVars, Put, GetTo, AckTo, CleanTo, Rollback, Start

LEMMA NextRequestOK ==
  ASSUME TypeInv, StoreOK', [DestinationNext]_destinationVars PROVE RequestOK'
<1>1. StoreOK /\ RequestOK /\ BatchesOK
  BY DEF TypeInv, ClientOK
<1>2. CASE GoesDown
  BY <1>2 DEF GoesDown, StopInstance, Crash, ForgetMemory, RequestOK
<1>3. CASE ClientRollback
  <2>1. running /\ running' /\ request = "none" /\ request' = "none"
    BY <1>3 DEF ClientRollback, Requesting, Rollback, clientVars
  <2> QED BY <2>1 DEF RequestOK
<1>4. CASE ClientGet
  <2>1. running /\ running' /\ request = "none" /\ request' = "none"
    BY <1>4 DEF ClientGet, Requesting, GetTo, clientVars
  <2> QED BY <2>1 DEF RequestOK
<1>5. CASE ~ GoesDown /\ ~ ClientRollback /\ ~ ClientGet
  <2>1. getSequence' = getSequence /\ (~ running' => ~ running)
    BY <1>5, GetCursorMoves, RunningKept
  <2>2. CASE UNCHANGED <<request, held>>
    BY <1>1, <2>1, <2>2 DEF RequestOK
  <2>3. CASE ClientSubscribe \/ ClientDisconnect
    BY <1>1, <2>1, <2>3
       DEF ClientSubscribe, ClientDisconnect, Requesting, RequestOK
  <2>4. CASE SubscribeCursor
    <3>1. running /\ request' \in {"none", "subscribe.cursor"}
      BY <2>4 DEF SubscribeCursor, Requesting
    <3>2. request' = "subscribe.cursor" => held'.ack \in Event
      <4> SUFFICES ASSUME request' = "subscribe.cursor" PROVE held'.ack \in Event
        OBVIOUS
      <4>1. FirstPosition # NoPosition /\ held' = [NoRange EXCEPT !.ack = FirstPosition]
        BY <2>4 DEF SubscribeCursor
      <4>2. held'.ack = FirstPosition
        BY <4>1 DEF NoRange
      <4>3. \A q \in Int : At(q).event \in Event \cup {NoEvent}
        <5>1. ASSUME NEW q \in Int PROVE At(q) \in Slot
          BY <1>1, IndexRange DEF StoreOK, Inv, TypeOK, At
        <5> QED BY <5>1 DEF Slot
      <4>4. FirstPosition \in Event \cup {NoEvent}
        BY <1>1, <4>3, StoreFacts DEF FirstPosition
      <4> QED BY <4>1, <4>2, <4>4, Binlog
    <3>3. running'
      BY <2>1, <2>4, <3>1 DEF SubscribeCursor, storeVars
    <3> QED BY <3>1, <3>2, <3>3 DEF RequestOK
  <2>5. CASE AckRemove
    <3>1. PICK id \in DOMAIN batches :
            /\ held' = batches[id]
            /\ IF batches[id].ack # NoEvent THEN request' = "ack.cursor"
                                            ELSE request' = "ack.store"
      BY <2>5 DEF AckRemove
    <3>2. RangeIn(held', log, getSequence)
      BY <1>1, <3>1 DEF BatchesOK
    <3>3. held'.endSeq \in 0..getSequence
      BY <3>2 DEF RangeIn
    <3>4. request' = "ack.cursor" => held'.ack \in Event
      <4>1. ASSUME NEW q \in 0..held'.endSeq PROVE log[q+1] \in Event
        BY <1>1, <3>3, StoreFacts
      <4> QED BY <3>1, <3>2, <4>1 DEF RangeIn
    <3>5. running' /\ request' \in {"ack.cursor", "ack.store"}
      BY <2>5, <3>1 DEF AckRemove, Requesting, storeVars
    <3> QED BY <2>1, <3>3, <3>4, <3>5 DEF RequestOK
  <2>6. CASE WriteCursor
    <3>1. running' /\ running
      BY <2>6 DEF WriteCursor, Requesting, storeVars
    <3>2. \/ request = "ack.cursor" /\ request' = "ack.store" /\ held' = held
          \/ request' = "none"
      BY <2>6 DEF WriteCursor
    <3> QED BY <1>1, <2>1, <3>1, <3>2 DEF RequestOK
  <2>7. CASE AckStore
    <3>1. running' /\ request' = "none"
      BY <2>7 DEF AckStore, CleanUntil, CleanTo
    <3> QED BY <3>1 DEF RequestOK
  <2>8. CASE \/ StartInstance \/ ParserStep \/ DumpBreaks \/ StopParser
             \/ ExecutorStep \/ UNCHANGED destinationVars
    BY <2>2, <2>8 DEF StartInstance, ParserStep, DumpBreaks, StopParser, ExecutorStep,
       clientVars, destinationVars
  <2> QED BY <1>5, <2>3, <2>4, <2>5, <2>6, <2>7, <2>8 DEF DestinationNext, ClientStep, GoesDown
<1> QED BY <1>2, <1>3, <1>4, <1>5

\* What the meta manager writes is data of the file.
LEMMA InstanceDataOK == ASSUME MetaOK PROVE InstanceData \in FileData
BY DEF MetaOK, InstanceData, FileData, Position

LEMMA NextMetaOK ==
  ASSUME TypeInv, [DestinationNext]_destinationVars PROVE MetaOK'
<1>1. StoreOK /\ RequestOK /\ BatchesOK /\ MetaOK
  BY DEF TypeInv, ClientOK
<1>2. CASE GoesDown
  <2>1. /\ subscribed' = FALSE /\ cursor' = NoPosition /\ acked' = acked
        /\ dataFile' \in {dataFile, InstanceData} /\ flushing' \in {flushing, NoData}
    BY <1>2 DEF GoesDown, StopInstance, Crash, ForgetMemory, history
  <2> QED BY <1>1, <2>1, InstanceDataOK DEF MetaOK, Position
<1>3. CASE StartInstance
  <2>1. /\ subscribed' = (dataFile # NoData /\ dataFile.subscribed)
        /\ cursor' = IF dataFile = NoData THEN NoPosition ELSE dataFile.cursor
        /\ UNCHANGED <<dataFile, flushing, acked>>
    BY <1>3 DEF StartInstance, LoadFile, fileVars, history
  <2>2. dataFile # NoData => dataFile.subscribed \in BOOLEAN /\ dataFile.cursor \in Position
    BY <1>1 DEF MetaOK, FileData
  <2> QED BY <1>1, <2>1, <2>2 DEF MetaOK, Position
<1>4. CASE ExecutorStep
  <2>1. /\ UNCHANGED <<subscribed, cursor, acked>>
        /\ dataFile' \in {dataFile, NoData, flushing}
        /\ flushing' \in {flushing, NoData, InstanceData}
    BY <1>4 DEF ExecutorStep, FlushStep, BeginTimedFlush, BeginSubmittedFlush, Truncate,
       EndFlush, metaVars
  <2> QED BY <1>1, <2>1, InstanceDataOK DEF MetaOK
<1>5. CASE AckRemove
  <2>1. PICK id \in DOMAIN batches :
          acked' = acked \cup {log[q+1] : q \in ackSequence+1..batches[id].endSeq}
    BY <1>5 DEF AckRemove
  <2>2. batches[id].endSeq \in 0..getSequence
    BY <1>1 DEF BatchesOK, RangeIn
  <2>3. ASSUME NEW q \in ackSequence+1..batches[id].endSeq PROVE log[q+1] \in Event
    <3>1. q \in 0..putSequence
      BY <1>1, <2>2, StoreFacts
    <3> QED BY <1>1, <3>1, StoreFacts
  <2>4. UNCHANGED <<subscribed, cursor, dataFile, flushing>>
    BY <1>5 DEF AckRemove, RemoveBatch, AddCursorTask, fileVars
  <2> QED BY <1>1, <2>1, <2>3, <2>4 DEF MetaOK
<1>6. CASE WriteCursor
  <2>1. held.ack \in Event
    BY <1>1, <1>6 DEF WriteCursor, Requesting, RequestOK
  <2>2. cursor' = held.ack /\ UNCHANGED <<subscribed, dataFile, flushing, acked>>
    BY <1>6 DEF WriteCursor, UpdateCursor, fileVars, history
  <2> QED BY <1>1, <2>1, <2>2 DEF MetaOK, Position
<1>7. CASE ClientSubscribe \/ ClientDisconnect
  <2>1. subscribed' \in {subscribed, TRUE, FALSE} /\ UNCHANGED <<cursor, dataFile, flushing, acked>>
    BY <1>7 DEF ClientSubscribe, ClientDisconnect, SubscribeAndFlush, Subscribe,
       UnsubscribeAndFlush, Unsubscribe, MetaUnchanged, metaVars, fileVars, history
  <2> QED BY <1>1, <2>1 DEF MetaOK
<1>8. CASE UNCHANGED <<subscribed, cursor, dataFile, flushing, acked>>
  BY <1>1, <1>8 DEF MetaOK
<1>9. CASE SubscribeCursor \/ ClientGet \/ AckStore \/ ClientRollback
  BY <1>8, <1>9 DEF SubscribeCursor, ClientGet, AckStore, ClientRollback, AddCursorTask,
     AddBatch, ClearAllBatchs, MetaUnchanged, metaVars, fileVars, history
<1>10. CASE ParserStep \/ DumpBreaks \/ StopParser \/ UNCHANGED destinationVars
  BY <1>8, <1>10 DEF ParserStep, DumpBreaks, StopParser, MetaUnchanged, metaVars, fileVars,
     history, destinationVars
<1> QED BY <1>2, <1>3, <1>4, <1>5, <1>6, <1>7, <1>9, <1>10
        DEF DestinationNext, ClientStep, GoesDown

LEMMA InitTypeInv == DestinationInit => TypeInv
<1> SUFFICES ASSUME DestinationInit PROVE TypeInv
  OBVIOUS
<1>1. Init /\ ParserInit /\ MetaInit /\ FileInit /\ request = "connect" /\ acked = {}
  BY DEF DestinationInit
<1>2. StoreOK
  BY <1>1, InitInv, InitSlots DEF StoreOK, Init, GetAheadOfAck, InitSequence
<1>3. ParserOK
  <2>1. TransactionSize \in Nat /\ 1 \in 1..Last+1
    BY Binlog, StoreAssumption
  <2> QED BY <1>1, <2>1 DEF ParserInit, ParserOK, Steps, Init
<1>4. ClientOK
  BY <1>1 DEF MetaInit, FileInit, Init, ClientOK, RequestOK, BatchesOK, MetaOK, Position
<1> QED BY <1>2, <1>3, <1>4 DEF TypeInv

LEMMA NextTypeInv == TypeInv /\ [DestinationNext]_destinationVars => TypeInv'
<1> SUFFICES ASSUME TypeInv, [DestinationNext]_destinationVars PROVE TypeInv'
  OBVIOUS
<1>1. StoreOK'
  BY NextStoreOK
<1> QED BY <1>1, NextParserOK, NextRequestOK, NextBatchesOK, NextMetaOK DEF TypeInv, ClientOK

\* Whatever the binlog and however the parts fail, the variables of the
\* destination keep their types; the cursor in the file too, and the log of the
\* store is what its cursors count.
THEOREM DestinationTypeCorrect == DestinationSpec => []DestinationTypeOK
<1>1. TypeInv => DestinationTypeOK
  <2> SUFFICES ASSUME TypeInv PROVE DestinationTypeOK
    OBVIOUS
  <2>1. TypeOK
    BY DEF TypeInv, StoreOK, Inv
  <2>2. dataFile # NoData => dataFile.cursor \in Event \cup {NoPosition}
    BY DEF TypeInv, ClientOK, MetaOK, FileData, Position
  <2> QED BY <2>1, <2>2
          DEF TypeInv, ParserOK, ClientOK, RequestOK, MetaOK, Position, DestinationTypeOK
<1> QED BY <1>1, InitTypeInv, NextTypeInv, PTL DEF DestinationSpec

-----------------------------------------------------------------------------
(* What the destination knows of the data: where an event that the dump    *)
(* has passed can be.                                                      *)

InLog(e) == \E i \in 1..Len(log) : log[i] = e
Known(e) == e \in acked \/ InLog(e)

\* A dump or a client that goes on at p misses nothing.
BehindAcks(p) == \A e \in Data : e < p => e \in acked
BehindLog(p) == \A e \in Data : e < p => Known(e)

\* The sequences 0..n of the log are acked.
AckedTo(n) == \A q \in 0..n : log[q+1] \in acked

\* The entry that add() has not put into the buffer yet.
Pending == IF todo \in {<<>>, <<"flush">>} THEN {} ELSE {next-1}

DumpCovered ==
  parser = "dumping" => \A e \in Data : e < next => Known(e) \/ e \in Gathered \cup Pending

\* The buffer goes on where the log ends.
BufferOrdered ==
  \A i \in 1..Len(buffer) : \A e \in Data :
    e < buffer[i] => Known(e) \/ \E j \in 1..i-1 : buffer[j] = e

HeldOK ==
  /\ request \in {"ack.cursor", "ack.store"} => AckedTo(held.endSeq)
  /\ request \in {"ack.cursor", "subscribe.cursor"} => BehindAcks(held.ack)

CursorsOK ==
  /\ BehindAcks(cursor)
  /\ dataFile # NoData => BehindAcks(dataFile.cursor)
  /\ flushing # NoData => BehindAcks(flushing.cursor)

DataInv ==
  /\ AckedTo(ackSequence) /\ NoGap
  /\ DumpCovered /\ BufferOrdered /\ BehindLog(logPosition)
  /\ HeldOK /\ CursorsOK

\* The history of the acks only grows.
LEMMA AckedKept == ASSUME [DestinationNext]_destinationVars PROVE acked \subseteq acked'
<1>1. CASE GoesDown \/ StartInstance \/ ParserStep \/ ExecutorStep
  BY <1>1 DEF GoesDown, StopInstance, Crash, StartInstance, ParserStep, ExecutorStep, history
<1>2. CASE AckRemove
  BY <1>2 DEF AckRemove
<1>3. CASE \/ ClientSubscribe \/ SubscribeCursor \/ ClientGet \/ WriteCursor \/ AckStore
  BY <1>3 DEF ClientSubscribe, SubscribeCursor, ClientGet, WriteCursor, AckStore, history
<1>4. CASE \/ DumpBreaks \/ ClientDisconnect \/ ClientRollback \/ StopParser
           \/ UNCHANGED destinationVars
  BY <1>4 DEF DumpBreaks, ClientDisconnect, ClientRollback, StopParser, history,
     destinationVars
<1> QED BY <1>1, <1>2, <1>3, <1>4 DEF DestinationNext, ClientStep, GoesDown

\* What is known stays known until the destination goes down.
LEMMA KnownKept ==
  ASSUME TypeInv, [DestinationNext]_destinationVars, ~ GoesDown, NEW e, Known(e)
  PROVE  Known(e)'
<1>1. CASE e \in acked
  BY <1>1, AckedKept DEF Known
<1>2. CASE InLog(e)
  <2>1. PICK i \in 1..Len(log) : log[i] = e
    BY <1>2 DEF InLog
  <2>2. i \in 1..Len(log') /\ log'[i] = e
    BY <2>1, LogKept DEF LogGrows
  <2> QED BY <2>2 DEF Known, InLog
<1> QED BY <1>1, <1>2 DEF Known

\* The slots acked stay acked.
LEMMA AckedToKept ==
  ASSUME TypeInv, [DestinationNext]_destinationVars, ~ GoesDown, NEW n \in Int,
         n <= putSequence, AckedTo(n)
  PROVE  AckedTo(n)'
<1> SUFFICES ASSUME NEW q \in 0..n PROVE log'[q+1] \in acked'
  BY DEF AckedTo
<1>1. q + 1 \in 1..Len(log)
  BY StoreFacts DEF TypeInv
<1>2. log'[q+1] = log[q+1]
  BY <1>1, LogKept DEF LogGrows
<1> QED BY <1>2, AckedKept DEF AckedTo

\* An ack moves the ack cursor to the end of the batch it holds, nothing else
\* but a stop moves it.
LEMMA AckCursorMoves ==
  ASSUME TypeInv, [DestinationNext]_destinationVars
  PROVE  \/ UNCHANGED ackSequence
         \/ GoesDown /\ ackSequence' = -1
         \/ AckStore /\ ackSequence' = held.endSeq /\ log' = log
<1>1. CASE GoesDown
  BY <1>1 DEF GoesDown, StopInstance, Crash, ForgetMemory, Stop, Reset, InitSequence
<1>2. CASE ~ GoesDown
  BY <1>2, StoreOperations
     DEF StoreOperation, storeVars, cursors, Put, GetTo, AckTo, CleanTo, Rollback, Start
<1> QED BY <1>1, <1>2

LEMMA NextAckedTo ==
  ASSUME TypeInv, DataInv, [DestinationNext]_destinationVars PROVE AckedTo(ackSequence)'
<1>1. /\ ackSequence \in Int /\ ackSequence <= putSequence /\ getSequence \in Int
      /\ getSequence <= putSequence /\ putSequence \in Int
  BY StoreFacts DEF TypeInv
<1>2. CASE ackSequence' = ackSequence /\ ~ GoesDown
  BY <1>1, <1>2, AckedToKept DEF DataInv, AckedTo
<1>3. CASE GoesDown
  <2>1. ackSequence' = -1
    BY <1>3 DEF GoesDown, StopInstance, Crash, ForgetMemory, Stop, Reset, InitSequence
  <2> QED BY <2>1 DEF AckedTo
<1>4. CASE AckStore /\ ackSequence' = held.endSeq /\ log' = log
  <2>1. AckedTo(held.endSeq)
    BY <1>4 DEF DataInv, HeldOK, AckStore, Requesting
  <2> QED BY <1>4, <2>1, AckedKept DEF AckedTo
<1> QED BY <1>2, <1>3, <1>4, AckCursorMoves

\* A put appends the buffer to the log, nothing else but a stop touches it.
LEMMA LogMoves ==
  ASSUME TypeInv, [DestinationNext]_destinationVars
  PROVE  \/ UNCHANGED log
         \/ GoesDown /\ log' = <<>>
         \/ /\ log' \in Seq(Event) /\ Len(log') = Len(log) + Len(buffer)
            /\ \A i \in 1..Len(log) : log'[i] = log[i]
            /\ \A i \in 1..Len(buffer) : log'[Len(log) + i] = buffer[i]
<1>1. log \in Seq(Event) /\ buffer \in Seq(Event)
  BY DEF TypeInv, StoreOK, Inv, TypeOK, ParserOK
<1>2. CASE Put(buffer)
  <2>1. log' = log \o buffer
    BY <1>2 DEF Put
  <2> QED BY <1>1, <2>1
<1>3. CASE GoesDown
  BY <1>3 DEF GoesDown, StopInstance, Crash, ForgetMemory, Stop, Reset
<1>4. Put(buffer) \/ GoesDown \/ log' = log
  BY StoreOperations DEF StoreOperation, storeVars, GetTo, AckTo, CleanTo, Rollback, Start
<1> QED BY <1>2, <1>3, <1>4

LEMMA NextNoGap ==
  ASSUME TypeInv, DataInv, [DestinationNext]_destinationVars PROVE NoGap'
<1>1. log \in Seq(Event) /\ buffer \in Seq(Event) /\ Len(log) \in Nat /\ Len(buffer) \in Nat
  BY DEF TypeInv, StoreOK, Inv, TypeOK, ParserOK
<1>2. CASE UNCHANGED log
  BY <1>2, AckedKept DEF DataInv, NoGap, Data
<1>3. CASE log' = <<>>
  BY <1>3 DEF NoGap
<1>4. CASE /\ log' \in Seq(Event) /\ Len(log') = Len(log) + Len(buffer)
           /\ \A i \in 1..Len(log) : log'[i] = log[i]
           /\ \A i \in 1..Len(buffer) : log'[Len(log) + i] = buffer[i]
  <2> SUFFICES ASSUME NEW i \in 1..Len(log'), NEW e \in Data, e < log'[i], e \notin acked'
               PROVE  \E j \in 1..i-1 : log'[j] = e
    BY <1>4 DEF NoGap, Data
  <2>1. e \notin acked
    BY AckedKept
  <2>2. CASE i <= Len(log)
    <3>1. i \in DOMAIN log /\ log'[i] = log[i]
      BY <1>1, <1>4, <2>2
    <3>2. PICK j \in 1..i-1 : log[j] = e
      BY <2>1, <3>1 DEF DataInv, NoGap
    <3>3. j \in 1..Len(log)
      BY <1>1, <2>2
    <3> QED BY <1>4, <3>2, <3>3
  <2>3. CASE i > Len(log)
    <3>1. PICK k \in 1..Len(buffer) : i = Len(log) + k
      <4>1. i - Len(log) \in 1..Len(buffer) /\ i = Len(log) + (i - Len(log))
        BY <1>1, <1>4, <2>3
      <4> QED BY <4>1
    <3>2. e < buffer[k]
      BY <1>4, <3>1
    <3>3. InLog(e) \/ \E j \in 1..k-1 : buffer[j] = e
      BY <2>1, <3>1, <3>2 DEF DataInv, BufferOrdered, Known
    <3>4. CASE InLog(e)
      <4>1. PICK j \in 1..Len(log) : log[j] = e
        BY <3>4 DEF InLog
      <4>2. j \in 1..i-1 /\ log'[j] = e
        BY <1>1, <1>4, <2>3, <4>1
      <4> QED BY <4>2
    <3>5. ASSUME NEW j \in 1..k-1, buffer[j] = e PROVE \E n \in 1..i-1 : log'[n] = e
      <4>1. j \in 1..Len(buffer) /\ Len(log) + j \in 1..i-1
        BY <1>1, <3>1
      <4>2. log'[Len(log) + j] = e
        BY <1>4, <3>5, <4>1
      <4> QED BY <4>1, <4>2
    <3> QED BY <3>3, <3>4, <3>5
  <2> QED BY <1>1, <1>4, <2>2, <2>3
<1> QED BY <1>2, <1>3, <1>4, LogMoves

\* The data of a buffer that is flushed is in the log, whether the flush has
\* stored the buffer or, for want of rows, not.
LEMMA Flushed ==
  ASSUME TypeInv, Flush, NEW e \in Data, NEW i \in 1..Len(buffer), buffer[i] = e
  PROVE  Known(e)'
<1>1. buffer \in Seq(Event) /\ log \in Seq(Event) /\ Len(buffer) \in Nat /\ Len(log) \in Nat
  BY DEF TypeInv, StoreOK, Inv, TypeOK, ParserOK
<1>2. buffer # <<>> /\ HasData(buffer[i])
  BY <1>1 DEF Data
<1>3. Put(buffer)
  BY <1>1, <1>2 DEF Flush, Sink
<1>4. log' = log \o buffer
  BY <1>3 DEF Put
<1>5. /\ Len(log) + i \in 1..Len(log') /\ log'[Len(log) + i] = e
  BY <1>1, <1>4
<1> QED BY <1>5 DEF Known, InLog

\* The position a dump begins at: nothing before it is lost.
LEMMA StartBehindLog ==
  ASSUME TypeInv, DataInv, FindStartPosition(LatestIndex) PROVE BehindLog(StartPosition(LatestIndex))
<1>1. LatestIndex \in {cursor, NoPosition} /\ BehindLog(logPosition) /\ BehindAcks(cursor)
  BY DEF LatestIndex, DataInv, CursorsOK
<1>2. StartPosition(LatestIndex) \in {logPosition, cursor, MasterPosition}
  BY <1>1, Binlog DEF StartPosition
<1>3. BehindLog(cursor)
  BY <1>1 DEF BehindLog, BehindAcks, Known
<1>4. BehindLog(MasterPosition)
  BY Binlog DEF BehindLog, Data
<1> QED BY <1>1, <1>2, <1>3, <1>4

LEMMA NextDumpCovered ==
  ASSUME TypeInv, DataInv, [DestinationNext]_destinationVars PROVE DumpCovered'
<1>1. ParserOK /\ DumpCovered
  BY DEF TypeInv, DataInv
<1> SUFFICES ASSUME parser' = "dumping", NEW e \in Data, e < next', ~ Known(e)'
             PROVE  e \in Gathered' \cup Pending'
  BY DEF DumpCovered, Data
<1>2. ~ GoesDown /\ ~ Known(e) /\ e \in Event /\ e \in Int /\ next \in Int
  <2>1. ~ GoesDown
    BY DEF GoesDown, StopInstance, Crash, ForgetMemory
  <2> QED BY <1>1, <2>1, KnownKept, Binlog DEF Data, ParserOK
<1>3. CASE FindStartPosition(LatestIndex)
  <2>1. next' = StartPosition(LatestIndex)
    BY <1>3 DEF FindStartPosition
  <2> QED BY <1>2, <1>3, <2>1, StartBehindLog DEF BehindLog
<1>4. CASE Receive
  <2>1. next' = next + 1 /\ todo = <<>> /\ parser = "dumping" /\ buffer' = buffer
    BY <1>4 DEF Receive
  <2>2. todo' \notin {<<>>, <<"flush">>}
    <3>1. next \in Event
      BY <1>1, <1>4, Binlog DEF Receive, ParserOK
    <3>2. AddSteps(next) \in {<<"flush", "put">>, <<"put", "flush">>, <<"put">>}
      BY <3>1, StepsOfEntry
    <3>3. todo' \in {<<"flush", "put">>, <<"put", "flush">>, <<"put">>}
      BY <1>4, <3>2 DEF Receive
    <3> QED BY <3>3
  <2>3. Pending' = {next}
    BY <1>2, <2>1, <2>2 DEF Pending
  <2>4. CASE e < next
    BY <1>1, <1>2, <2>1, <2>4 DEF DumpCovered, Pending, Gathered
  <2>5. CASE e = next
    BY <2>3, <2>5
  <2> QED BY <1>2, <2>1, <2>4, <2>5
<1>5. CASE PutEntry
  <2>1. todo \in Steps /\ todo # <<>> /\ Head(todo) = "put" /\ parser = "dumping"
        /\ next' = next /\ buffer \in Seq(Event) /\ Len(buffer) \in Nat
    BY <1>1, <1>5 DEF PutEntry, Due, ParserOK
  <2>2. todo \notin {<<>>, <<"flush">>}
        /\ <<"flush">> \o todo \in {<<"flush", "put">>, <<"flush", "put", "flush">>}
    BY <2>1, PutDue
  <2>3. e \in Gathered \/ e = next-1
    BY <1>1, <1>2, <2>1, <2>2 DEF DumpCovered, Pending
  <2>4. CASE buffer' = Append(buffer, next-1)
    <3>1. /\ DOMAIN buffer' = 1..Len(buffer)+1 /\ DOMAIN buffer = 1..Len(buffer)
          /\ \A i \in 1..Len(buffer) : buffer'[i] = buffer[i]
          /\ buffer'[Len(buffer)+1] = next-1
      <4>1. next - 1 \in Event
        BY <1>1, <2>1, Binlog DEF ParserOK
      <4> QED BY <2>1, <2>4, <4>1
    <3>2. \A i \in DOMAIN buffer : i \in DOMAIN buffer'
      BY <2>1, <3>1
    <3>3. Len(buffer)+1 \in DOMAIN buffer'
      BY <2>1, <3>1
    <3>4. Gathered \subseteq Gathered' /\ next-1 \in Gathered'
      BY <3>1, <3>2, <3>3 DEF Gathered
    <3> QED BY <2>3, <3>4
  <2>5. CASE todo' = <<"flush">> \o todo /\ buffer' = buffer
    <3>1. todo' \notin {<<>>, <<"flush">>}
      BY <2>2, <2>5
    <3>2. Pending' = {next-1} /\ Gathered' = Gathered
      BY <2>1, <2>5, <3>1 DEF Pending, Gathered
    <3> QED BY <2>3, <3>2
  <2> QED BY <1>5, <2>4, <2>5 DEF PutEntry
<1>6. CASE Flush
  <2>1. todo \in Steps /\ todo # <<>> /\ Head(todo) = "flush" /\ parser = "dumping"
        /\ next' = next /\ todo' = Tail(todo) /\ buffer \in Seq(Event)
    BY <1>1, <1>6 DEF Flush, Due, ParserOK
  <2>2. e \notin Gathered
    <3> SUFFICES ASSUME NEW i \in DOMAIN buffer, buffer[i] = e PROVE FALSE
      BY DEF Gathered
    <3>1. i \in 1..Len(buffer)
      BY <2>1
    <3> QED BY <1>6, <3>1, Flushed
  <2>3. todo \notin {<<>>, <<"flush">>} /\ e = next-1
    BY <1>1, <1>2, <2>1, <2>2 DEF DumpCovered, Pending
  <2>4. todo' \in {<<"put">>, <<"put", "flush">>}
    BY <2>1, <2>3, FlushDue
  <2>5. todo' \notin {<<>>, <<"flush">>}
    BY <2>4
  <2> QED BY <2>1, <2>3, <2>5 DEF Pending
<1>7. CASE UNCHANGED parserVars
  BY <1>1, <1>2, <1>7 DEF DumpCovered, Gathered, Pending, parserVars
<1>8. CASE ExecutorStep \/ ClientStep \/ ClientDisconnect \/ ClientRollback
           \/ UNCHANGED destinationVars
  BY <1>7, <1>8 DEF ExecutorStep, ClientStep, ClientSubscribe, SubscribeCursor,
     ClientGet, AckRemove, WriteCursor, AckStore, ClientDisconnect, ClientRollback,
     ParserUnchanged, destinationVars
<1>9. ~ StartInstance /\ ~ DumpBreaks /\ ~ StopParser
  BY DEF StartInstance, DumpBreaks, DumpFails, StopParser
<1> QED BY <1>2, <1>3, <1>4, <1>5, <1>6, <1>8, <1>9
        DEF DestinationNext, ParserStep, Parse, GoesDown

LEMMA NextBufferOrdered ==
  ASSUME TypeInv, DataInv, [DestinationNext]_destinationVars PROVE BufferOrdered'
<1>1. ParserOK /\ DumpCovered /\ BufferOrdered
  BY DEF TypeInv, DataInv
<1>2. CASE buffer' = <<>>
  BY <1>2 DEF BufferOrdered
<1>3. CASE UNCHANGED buffer /\ ~ GoesDown
  BY <1>1, <1>3, KnownKept DEF BufferOrdered, Data
<1>4. CASE PutEntry /\ ~ GoesDown
  <2>1. todo \in Steps /\ todo # <<>> /\ Head(todo) = "put" /\ parser = "dumping"
        /\ buffer \in Seq(Event) /\ Len(buffer) \in Nat /\ next \in Int
    BY <1>1, <1>4 DEF PutEntry, Due, ParserOK
  <2>2. CASE buffer' = Append(buffer, next-1)
    <3>1. /\ Len(buffer') = Len(buffer)+1
          /\ \A i \in 1..Len(buffer) : buffer'[i] = buffer[i]
          /\ buffer'[Len(buffer)+1] = next-1
      <4>1. next - 1 \in Event
        BY <1>1, <2>1, Binlog DEF ParserOK
      <4> QED BY <2>1, <2>2, <4>1
    <3> SUFFICES ASSUME NEW i \in 1..Len(buffer'), NEW e \in Data, e < buffer'[i], ~ Known(e)'
                 PROVE  \E j \in 1..i-1 : buffer'[j] = e
      BY DEF BufferOrdered, Data
    <3>2. ~ Known(e) /\ e \in Int
      BY <1>4, KnownKept, Binlog DEF Data
    <3>3. CASE i \in 1..Len(buffer)
      <4>1. PICK j \in 1..i-1 : buffer[j] = e
        BY <1>1, <3>1, <3>2, <3>3 DEF BufferOrdered
      <4>2. j \in 1..Len(buffer)
        BY <2>1, <3>3
      <4> QED BY <3>1, <4>1, <4>2
    <3>4. CASE i = Len(buffer)+1
      <4>1. e < next-1
        BY <3>1, <3>4
      <4>2. e \in Gathered \cup Pending
        BY <1>1, <2>1, <3>2, <4>1 DEF DumpCovered
      <4>3. e \in Gathered
        BY <2>1, <3>2, <4>1, <4>2 DEF Pending
      <4>4. PICK j \in 1..Len(buffer) : buffer[j] = e
        BY <2>1, <4>3 DEF Gathered
      <4>5. j \in 1..i-1
        BY <2>1, <3>4
      <4> QED BY <3>1, <4>4, <4>5
    <3> QED BY <2>1, <3>1, <3>3, <3>4
  <2> QED BY <1>3, <1>4, <2>2 DEF PutEntry
<1>5. CASE GoesDown \/ Flush \/ DumpBreaks
  BY <1>2, <1>5 DEF GoesDown, StopInstance, Crash, ForgetMemory, Flush, DumpBreaks, DumpFails
<1>6. UNCHANGED buffer \/ PutEntry \/ Flush \/ DumpBreaks \/ GoesDown
  <2>1. CASE ParserStep
    BY <2>1 DEF ParserStep, Parse, FindStartPosition, Receive
  <2>2. CASE \/ ExecutorStep \/ ClientStep \/ ClientDisconnect \/ ClientRollback
             \/ StartInstance \/ StopParser \/ UNCHANGED destinationVars
    BY <2>2 DEF ExecutorStep, ClientStep, ClientSubscribe, SubscribeCursor,
       ClientGet, AckRemove, WriteCursor, AckStore, ClientDisconnect, ClientRollback,
       StartInstance, StopParser, ParserUnchanged, parserVars, destinationVars
  <2> QED BY <2>1, <2>2 DEF DestinationNext, GoesDown
<1> QED BY <1>3, <1>4, <1>5, <1>6

LEMMA NextLogPosition ==
  ASSUME TypeInv, DataInv, [DestinationNext]_destinationVars
  PROVE  BehindLog(logPosition)'
<1>1. BehindLog(logPosition) /\ BufferOrdered /\ buffer \in Seq(Event)
      /\ logPosition \in Event \cup {NoEvent}
  BY DEF TypeInv, ParserOK, DataInv
<1>2. CASE UNCHANGED logPosition /\ ~ GoesDown
  BY <1>1, <1>2, KnownKept DEF BehindLog, Data
<1>3. CASE Flush /\ ~ GoesDown /\ logPosition' # logPosition
  <2>1. logPosition' = LastTransactionPosition /\ LastTransactionPosition # NoEvent
    BY <1>3 DEF Flush, PersistLogPosition
  <2>2. PICK i \in 2..Len(buffer) : LastTransactionPosition = buffer[i]
    BY <1>1, <2>1, LastTransaction
  <2> SUFFICES ASSUME NEW e \in Data, e < buffer[i], ~ Known(e)' PROVE FALSE
    BY <2>1, <2>2 DEF BehindLog, Data
  <2>3. ~ Known(e) /\ i \in 1..Len(buffer)
    BY <1>1, <1>3, KnownKept
  <2>4. PICK j \in 1..i-1 : buffer[j] = e
    BY <1>1, <2>3 DEF BufferOrdered
  <2>5. j \in 1..Len(buffer)
    BY <1>1
  <2> QED BY <1>3, <2>4, <2>5, Flushed
<1>4. CASE GoesDown
  <2>1. logPosition' = NoEvent
    BY <1>4 DEF GoesDown, StopInstance, Crash, ForgetMemory
  <2>2. \A e \in Data' : ~ (e < 0)
    BY Binlog DEF Data
  <2> QED BY <2>1, <2>2, Binlog DEF BehindLog
<1>5. UNCHANGED logPosition \/ Flush \/ GoesDown
  <2>1. CASE ParserStep
    BY <2>1 DEF ParserStep, Parse, FindStartPosition, Receive, PutEntry
  <2>2. CASE \/ ExecutorStep \/ ClientStep \/ ClientDisconnect \/ ClientRollback \/ DumpBreaks
             \/ StartInstance \/ StopParser \/ UNCHANGED destinationVars
    BY <2>2 DEF ExecutorStep, ClientStep, ClientSubscribe, SubscribeCursor,
       ClientGet, AckRemove, WriteCursor, AckStore, ClientDisconnect, ClientRollback,
       StartInstance, StopParser, DumpBreaks, DumpFails, ParserUnchanged, parserVars,
       destinationVars
  <2> QED BY <2>1, <2>2 DEF DestinationNext, GoesDown
<1> QED BY <1>2, <1>3, <1>4, <1>5

\* Everything before an event of the log whose predecessors are acked is acked.
LEMMA AckedBehind ==
  ASSUME StoreOK, NoGap, NEW q \in 0..putSequence,
         NEW after, acked \subseteq after, \A p \in 0..q-1 : log[p+1] \in after
  PROVE  \A e \in Data : e < log[q+1] => e \in after
<1> SUFFICES ASSUME NEW e \in Data, e < log[q+1], e \notin acked PROVE e \in after
  OBVIOUS
<1>1. q+1 \in DOMAIN log /\ q \in Int
  BY StoreFacts
<1>2. PICK j \in 1..q : log[j] = e
  BY <1>1 DEF NoGap
<1>3. PICK p \in 0..q-1 : j = p + 1
  <2>1. j - 1 \in 0..q-1 /\ j = (j - 1) + 1
    BY <1>1
  <2> QED BY <2>1
<1> QED BY <1>2, <1>3

\* A client that starts at the first position misses nothing.
LEMMA FirstPositionBehind ==
  ASSUME TypeInv, DataInv, FirstPositionKept, cursor = NoPosition,
         FirstPosition # NoPosition
  PROVE  BehindAcks(FirstPosition)
<1>1. /\ putSequence \in Int /\ ackSequence \in Int /\ -1 <= ackSequence
      /\ ackSequence <= getSequence /\ ackSequence <= putSequence /\ StoreOK
      /\ getSequence \in Int /\ NoGap /\ AckedTo(ackSequence)
  BY StoreFacts DEF TypeInv, DataInv
<1>2. putSequence # -1 /\ FirstPosition # NoEvent
  BY Binlog DEF FirstPosition, InitSequence
<1>3. CASE ackSequence = -1
  <2>1. FirstPosition = At(0).event /\ 0 \in ackSequence+1..putSequence
    BY <1>1, <1>2, <1>3 DEF FirstPosition, InitSequence
  <2>2. FirstPosition = log[0+1]
    BY <1>1, <2>1 DEF StoreOK, Inv, UnackedRetained, Full
  <2>3. 0 \in 0..putSequence /\ \A p \in 0..0-1 : log[p+1] \in acked
    BY <1>1, <1>3, <2>1
  <2> QED BY <1>1, <2>2, <2>3, AckedBehind DEF BehindAcks
<1>4. CASE ackSequence # -1
  <2>1. FirstPosition = At(ackSequence).event
    BY <1>2, <1>4 DEF FirstPosition, InitSequence
  <2>2. ackSequence \in 0..putSequence /\ ackSequence > putSequence - BufferSize
    BY <1>1, <1>4, StoreAssumption DEF FirstPositionKept, InitSequence
  <2>3. At(ackSequence) # Empty
    BY <1>2, <2>1 DEF Empty
  <2>4. FirstPosition = log[ackSequence+1]
    BY <1>1, <2>1, <2>2, <2>3 DEF StoreOK, SlotsHoldLog
  <2>5. \A p \in 0..ackSequence-1 : log[p+1] \in acked
    BY <1>1 DEF AckedTo
  <2> QED BY <1>1, <2>2, <2>4, <2>5, AckedBehind DEF BehindAcks
<1> QED BY <1>3, <1>4

LEMMA NextHeldOK ==
  ASSUME TypeInv, DataInv, FirstPositionKept, [DestinationNext]_destinationVars
  PROVE  HeldOK'
<1>1. StoreOK /\ RequestOK /\ BatchesOK /\ HeldOK /\ NoGap /\ AckedTo(ackSequence)
  BY DEF TypeInv, ClientOK, DataInv
<1>2. /\ putSequence \in Int /\ getSequence \in Int /\ getSequence <= putSequence
      /\ ackSequence \in Int /\ ackSequence <= getSequence
  BY <1>1, StoreFacts
<1>3. CASE request' \notin {"ack.cursor", "ack.store", "subscribe.cursor"}
  BY <1>3 DEF HeldOK
<1>4. CASE /\ held' = held /\ ~ GoesDown
           /\ \/ request' = request
              \/ request = "ack.cursor" /\ request' = "ack.store"
  <2>1. request \in {"ack.cursor", "ack.store"} => AckedTo(held.endSeq)'
    <3> SUFFICES ASSUME request \in {"ack.cursor", "ack.store"} PROVE AckedTo(held.endSeq)'
      OBVIOUS
    <3>1. PICK n : n = held.endSeq
      OBVIOUS
    <3>2. n \in Int /\ n <= putSequence /\ AckedTo(n)
      BY <1>1, <1>2, <3>1 DEF RequestOK, HeldOK
    <3>3. AckedTo(n)'
      BY <1>4, <3>2, AckedToKept
    <3> QED BY <1>4, <3>1, <3>3
  <2>2. request \in {"ack.cursor", "subscribe.cursor"} => BehindAcks(held.ack)'
    BY <1>1, <1>4, AckedKept DEF HeldOK, BehindAcks, Data
  <2> QED BY <1>4, <2>1, <2>2 DEF HeldOK
<1>5. CASE AckRemove
  <2>1. PICK r \in {batches[id] : id \in DOMAIN batches} :
          /\ held' = r
          /\ acked' = acked \cup {log[q+1] : q \in ackSequence+1..r.endSeq}
          /\ IF r.ack # NoEvent THEN request' = "ack.cursor" ELSE request' = "ack.store"
    BY <1>5 DEF AckRemove
  <2>2. RangeIn(r, log, getSequence) /\ log' = log
    BY <1>1, <1>5, <2>1 DEF BatchesOK, AckRemove, storeVars
  <2>3. ASSUME NEW q \in 0..r.endSeq PROVE log[q+1] \in acked'
    <3>1. CASE q <= ackSequence
      BY <1>1, <1>2, <2>1, <3>1 DEF AckedTo
    <3>2. CASE q > ackSequence
      <4>1. q \in ackSequence+1..r.endSeq
        BY <1>2, <2>2, <3>2 DEF RangeIn
      <4> QED BY <2>1, <4>1
    <3> QED BY <1>2, <3>1, <3>2
  <2>4. AckedTo(held.endSeq)'
    BY <2>1, <2>2, <2>3 DEF AckedTo
  <2>5. request' = "ack.cursor" => BehindAcks(held.ack)'
    <3> SUFFICES ASSUME r.ack # NoEvent PROVE BehindAcks(held.ack)'
      BY <2>1
    <3>1. PICK q \in 0..r.endSeq : r.ack = log[q+1]
      BY <2>2 DEF RangeIn
    <3>2. q \in 0..putSequence /\ \A p \in 0..q-1 : log[p+1] \in acked'
      BY <1>2, <2>2, <2>3 DEF RangeIn
    <3>3. \A e \in Data : e < log[q+1] => e \in acked'
      <4>1. PICK after : after = acked'
        OBVIOUS
      <4> QED BY <1>1, <2>1, <3>2, <4>1, AckedBehind
    <3> QED BY <2>1, <3>1, <3>3 DEF BehindAcks, Data
  <2>6. request' \in {"ack.cursor", "ack.store"}
    BY <2>1
  <2> QED BY <2>4, <2>5, <2>6 DEF HeldOK
<1>6. CASE SubscribeCursor
  <2>1. \/ request' = "none"
        \/ /\ request' = "subscribe.cursor" /\ cursor = NoPosition
           /\ FirstPosition # NoPosition /\ held' = [NoRange EXCEPT !.ack = FirstPosition]
    BY <1>6 DEF SubscribeCursor
  <2>2. ASSUME cursor = NoPosition, FirstPosition # NoPosition,
               held' = [NoRange EXCEPT !.ack = FirstPosition]
        PROVE  BehindAcks(held.ack)'
    <3>1. held'.ack = FirstPosition
      BY <2>2 DEF NoRange
    <3>2. BehindAcks(FirstPosition)
      BY <2>2, FirstPositionBehind
    <3> QED BY <3>1, <3>2, AckedKept DEF BehindAcks, Data
  <2> QED BY <1>3, <2>1, <2>2 DEF HeldOK
<1>7. CASE GoesDown \/ ClientSubscribe \/ AckStore \/ ClientDisconnect
  BY <1>3, <1>7 DEF GoesDown, StopInstance, Crash, ForgetMemory, ClientSubscribe, AckStore,
     ClientDisconnect
<1>8. CASE WriteCursor /\ ~ GoesDown
  BY <1>3, <1>4, <1>8 DEF WriteCursor
<1>9. CASE /\ ~ GoesDown
           /\ \/ StartInstance \/ ParserStep \/ ExecutorStep \/ ClientGet \/ DumpBreaks
              \/ ClientRollback \/ StopParser \/ UNCHANGED destinationVars
  <2>1. request' = request /\ held' = held
    BY <1>9 DEF StartInstance, ParserStep, ExecutorStep, ClientGet, DumpBreaks,
       ClientRollback, StopParser, clientVars, destinationVars
  <2> QED BY <1>4, <1>9, <2>1
<1> QED BY <1>5, <1>6, <1>7, <1>8, <1>9 DEF DestinationNext, ClientStep, GoesDown

\* Who writes the cursor, in memory and in the file.
LEMMA CursorMoves ==
  ASSUME [DestinationNext]_destinationVars
  PROVE  \/ cursor' \in {cursor, NoPosition}
         \/ dataFile # NoData /\ cursor' = dataFile.cursor
         \/ WriteCursor /\ cursor' = held.ack
<1>1. CASE GoesDown
  BY <1>1 DEF GoesDown, StopInstance, Crash, ForgetMemory
<1>2. CASE StartInstance
  BY <1>2 DEF StartInstance, LoadFile
<1>3. CASE WriteCursor
  BY <1>3 DEF WriteCursor, UpdateCursor
<1>4. CASE \/ ParserStep \/ DumpBreaks \/ StopParser \/ ClientDisconnect
           \/ ClientRollback \/ ExecutorStep \/ UNCHANGED destinationVars
  BY <1>4 DEF ParserStep, DumpBreaks, StopParser, ClientDisconnect, UnsubscribeAndFlush,
     Unsubscribe, ClientRollback, ClearAllBatchs, ExecutorStep, FlushStep, BeginTimedFlush,
     BeginSubmittedFlush, Truncate, EndFlush, MetaUnchanged, metaVars, destinationVars
<1>5. CASE ClientSubscribe \/ SubscribeCursor \/ ClientGet \/ AckRemove \/ AckStore
  BY <1>5 DEF ClientSubscribe, SubscribeAndFlush, Subscribe, SubscribeCursor, ClientGet,
     AddBatch, AckRemove, RemoveBatch, AckStore, MetaUnchanged, metaVars
<1> QED BY <1>1, <1>2, <1>3, <1>4, <1>5 DEF DestinationNext, ClientStep, GoesDown

LEMMA FileMoves ==
  ASSUME [DestinationNext]_destinationVars
  PROVE  /\ dataFile' \in {dataFile, NoData, InstanceData} \/ dataFile' = flushing
         /\ flushing' \in {flushing, NoData, InstanceData}
<1>1. CASE GoesDown \/ StartInstance \/ ExecutorStep
  BY <1>1 DEF GoesDown, StopInstance, Crash, StartInstance, ExecutorStep, FlushStep,
     BeginTimedFlush, BeginSubmittedFlush, Truncate, EndFlush, fileVars
<1>2. CASE \/ ParserStep \/ DumpBreaks \/ StopParser \/ ClientDisconnect
           \/ ClientRollback \/ UNCHANGED destinationVars
  BY <1>2 DEF ParserStep, DumpBreaks, StopParser, ClientDisconnect, UnsubscribeAndFlush,
     ClientRollback, MetaUnchanged, fileVars, destinationVars
<1>3. CASE ClientStep
  BY <1>3 DEF ClientStep, ClientSubscribe, SubscribeAndFlush, SubscribeCursor, ClientGet,
     AckRemove, WriteCursor, AckStore, AddCursorTask, MetaUnchanged, fileVars
<1> QED BY <1>1, <1>2, <1>3 DEF DestinationNext, GoesDown

LEMMA NextCursorsOK ==
  ASSUME TypeInv, DataInv, [DestinationNext]_destinationVars PROVE CursorsOK'
<1>1. MetaOK /\ CursorsOK /\ HeldOK
  BY DEF TypeInv, ClientOK, DataInv
<1>2. ASSUME NEW p, BehindAcks(p) PROVE BehindAcks(p)'
  BY <1>2, AckedKept DEF BehindAcks, Data
<1>3. BehindAcks(NoPosition)
  <2>1. \A e \in Data : ~ (e < 0)
    BY Binlog DEF Data
  <2> QED BY <2>1, Binlog DEF BehindAcks
<1>4. BehindAcks(InstanceData.cursor)
  BY <1>1, <1>3 DEF InstanceData, CursorsOK
<1>5. WriteCursor => BehindAcks(held.ack)
  BY <1>1 DEF WriteCursor, Requesting, HeldOK
<1>6. BehindAcks(cursor)'
  BY <1>1, <1>2, <1>3, <1>5, CursorMoves DEF CursorsOK, BehindAcks
<1>7. dataFile' # NoData => BehindAcks(dataFile.cursor)'
  BY <1>1, <1>2, <1>4, FileMoves DEF CursorsOK, BehindAcks
<1>8. flushing' # NoData => BehindAcks(flushing.cursor)'
  BY <1>1, <1>2, <1>4, FileMoves DEF CursorsOK, BehindAcks
<1> QED BY <1>6, <1>7, <1>8 DEF CursorsOK

LEMMA InitDataInv == DestinationInit => DataInv
<1> SUFFICES ASSUME DestinationInit PROVE DataInv
  OBVIOUS
<1>1. \A e \in Data : ~ (e < 0)
  BY Binlog DEF Data
<1>2. /\ ackSequence = -1 /\ log = <<>> /\ parser = "stopped" /\ buffer = <<>>
      /\ logPosition = 0 /\ request = "connect" /\ cursor = 0
      /\ dataFile = NoData /\ flushing = NoData
  BY Binlog DEF DestinationInit, Init, InitSequence, ParserInit, MetaInit, FileInit
<1> QED BY <1>1, <1>2 DEF DataInv, AckedTo, NoGap, DumpCovered, BufferOrdered, BehindLog,
        BehindAcks, HeldOK, CursorsOK

LEMMA NextDataInv ==
  TypeInv /\ DataInv /\ FirstPositionKept /\ [DestinationNext]_destinationVars => DataInv'
<1> SUFFICES ASSUME TypeInv, DataInv, FirstPositionKept, [DestinationNext]_destinationVars
             PROVE  DataInv'
  OBVIOUS
<1> QED BY NextAckedTo, NextNoGap, NextDumpCovered, NextBufferOrdered, NextLogPosition,
        NextHeldOK, NextCursorsOK DEF DataInv

LEMMA DestinationInvariant ==
  DestinationSpec /\ []FirstPositionKept => [](TypeInv /\ DataInv)
BY InitTypeInv, NextTypeInv, InitDataInv, NextDataInv, PTL DEF DestinationSpec

\* For every binlog, ring, transaction buffer and number of faults: as long as
\* no client without a cursor can be told a position beyond the last ack, an
\* event with data that a dump has passed is acked, stored, in the transaction
\* buffer or just received, whatever restarts, crashes, broken dumps and
\* rollbacks came before.
THEOREM NothingEverLost == DestinationSpec /\ []FirstPositionKept => []NothingLost
<1>1. TypeInv /\ DataInv => NothingLost
  <2> SUFFICES ASSUME TypeInv, DataInv, parser = "dumping", NEW e \in Data, e < next
               PROVE  e \in acked \cup Stored \cup Gathered \cup Received
    BY DEF NothingLost
  <2>1. Known(e) \/ e \in Gathered \cup Pending
    BY DEF DataInv, DumpCovered
  <2>2. Pending \subseteq Received
    BY DEF Pending, Received
  <2>3. ASSUME InLog(e) PROVE e \in acked \cup Stored
    <3>1. PICK i \in 1..Len(log) : log[i] = e
      BY <2>3 DEF InLog
    <3>2. /\ putSequence \in Int /\ ackSequence \in Int /\ putSequence = Len(log) - 1
          /\ log \in Seq(Event) /\ Len(log) \in Nat
      BY StoreFacts DEF TypeInv
    <3>3. PICK q \in 0..putSequence : i = q + 1
      <4>1. i - 1 \in 0..putSequence /\ i = (i - 1) + 1
        BY <3>2
      <4> QED BY <4>1
    <3>4. CASE q <= ackSequence
      BY <3>1, <3>2, <3>3, <3>4 DEF DataInv, AckedTo
    <3>5. CASE q > ackSequence
      <4>1. q \in ackSequence+1..putSequence
        BY <3>2, <3>5
      <4> QED BY <3>1, <3>3, <4>1 DEF Stored
    <3> QED BY <3>2, <3>4, <3>5
  <2> QED BY <2>1, <2>2, <2>3 DEF Known
<1> QED BY <1>1, DestinationInvariant, PTL

\* Under the same hypothesis, in every run of the destination the store gives
\* the client the data of the binlog without a gap.
THEOREM NeverAGap == DestinationSpec /\ []FirstPositionKept => []NoGap
<1>1. DataInv => NoGap
  BY DEF DataInv
<1> QED BY <1>1, DestinationInvariant, PTL

\* Under the same hypothesis, neither the cursor in memory nor the one in the
\* file, whole or half written, passes data that the client has not acked: a
\* restart resumes at or before the first unacked event.
THEOREM CursorsNeverAhead == DestinationSpec /\ []FirstPositionKept => []CursorsBehindAcks
<1>1. DataInv => CursorsBehindAcks
  BY DEF DataInv, CursorsOK, BehindAcks, CursorsBehindAcks
<1> QED BY <1>1, DestinationInvariant, PTL

-----------------------------------------------------------------------------
(* Binlogs without GTID events: the hypothesis of the last theorems holds. *)

\* The rows of a transaction follow its BEGIN, the configured start is not in
\* the middle of one, no event is a GTID, and a BEGIN does not fill the
\* transaction buffer.
WholeTransactions ==
  /\ TransactionSize >= 2
  /\ KindOf[MasterPosition] # "ROW"
  /\ \A e \in Event : KindOf[e] # "GTIDBEGIN"
  /\ \A e \in Event :
       KindOf[e] = "ROW" => e-1 \in Event /\ KindOf[e-1] \in {"BEGIN", "ROW"}

\* A position that is not the middle of a transaction.
NotRow(p) == p \in Event => KindOf[p] # "ROW"

IdsOK ==
  /\ maxBatchId \in Int
  /\ \A id \in DOMAIN batches : id \in Int /\ id < maxBatchId

\* What add() has to do, by the kind of the entry.  A row is preceded by a flush
\* only when the buffer is full, and a BEGIN is put into an empty buffer.
TodoOK ==
  todo # <<>> =>
    IF KindOf[next-1] \in {"BEGIN", "ROW"}
    THEN \/ todo = <<"put">> /\ (KindOf[next-1] = "BEGIN" => buffer = <<>>)
         \/ todo = <<"flush", "put">>
            /\ (KindOf[next-1] = "ROW" => Len(buffer) >= TransactionSize)
    ELSE todo \in {<<"flush">>, <<"put", "flush">>, <<"flush", "put", "flush">>}

\* No dump and no client starts in the middle of a transaction.
StartsOK ==
  /\ NotRow(logPosition) /\ NotRow(cursor)
  /\ dataFile # NoData => NotRow(dataFile.cursor)
  /\ flushing # NoData => NotRow(flushing.cursor)
  /\ request \in {"ack.cursor", "subscribe.cursor"} => NotRow(held.ack)
  /\ \A id \in DOMAIN batches : NotRow(batches[id].ack)

RowInBuffer == \E i \in 1..Len(buffer) : KindOf[buffer[i]] = "ROW"

RowExpected ==
  IF todo = <<>> THEN next \in Event /\ KindOf[next] = "ROW" ELSE KindOf[next-1] = "ROW"

\* The log does not begin with a row: before anything is stored, a row finds in
\* the buffer what precedes it in its transaction.
LogStart == log # <<>> => NotRow(log[1])
BufferStart ==
  parser = "dumping" /\ log = <<>> =>
    /\ buffer # <<>> => NotRow(buffer[1])
    /\ RowExpected => buffer # <<>> /\ (Len(buffer) = 1 \/ RowInBuffer)

\* The first batch has an ack point, so that its ack leaves a cursor before the
\* store hears of it.
CursorFirst ==
  /\ ~ running => cursor = NoPosition
  /\ cursor = NoPosition =>
       /\ ackSequence = -1 /\ request # "ack.store"
       /\ request # "ack.cursor" =>
            \/ DOMAIN batches = {} /\ getSequence = -1
            \/ \E id \in DOMAIN batches :
                 batches[id].ack # NoEvent /\ \A other \in DOMAIN batches : id <= other

ResumeInv == IdsOK /\ TodoOK /\ StartsOK /\ LogStart /\ BufferStart /\ CursorFirst

\* Only these steps touch the batches.
LEMMA BatchMoves ==
  ASSUME [DestinationNext]_destinationVars
  PROVE  \/ UNCHANGED <<batches, maxBatchId>>
         \/ GoesDown \/ ClientRollback \/ AckRemove \/ ClientGet
<1>1. CASE \/ StartInstance \/ ParserStep \/ DumpBreaks \/ StopParser
           \/ ClientDisconnect \/ UNCHANGED destinationVars
  BY <1>1 DEF StartInstance, ParserStep, DumpBreaks, StopParser, ClientDisconnect,
     UnsubscribeAndFlush, Unsubscribe, MetaUnchanged, metaVars, destinationVars
<1>2. CASE \/ ExecutorStep \/ ClientSubscribe \/ SubscribeCursor \/ WriteCursor
           \/ AckStore
  BY <1>2 DEF ExecutorStep, FlushStep, BeginTimedFlush, BeginSubmittedFlush, Truncate,
     EndFlush, ClientSubscribe, SubscribeAndFlush, Subscribe, SubscribeCursor,
     WriteCursor, UpdateCursor, AckStore, MetaUnchanged, metaVars
<1> QED BY <1>1, <1>2 DEF DestinationNext, ClientStep, GoesDown

LEMMA NextIds ==
  ASSUME IdsOK, [DestinationNext]_destinationVars PROVE IdsOK'
<1>1. CASE UNCHANGED <<batches, maxBatchId>>
  BY <1>1 DEF IdsOK
<1>2. CASE GoesDown
  BY <1>2 DEF GoesDown, StopInstance, Crash, ForgetMemory, IdsOK
<1>3. CASE ClientRollback
  BY <1>3 DEF ClientRollback, ClearAllBatchs, IdsOK
<1>4. CASE AckRemove
  <2>1. DOMAIN batches' \subseteq DOMAIN batches /\ maxBatchId' = maxBatchId
    BY <1>4 DEF AckRemove, RemoveBatch
  <2> QED BY <2>1 DEF IdsOK
<1>5. CASE ClientGet
  <2>1. DOMAIN batches' = DOMAIN batches \cup {maxBatchId} /\ maxBatchId' = maxBatchId + 1
    BY <1>5 DEF ClientGet, AddBatch
  <2> QED BY <2>1 DEF IdsOK
<1> QED BY <1>1, <1>2, <1>3, <1>4, <1>5, BatchMoves

\* A dump, a flush and a put are the only steps of the parser within a dump.
LEMMA ParserMoves ==
  ASSUME [DestinationNext]_destinationVars
  PROVE  \/ UNCHANGED parserVars
         \/ FindStartPosition(LatestIndex) \/ Receive \/ PutEntry \/ Flush
         \/ GoesDown
         \/ DumpBreaks
         \/ parser' # "dumping" /\ UNCHANGED <<next, todo, buffer, logPosition>>
<1>1. CASE StartInstance \/ StopParser
  BY <1>1 DEF StartInstance, StopParser
<1>2. CASE ExecutorStep \/ ClientStep \/ ClientDisconnect \/ ClientRollback
           \/ UNCHANGED destinationVars
  BY <1>2 DEF ExecutorStep, ClientStep, ClientSubscribe, SubscribeCursor,
     ClientGet, AckRemove, WriteCursor, AckStore, ClientDisconnect, ClientRollback,
     ParserUnchanged, destinationVars
<1> QED BY <1>1, <1>2 DEF DestinationNext, ParserStep, Parse, GoesDown

LEMMA NextTodo ==
  ASSUME WholeTransactions, TypeInv, TodoOK, [DestinationNext]_destinationVars PROVE TodoOK'
<1>1. ParserOK /\ TransactionSize \in Nat /\ TransactionSize >= 2
  BY Binlog, StoreAssumption DEF TypeInv, WholeTransactions
<1>2. CASE UNCHANGED <<next, todo, buffer>>
  BY <1>2 DEF TodoOK
<1>3. CASE todo' = <<>>
  BY <1>3 DEF TodoOK
<1>4. CASE Receive
  <2>1. next \in Event /\ next' - 1 = next /\ todo' = AddSteps(next)
    BY <1>1, <1>4, Binlog DEF Receive, ParserOK
  <2>2. KindOf[next] \in {"BEGIN", "ROW", "DDL", "END"}
    BY <2>1, StoreAssumption DEF WholeTransactions, Kind
  <2>3. CASE KindOf[next] = "BEGIN"
    BY <2>1, <2>3 DEF AddSteps, TodoOK
  <2>4. CASE KindOf[next] = "ROW"
    BY <2>1, <2>4 DEF AddSteps, TodoOK
  <2>5. CASE KindOf[next] \in {"DDL", "END"}
    BY <2>1, <2>5 DEF AddSteps, TodoOK
  <2> QED BY <2>2, <2>3, <2>4, <2>5
<1>5. CASE PutEntry
  <2>1. todo \in Steps /\ todo # <<>> /\ Head(todo) = "put" /\ next' = next
    BY <1>1, <1>5 DEF PutEntry, Due, ParserOK
  <2>2. CASE todo = <<"put">>
    <3>1. CASE Len(buffer) < TransactionSize
      <4>1. todo' = Tail(<<"put">>)
        BY <1>5, <2>2, <3>1 DEF PutEntry
      <4> QED BY <1>3, <4>1
    <3>2. CASE ~ (Len(buffer) < TransactionSize)
      <4>0. todo' = <<"flush", "put">> /\ buffer' = buffer
        BY <1>5, <2>2, <3>2, FlushFirst DEF PutEntry
      <4>1. KindOf[next-1] \in {"BEGIN", "ROW"}
        BY <2>2 DEF TodoOK
      <4>2. Len(buffer) >= TransactionSize
        BY <1>1, <3>2 DEF ParserOK
      <4> QED BY <2>1, <4>0, <4>1, <4>2 DEF TodoOK
    <3> QED BY <3>1, <3>2
  <2>3. CASE todo # <<"put">>
    <3>1. todo = <<"put", "flush">>
      BY <2>1, <2>3 DEF Steps
    <3>2. KindOf[next-1] \notin {"BEGIN", "ROW"}
      BY <3>1 DEF TodoOK
    <3>3. todo' \in {<<"flush">>, <<"flush", "put", "flush">>}
      BY <1>5, <3>1, FlushFirst DEF PutEntry
    <3> QED BY <2>1, <3>2, <3>3 DEF TodoOK
  <2> QED BY <2>2, <2>3
<1>6. CASE Flush
  <2>1. todo \in Steps /\ todo # <<>> /\ Head(todo) = "flush" /\ next' = next
        /\ todo' = Tail(todo) /\ buffer' = <<>>
    BY <1>1, <1>6 DEF Flush, Due, ParserOK
  <2>2. todo \in {<<"flush">>, <<"flush", "put">>, <<"flush", "put", "flush">>}
    BY <2>1 DEF Steps
  <2>3. CASE todo = <<"flush", "put">>
    <3>1. todo' = <<"put">> /\ KindOf[next-1] \in {"BEGIN", "ROW"}
      BY <2>1, <2>3 DEF TodoOK
    <3> QED BY <2>1, <3>1 DEF TodoOK
  <2>4. CASE todo = <<"flush", "put", "flush">>
    <3>1. todo' = <<"put", "flush">> /\ KindOf[next-1] \notin {"BEGIN", "ROW"}
      BY <2>1, <2>4 DEF TodoOK
    <3> QED BY <2>1, <3>1 DEF TodoOK
  <2>5. CASE todo = <<"flush">>
    BY <1>3, <2>1, <2>5
  <2> QED BY <2>2, <2>3, <2>4, <2>5
<1>7. CASE FindStartPosition(LatestIndex)
  BY <1>1, <1>3, <1>7 DEF FindStartPosition, ParserOK
<1>8. CASE GoesDown \/ DumpBreaks
  BY <1>3, <1>8 DEF GoesDown, StopInstance, Crash, ForgetMemory, DumpBreaks, DumpFails
<1> QED BY <1>2, <1>4, <1>5, <1>6, <1>7, <1>8, ParserMoves DEF parserVars

\* The ack point of a batch is a position a transaction ends or begins at; a batch
\* with such an event has one.
LEMMA GotAck ==
  ASSUME StoreOK, NEW end \in getSequence+1..putSequence
  PROVE  /\ NotRow(RangeTo(end).ack)
         /\ \A q \in getSequence+1..end : Ackable(q) => RangeTo(end).ack # NoEvent
<1> DEFINE ackable == {q \in getSequence+1..end : Ackable(q)}
<1>1. RangeTo(end).ack = IF ackable = {} THEN NoEvent ELSE At(Max(ackable)).event
  BY DEF RangeTo
<1>2. CASE ackable # {}
  <2>1. ackable \in SUBSET (getSequence+1..end) /\ getSequence+1 \in Int /\ end \in Int
    BY StoreFacts
  <2>2. Max(ackable) \in ackable
    <3> HIDE DEF ackable
    <3>1. PICK lo \in Int : lo = getSequence+1
      BY <2>1
    <3> QED BY <1>2, <2>1, <3>1, IntervalMax
  <2>3. PICK q \in getSequence+1..end : q = Max(ackable) /\ Ackable(q)
    BY <2>1, <2>2
  <2>4. RangeTo(end).ack = At(q).event
    BY <1>1, <1>2, <2>3
  <2>5. q \in getSequence+1..putSequence /\ q \in 0..putSequence
    BY StoreFacts
  <2>6. At(q).event \in Event
    BY <2>5, StoreFacts
  <2>7. NotRow(At(q).event)
    BY <2>3 DEF Ackable, NotRow
  <2> QED BY <2>4, <2>6, <2>7, StoreAssumption
<1>3. CASE ackable = {}
  BY <1>1, <1>3, StoreAssumption DEF NotRow
<1> QED BY <1>2, <1>3

\* Before any ack the first position is that of the oldest event.
LEMMA OldestFirst ==
  ASSUME StoreOK, ackSequence = -1, FirstPosition # NoPosition
  PROVE  log # <<>> /\ FirstPosition = log[1] /\ log[1] \in Event
<1>1. putSequence # -1 /\ putSequence \in Int /\ -1 <= putSequence /\ ackSequence \in Int
      /\ putSequence = Len(log) - 1 /\ log \in Seq(Event)
  BY StoreFacts, Binlog DEF FirstPosition, InitSequence
<1>2. 0 \in ackSequence+1..putSequence /\ 0 \in 0..putSequence
  BY <1>1
<1>3. FirstPosition = log[0+1] /\ log[0+1] \in Event
  BY <1>1, <1>2, StoreFacts
     DEF FirstPosition, InitSequence, StoreOK, Inv, UnackedRetained, Full
<1> QED BY <1>1, <1>3

LEMMA NextStarts ==
  ASSUME TypeInv, StartsOK, LogStart, CursorFirst, [DestinationNext]_destinationVars
  PROVE  StartsOK'
<1>1. StoreOK /\ MetaOK /\ RequestOK /\ buffer \in Seq(Event) /\ NotRow(NoPosition)
      /\ NotRow(NoEvent)
  BY Binlog, StoreAssumption DEF TypeInv, ClientOK, ParserOK, NotRow
<1>2. NotRow(logPosition')
  <2>1. CASE Flush
    <3>1. LastTransactionPosition # NoEvent => NotRow(LastTransactionPosition)
      BY <1>1, LastTransaction DEF NotRow
    <3> QED BY <2>1, <3>1 DEF Flush, PersistLogPosition, StartsOK
  <2>2. CASE GoesDown
    BY <1>1, <2>2 DEF GoesDown, StopInstance, Crash, ForgetMemory
  <2>3. CASE logPosition' = logPosition
    BY <2>3 DEF StartsOK
  <2> QED BY <2>1, <2>2, <2>3, ParserMoves
          DEF parserVars, FindStartPosition, Receive, PutEntry, DumpBreaks, DumpFails
<1>3. NotRow(cursor')
  <2>1. WriteCursor => NotRow(held.ack)
    BY DEF WriteCursor, Requesting, StartsOK
  <2> QED BY <1>1, <2>1, CursorMoves DEF StartsOK
<1>4. NotRow(InstanceData.cursor)
  BY <1>1 DEF InstanceData, StartsOK
<1>5. /\ dataFile' # NoData => NotRow(dataFile'.cursor)
      /\ flushing' # NoData => NotRow(flushing'.cursor)
  BY <1>4, FileMoves DEF StartsOK
<1>6. \A id \in DOMAIN batches' : NotRow(batches'[id].ack)
  <2>1. CASE UNCHANGED <<batches, maxBatchId>>
    BY <2>1 DEF StartsOK
  <2>2. CASE GoesDown
    BY <2>2 DEF GoesDown, StopInstance, Crash, ForgetMemory
  <2>3. CASE ClientRollback
    BY <2>3 DEF ClientRollback, ClearAllBatchs
  <2>4. CASE AckRemove
    BY <2>4 DEF AckRemove, RemoveBatch, StartsOK
  <2>5. CASE ClientGet
    <3>1. PICK end \in getSequence+1..putSequence : AddBatch(RangeTo(end))
      BY <2>5 DEF ClientGet
    <3>2. NotRow(RangeTo(end).ack)
      BY <1>1, GotAck
    <3> QED BY <3>1, <3>2 DEF AddBatch, StartsOK
  <2> QED BY <2>1, <2>2, <2>3, <2>4, <2>5, BatchMoves
<1>7. request' \in {"ack.cursor", "subscribe.cursor"} => NotRow(held'.ack)
  <2>1. CASE request' \notin {"ack.cursor", "subscribe.cursor"}
    BY <2>1
  <2>2. CASE request' = request /\ held' = held
    BY <2>2 DEF StartsOK
  <2>3. CASE AckRemove
    <3>1. PICK id \in DOMAIN batches : held' = batches[id]
      BY <2>3 DEF AckRemove
    <3> QED BY <3>1 DEF StartsOK
  <2>4. CASE SubscribeCursor /\ request' = "subscribe.cursor"
    <3>1. cursor = NoPosition /\ FirstPosition # NoPosition
          /\ held' = [NoRange EXCEPT !.ack = FirstPosition]
      BY <2>4 DEF SubscribeCursor
    <3>2. held'.ack = FirstPosition /\ ackSequence = -1
      BY <3>1 DEF NoRange, CursorFirst
    <3> QED BY <1>1, <3>1, <3>2, OldestFirst DEF LogStart
  <2>5. CASE \/ GoesDown \/ ClientSubscribe \/ AckStore \/ ClientDisconnect \/ WriteCursor
             \/ SubscribeCursor /\ request' # "subscribe.cursor"
    BY <2>1, <2>5 DEF GoesDown, StopInstance, Crash, ForgetMemory, ClientSubscribe, AckStore,
       ClientDisconnect, WriteCursor, SubscribeCursor
  <2>6. CASE \/ StartInstance \/ ParserStep \/ ExecutorStep \/ ClientGet \/ DumpBreaks
             \/ ClientRollback \/ StopParser \/ UNCHANGED destinationVars
    <3>1. request' = request /\ held' = held
      BY <2>6 DEF StartInstance, ParserStep, ExecutorStep, ClientGet, DumpBreaks,
         ClientRollback, StopParser, clientVars, destinationVars
    <3> QED BY <2>2, <3>1
  <2> QED BY <2>3, <2>4, <2>5, <2>6 DEF DestinationNext, ClientStep, GoesDown
<1> QED BY <1>2, <1>3, <1>5, <1>6, <1>7 DEF StartsOK, NotRow

LEMMA NextLogStart ==
  ASSUME TypeInv, LogStart, BufferStart, [DestinationNext]_destinationVars PROVE LogStart'
<1>1. log \in Seq(Event) /\ buffer \in Seq(Event)
  BY DEF TypeInv, StoreOK, Inv, TypeOK, ParserOK
<1>2. CASE log' = log
  BY <1>2 DEF LogStart, NotRow
<1>3. CASE log' = <<>>
  BY <1>3 DEF LogStart
<1>4. CASE buffer # <<>> /\ Put(buffer) /\ Flush
  <2>1. log' = log \o buffer /\ parser = "dumping"
    BY <1>4 DEF Put, Flush, Due
  <2>2. CASE log = <<>>
    <3>1. log'[1] = buffer[1]
      BY <1>1, <1>4, <2>1, <2>2
    <3> QED BY <1>4, <2>1, <2>2, <3>1 DEF BufferStart, LogStart, NotRow
  <2>3. CASE log # <<>>
    <3>1. log'[1] = log[1]
      BY <1>1, <2>1, <2>3
    <3> QED BY <2>3, <3>1 DEF LogStart, NotRow
  <2> QED BY <2>2, <2>3
<1>5. \/ log' = log
      \/ log' = <<>>
      \/ buffer # <<>> /\ Put(buffer) /\ Flush
  BY StoreOperations
     DEF StoreOperation, storeVars, GetTo, AckTo, CleanTo, Rollback, Start, Stop, Reset
<1> QED BY <1>2, <1>3, <1>4, <1>5

LEMMA NextBufferStart ==
  ASSUME WholeTransactions, TypeInv, TodoOK, StartsOK, BufferStart,
         [DestinationNext]_destinationVars
  PROVE  BufferStart'
<1> SUFFICES ASSUME parser' = "dumping", log' = <<>>
             PROVE  /\ buffer' # <<>> => NotRow(buffer'[1])
                    /\ RowExpected' => buffer' # <<>> /\ (Len(buffer') = 1 \/ RowInBuffer')
  BY DEF BufferStart, NotRow
<1>1. ParserOK /\ buffer \in Seq(Event) /\ Len(buffer) \in Nat /\ next \in Int
      /\ TransactionSize \in Nat /\ TransactionSize >= 2
      /\ log \in Seq(Event) /\ ~ GoesDown
  <2>1. ~ GoesDown
    BY DEF GoesDown, StopInstance, Crash, ForgetMemory
  <2> QED BY <2>1, Binlog, StoreAssumption
          DEF TypeInv, StoreOK, Inv, TypeOK, ParserOK, WholeTransactions
<1>2. log = <<>>
  <2>1. Len(log) <= 0 /\ Len(log) \in Nat
    BY <1>1, LogKept DEF LogGrows
  <2> QED BY <1>1, <2>1
<1>3. CASE UNCHANGED parserVars
  BY <1>2, <1>3 DEF BufferStart, RowExpected, RowInBuffer, parserVars
<1>4. CASE FindStartPosition(LatestIndex)
  <2>1. buffer' = <<>> /\ todo' = <<>> /\ next' = StartPosition(LatestIndex)
    BY <1>1, <1>4 DEF FindStartPosition, ParserOK
  <2>2. StartPosition(LatestIndex) \in {logPosition, cursor, MasterPosition}
    BY Binlog DEF StartPosition, LatestIndex
  <2>3. NotRow(StartPosition(LatestIndex))
    BY <2>2 DEF StartsOK, WholeTransactions, NotRow
  <2>4. ~ RowExpected'
    BY <2>1, <2>3 DEF RowExpected, NotRow
  <2> QED BY <2>1, <2>4
<1>5. CASE Receive
  <2>1. /\ buffer' = buffer /\ todo = <<>> /\ next' - 1 = next /\ parser = "dumping"
        /\ next \in Event /\ todo' = AddSteps(next)
    BY <1>1, <1>5, Binlog DEF Receive, ParserOK
  <2>2. todo' # <<>>
    BY <2>1, StepsOfEntry
  <2>3. RowExpected' => RowExpected
    BY <2>1, <2>2 DEF RowExpected
  <2> QED BY <1>2, <2>1, <2>3 DEF BufferStart, RowInBuffer
<1>6. CASE PutEntry
  <2>1. /\ todo \in Steps /\ todo # <<>> /\ Head(todo) = "put" /\ next' = next
        /\ parser = "dumping" /\ next - 1 \in Event
    BY <1>1, <1>6, Binlog DEF PutEntry, Due, ParserOK
  <2>2. CASE todo' = <<"flush">> \o todo /\ buffer' = buffer
    <3>1. todo' # <<>>
      BY <2>1, <2>2, PutDue
    <3>2. RowExpected' => RowExpected
      BY <2>1, <3>1 DEF RowExpected
    <3> QED BY <1>2, <2>1, <2>2, <3>2 DEF BufferStart, RowInBuffer
  <2>3. CASE todo' = Tail(todo) /\ buffer' = Append(buffer, next-1)
    <3>1. /\ Len(buffer') = Len(buffer) + 1 /\ buffer' # <<>>
          /\ \A i \in 1..Len(buffer) : buffer'[i] = buffer[i]
          /\ buffer'[Len(buffer)+1] = next-1
      BY <1>1, <2>1, <2>3
    <3>2. NotRow(buffer'[1])
      <4>1. CASE buffer = <<>>
        <5>1. ~ RowExpected
          BY <1>2, <2>1, <4>1 DEF BufferStart
        <5>2. buffer'[1] = next-1
          BY <3>1, <4>1
        <5> QED BY <2>1, <5>1, <5>2 DEF RowExpected, NotRow
      <4>2. CASE buffer # <<>>
        <5>1. 1 \in 1..Len(buffer)
          BY <1>1, <4>2
        <5>2. buffer'[1] = buffer[1]
          BY <3>1, <5>1
        <5> QED BY <1>2, <2>1, <4>2, <5>2 DEF BufferStart
      <4> QED BY <4>1, <4>2
    <3>3. ASSUME RowExpected' PROVE Len(buffer') = 1 \/ RowInBuffer'
      <4>1. CASE todo' = <<>>
        <5>1. KindOf[next-1] \in {"BEGIN", "ROW"}
          BY <2>1, <3>3, <4>1 DEF RowExpected, WholeTransactions
        <5>2. CASE KindOf[next-1] = "ROW"
          <6>1. Len(buffer)+1 \in 1..Len(buffer')
            BY <1>1, <3>1
          <6> QED BY <3>1, <5>2, <6>1 DEF RowInBuffer
        <5>3. CASE KindOf[next-1] = "BEGIN"
          <6>1. todo \in {<<"put">>, <<"flush", "put">>}
            BY <2>1, <5>1 DEF TodoOK
          <6>2. todo = <<"put">>
            BY <2>1, <6>1
          <6>3. buffer = <<>>
            BY <2>1, <5>1, <5>3, <6>2 DEF TodoOK
          <6> QED BY <3>1, <6>3
        <5> QED BY <5>1, <5>2, <5>3
      <4>2. CASE todo' # <<>>
        <5>1. todo = <<"put", "flush">>
          <6>1. CASE todo = <<"put">>
            <7>1. todo' = <<>>
              BY <2>3, <6>1
            <7> QED BY <4>2, <7>1
          <6> QED BY <2>1, <6>1 DEF Steps
        <5>2. KindOf[next-1] \notin {"BEGIN", "ROW"}
          BY <5>1 DEF TodoOK
        <5> QED BY <2>1, <3>3, <4>2, <5>2 DEF RowExpected
      <4> QED BY <4>1, <4>2
    <3> QED BY <3>1, <3>2, <3>3
  <2> QED BY <1>6, <2>2, <2>3 DEF PutEntry
<1>7. CASE Flush
  <2>1. /\ todo \in Steps /\ todo # <<>> /\ Head(todo) = "flush" /\ next' = next
        /\ parser = "dumping" /\ todo' = Tail(todo) /\ buffer' = <<>>
    BY <1>1, <1>7 DEF Flush, Due, ParserOK
  <2> SUFFICES ASSUME RowExpected' PROVE FALSE
    BY <2>1
  <2>2. ~ Put(buffer) \/ buffer = <<>>
    <3> SUFFICES ASSUME Put(buffer), buffer # <<>> PROVE FALSE
      OBVIOUS
    <3>1. log' = log \o buffer
      BY DEF Put
    <3>2. Len(log') = Len(log) + Len(buffer) /\ Len(log) \in Nat
      BY <1>1, <3>1
    <3>3. Len(log') = 0
      OBVIOUS
    <3> QED BY <1>1, <3>2, <3>3
  <2>3. buffer # <<>> => ~ RowInBuffer
    BY <1>7, <2>2 DEF Flush, Sink, RowInBuffer, HasData
  <2>4. CASE todo = <<"flush">>
    <3>1. todo' = <<>> /\ KindOf[next-1] \notin {"BEGIN", "ROW"}
      BY <2>1, <2>4 DEF TodoOK
    <3> QED BY <2>1, <3>1 DEF RowExpected, WholeTransactions
  <2>5. CASE todo # <<"flush">>
    <3>1. Tail(todo) \in {<<"put">>, <<"put", "flush">>}
      BY <2>1, <2>5, FlushDue
    <3>2. todo' # <<>>
      BY <2>1, <3>1
    <3>3. KindOf[next-1] = "ROW" /\ RowExpected
      BY <2>1, <3>2 DEF RowExpected
    <3>4. buffer # <<>> /\ Len(buffer) = 1
      BY <1>2, <2>1, <2>3, <3>3 DEF BufferStart
    <3>5. todo \in {<<"put">>, <<"flush", "put">>}
      BY <2>1, <3>3 DEF TodoOK
    <3>6. todo = <<"flush", "put">>
      BY <2>1, <3>5
    <3>7. Len(buffer) >= TransactionSize
      BY <2>1, <3>3, <3>6 DEF TodoOK
    <3> QED BY <1>1, <3>4, <3>7
  <2> QED BY <2>4, <2>5
<1>8. ~ DumpBreaks
  BY DEF DumpBreaks, DumpFails
<1> QED BY <1>1, <1>3, <1>4, <1>5, <1>6, <1>7, <1>8, ParserMoves

\* The first get of a client without a cursor begins with the oldest event, at
\* which a restart may resume.
LEMMA FirstBatchHasAck ==
  ASSUME WholeTransactions, StoreOK, LogStart, getSequence = -1,
         NEW end \in getSequence+1..putSequence
  PROVE  RangeTo(end).ack # NoEvent
<1>1. 0 \in getSequence+1..putSequence /\ 0 \in getSequence+1..end /\ 0 \in 0..putSequence
  BY StoreFacts
<1>2. log # <<>> /\ log[0+1] \in Event /\ At(0).event = log[0+1]
  BY <1>1, StoreFacts
<1>3. KindOf[log[0+1]] \in Kind /\ KindOf[log[0+1]] \notin {"ROW", "GTIDBEGIN"}
  BY <1>2, StoreAssumption DEF LogStart, NotRow, WholeTransactions
<1>4. Ackable(0)
  BY <1>2, <1>3 DEF Ackable, Kind
<1> QED BY <1>1, <1>4, GotAck

LEMMA NextCursorFirst ==
  ASSUME WholeTransactions, TypeInv, IdsOK, LogStart, CursorFirst,
         [DestinationNext]_destinationVars
  PROVE  CursorFirst'
<1> DEFINE Oldest(b, id) == b[id].ack # NoEvent /\ \A other \in DOMAIN b : id <= other
           Fetched(b, g) == (DOMAIN b = {} /\ g = -1) \/ \E id \in DOMAIN b : Oldest(b, id)
<1>1. StoreOK /\ RequestOK /\ BatchesOK /\ NoPosition \notin Event
  BY Binlog, StoreAssumption DEF TypeInv, ClientOK
<1>2. SUFFICES /\ ~ running' => cursor' = NoPosition
               /\ cursor' = NoPosition =>
                    /\ ackSequence' = -1 /\ request' # "ack.store"
                    /\ request' # "ack.cursor" => Fetched(batches', getSequence')
  BY DEF CursorFirst
<1>3. cursor = NoPosition =>
        /\ ackSequence = -1 /\ request # "ack.store"
        /\ request # "ack.cursor" => Fetched(batches, getSequence)
  BY DEF CursorFirst
<1> HIDE DEF Fetched
<1>4. CASE GoesDown
  <2>1. /\ cursor' = NoPosition /\ ackSequence' = -1 /\ getSequence' = -1
        /\ request' = "connect" /\ batches' = [id \in {} |-> {}]
    BY <1>4 DEF GoesDown, StopInstance, Crash, ForgetMemory, Stop, Reset, InitSequence
  <2> QED BY <2>1 DEF Fetched
<1>5. CASE StartInstance
  <2>1. /\ ~ running /\ running' /\ ackSequence' = ackSequence /\ getSequence' = getSequence
        /\ request' = request /\ batches' = batches
    BY <1>5 DEF StartInstance, Start, cursors, clientVars
  <2>2. cursor = NoPosition /\ request = "connect"
    BY <1>1, <2>1 DEF CursorFirst, RequestOK
  <2> QED BY <1>3, <2>1, <2>2
<1>6. CASE WriteCursor
  <2>1. running' /\ cursor' = held.ack
    BY <1>6 DEF WriteCursor, Requesting, UpdateCursor, storeVars
  <2>2. held.ack \in Event
    BY <1>1, <1>6 DEF WriteCursor, Requesting, RequestOK
  <2> QED BY <1>1, <2>1, <2>2
<1>7. CASE AckStore
  <2>1. running' /\ cursor' = cursor /\ request = "ack.store"
    BY <1>7 DEF AckStore, Requesting, CleanUntil, CleanTo, MetaUnchanged, metaVars
  <2> QED BY <1>3, <2>1
<1>8. CASE AckRemove
  <2>1. /\ running' /\ cursor' = cursor /\ request = "none" /\ ackSequence' = ackSequence
        /\ request' \in {"ack.cursor", "ack.store"}
    BY <1>8 DEF AckRemove, Requesting, RemoveBatch, storeVars, cursors
  <2> SUFFICES ASSUME cursor = NoPosition PROVE request' = "ack.cursor"
    BY <1>3, <2>1
  <2>2. PICK id \in DOMAIN batches :
          IsFirstBatch(id) /\ (batches[id].ack # NoEvent => request' = "ack.cursor")
    BY <1>8 DEF AckRemove, RemoveBatch
  <2>3. PICK first \in DOMAIN batches : Oldest(batches, first)
    BY <1>3, <2>1, <2>2 DEF Fetched
  <2>4. id = first
    BY <2>2, <2>3 DEF IsFirstBatch, IdsOK
  <2> QED BY <2>2, <2>3, <2>4
<1>9. CASE ClientGet
  <2>1. PICK end \in getSequence+1..putSequence :
          AddBatch(RangeTo(end)) /\ running' = running /\ ackSequence' = ackSequence
    BY <1>9 DEF ClientGet, GetTo
  <2>2. cursor' = cursor /\ request' = request /\ request = "none" /\ running
    BY <1>9, <2>1 DEF ClientGet, Requesting, AddBatch, clientVars
  <2> SUFFICES ASSUME cursor = NoPosition PROVE Fetched(batches', getSequence')
    BY <1>3, <2>1, <2>2
  <2>3. /\ DOMAIN batches' = DOMAIN batches \cup {maxBatchId}
        /\ batches'[maxBatchId] = RangeTo(end)
        /\ \A id \in DOMAIN batches : id # maxBatchId => batches'[id] = batches[id]
    BY <2>1 DEF AddBatch
  <2>4. CASE DOMAIN batches = {} /\ getSequence = -1
    <3>1. RangeTo(end).ack # NoEvent
      BY <1>1, <2>4, FirstBatchHasAck
    <3>2. Oldest(batches', maxBatchId)
      BY <2>3, <2>4, <3>1 DEF IdsOK
    <3> QED BY <2>3, <3>2 DEF Fetched
  <2>5. CASE \E id \in DOMAIN batches : Oldest(batches, id)
    <3>1. PICK first \in DOMAIN batches : Oldest(batches, first)
      BY <2>5
    <3>2. first < maxBatchId /\ first \in Int /\ maxBatchId \in Int
      BY DEF IdsOK
    <3>3. Oldest(batches', first) /\ first \in DOMAIN batches'
      BY <2>3, <3>1, <3>2
    <3> QED BY <3>3 DEF Fetched
  <2> QED BY <1>3, <2>2, <2>4, <2>5 DEF Fetched
<1>10. CASE ClientRollback
  <2>1. /\ running' /\ cursor' = cursor /\ request' = request /\ request = "none"
        /\ ackSequence' = ackSequence /\ getSequence' = ackSequence
        /\ batches' = [id \in {} |-> {}]
    BY <1>10 DEF ClientRollback, Requesting, ClearAllBatchs, Rollback, clientVars
  <2> QED BY <1>3, <2>1 DEF Fetched
<1>11. CASE \/ ParserStep \/ ExecutorStep \/ DumpBreaks \/ StopParser \/ UNCHANGED destinationVars
  <2>1. running' = running /\ ackSequence' = ackSequence /\ getSequence' = getSequence
    BY <1>11 DEF ParserStep, Parse, FindStartPosition, Receive, PutEntry, Flush, Sink, Put,
       ExecutorStep, DumpBreaks, DumpFails, StopParser, destinationVars, storeVars, cursors
  <2>2. cursor' = cursor /\ batches' = batches /\ request' = request
    BY <1>11 DEF ParserStep, ExecutorStep, FlushStep, BeginTimedFlush, BeginSubmittedFlush,
       Truncate, EndFlush, DumpBreaks, StopParser, MetaUnchanged, metaVars, clientVars,
       destinationVars
  <2> QED BY <1>3, <2>1, <2>2 DEF CursorFirst
<1>12. CASE ClientSubscribe \/ SubscribeCursor \/ ClientDisconnect
  <2>1. running' = running /\ ackSequence' = ackSequence /\ getSequence' = getSequence
    BY <1>12 DEF ClientSubscribe, SubscribeCursor, ClientDisconnect, storeVars, cursors
  <2>2. cursor' = cursor /\ batches' = batches
    BY <1>12 DEF ClientSubscribe, SubscribeAndFlush, Subscribe, SubscribeCursor,
       ClientDisconnect, UnsubscribeAndFlush, Unsubscribe, MetaUnchanged, metaVars
  <2>3. request \in {"connect", "subscribe", "none"} /\ request' \notin {"ack.cursor", "ack.store"}
    BY <1>12 DEF ClientSubscribe, SubscribeCursor, ClientDisconnect, Requesting
  <2> QED BY <1>3, <2>1, <2>2, <2>3 DEF CursorFirst
<1> QED BY <1>4, <1>5, <1>6, <1>7, <1>8, <1>9, <1>10, <1>11, <1>12
        DEF DestinationNext, ClientStep, GoesDown

LEMMA InitResume == DestinationInit => ResumeInv
<1> SUFFICES ASSUME DestinationInit PROVE ResumeInv
  OBVIOUS
<1>1. /\ ackSequence = -1 /\ getSequence = -1 /\ log = <<>> /\ parser = "stopped"
      /\ todo = <<>> /\ logPosition = NoEvent /\ request = "connect"
      /\ cursor = NoPosition /\ batches = [id \in {} |-> {}] /\ maxBatchId = 1
      /\ dataFile = NoData /\ flushing = NoData
  BY DEF DestinationInit, Init, InitSequence, ParserInit, MetaInit, FileInit
<1>2. NotRow(NoEvent) /\ NotRow(NoPosition)
  BY Binlog, StoreAssumption DEF NotRow
<1> QED BY <1>1, <1>2 DEF ResumeInv, IdsOK, TodoOK, StartsOK, LogStart, BufferStart, CursorFirst

LEMMA NextResume ==
  ASSUME WholeTransactions, TypeInv, ResumeInv, [DestinationNext]_destinationVars
  PROVE  ResumeInv'
<1>1. IdsOK /\ TodoOK /\ StartsOK /\ LogStart /\ BufferStart /\ CursorFirst
  BY DEF ResumeInv
<1>2. IdsOK' /\ TodoOK' /\ StartsOK'
  BY <1>1, NextIds, NextTodo, NextStarts
<1>3. LogStart' /\ BufferStart' /\ CursorFirst'
  BY <1>1, NextLogStart, NextBufferStart, NextCursorFirst
<1> QED BY <1>2, <1>3 DEF ResumeInv

\* With whole transactions in the binlog, a client without a cursor never asks
\* for the first position after an ack: the first batch begins at a position to
\* resume from, so that its ack leaves a cursor before the store moves.
THEOREM FirstPositionStays ==
  ASSUME WholeTransactions PROVE DestinationSpec => []FirstPositionKept
<1>1. ResumeInv => FirstPositionKept
  BY DEF ResumeInv, CursorFirst, FirstPositionKept, InitSequence
<1>2. TypeInv /\ ResumeInv /\ [DestinationNext]_destinationVars => ResumeInv'
  BY NextResume
<1> QED BY <1>1, <1>2, InitTypeInv, NextTypeInv, InitResume, PTL DEF DestinationSpec

\* For every such binlog, whatever is stopped, crashes, breaks or rolls back:
\* no event with data is lost, none is given out of order, and no restart
\* resumes behind the first event that is not acked.
THEOREM AtLeastOnce ==
  ASSUME WholeTransactions
  PROVE  DestinationSpec => [](NothingLost /\ NoGap /\ CursorsBehindAcks)
BY FirstPositionStays, NothingEverLost, NeverAGap, CursorsNeverAhead, PTL

=============================================================================
