-------------------------- MODULE MemoryEventStore --------------------------
(***************************************************************************)
(* The in-memory event store of a canal destination                        *)
(* (store/.../memory/MemoryEventStoreWithBuffer.java): a ring buffer of    *)
(* binlog events with three cursors.  The sink puts lists of events, the   *)
(* server gets batches, acks the last event of a batch and rolls back the  *)
(* get cursor to the ack cursor.  Every public operation holds the store's *)
(* ReentrantLock, so an operation that does not wait is one action; the    *)
(* waiting forms of put and get are in module BlockingEventStore.          *)
(*                                                                         *)
(* An event is its binlog position: checkPosition compares (timestamp,     *)
(* journal, offset), which createPosition copies from the event, and a     *)
(* parser that reconnects puts the same positions again, so one Event may  *)
(* occur more than once in the log.                                        *)
(***************************************************************************)
EXTENDS Integers, Sequences, FiniteSetsExt, Functions

CONSTANTS
  Event,          \* the binlog events a parser may deliver
  NoEvent,        \* the null reference in a slot, and "no ack point" in a range
  KindOf,         \* Event -> Kind: entry type, DDL event types as "DDL"
  RawLength,      \* Event -> Nat: Event.rawLength, the memory it is charged for
  BufferSize,     \* slots of the ring
  BufferMemUnit,  \* bytes per unit of a batch size in MEMSIZE mode
  MemMode,        \* TRUE: BatchMode.MEMSIZE, FALSE: BatchMode.ITEMSIZE
  DdlIsolation,   \* TRUE: a DDL event is handed out alone
  IntBound,       \* a Java int is in -IntBound .. IntBound-1
  BatchSizes,     \* the batch sizes callers ask for
  MaxData,        \* longest list one put carries
  MaxLog          \* bound on the events put between a start and a stop

Kind == {"BEGIN", "GTIDBEGIN", "ROW", "DDL", "END"}

ASSUME StoreAssumption ==
  /\ NoEvent \notin Event
  /\ KindOf \in [Event -> Kind]
  /\ RawLength \in [Event -> Nat]
  /\ BufferSize \in Nat \ {0}
  /\ BufferMemUnit \in Nat \ {0}
  /\ MemMode \in BOOLEAN /\ DdlIsolation \in BOOLEAN
  /\ IntBound \in Nat \ {0}
  /\ BatchSizes \subseteq Nat \ {0}
  /\ MaxData \in Nat \ {0} /\ MaxLog \in Nat

VARIABLES
  running,      \* between start() and stop()
  entries,      \* the slots: the event and whether its entry is still attached
  putSequence, getSequence, ackSequence,
  putMemSize, getMemSize, ackMemSize,
  log,          \* history: every event put since start(), sequence q at q+1
  fetched       \* history: the highest sequence any get returned since start()

cursors == <<putSequence, getSequence, ackSequence>>
mems == <<putMemSize, getMemSize, ackMemSize>>
storeVars == <<running, entries, cursors, mems, log, fetched>>

-----------------------------------------------------------------------------
InitSequence == -1

Empty == [event |-> NoEvent, entry |-> FALSE]
Full(e) == [event |-> e, entry |-> TRUE]
Slot == [event : Event \cup {NoEvent}, entry : BOOLEAN]

Index(seq) == seq % BufferSize
At(seq) == entries[Index(seq)]

\* Java int arithmetic: the product of two ints wraps before it is widened.
JavaInt(n) == ((n + IntBound) % (2 * IntBound)) - IntBound

IsDdl(seq) == KindOf[At(seq).event] = "DDL"

\* Memory charged for the sequences of a set, read from the slots.
MemOf(seqs) == SumFunction([q \in seqs |-> RawLength[At(q).event]])

DataList == UNION {[1..n -> Event] : n \in 1..MaxData}

-----------------------------------------------------------------------------
(* put: checkFreeSlotAt and doPut, as tryPut runs them under the lock. *)

\* A faulty variant: the put looks at the ack cursor only.
MinimumAckOnly == ackSequence

MinimumGetOrAck == IF ackSequence <= getSequence THEN ackSequence
                                                 ELSE getSequence

\* A faulty variant: one slot too many is taken for free.
CheckFreeSlotOffByOne(seq) == seq - BufferSize - 1 <= MinimumGetOrAck

\* The memory limit looks at what is held before the put, so one put may
\* overshoot it.
CheckFreeSlotAt(seq) ==
  /\ seq - BufferSize <= MinimumGetOrAck
  /\ MemMode => putMemSize - ackMemSize < JavaInt(BufferSize * BufferMemUnit)

\* A faulty variant: the last event of the list is not charged.
DataMemButLast(data) == SumFunction([k \in 1..Len(data)-1 |-> RawLength[data[k]]])

DataMem(data) == SumFunction([k \in 1..Len(data) |-> RawLength[data[k]]])

Put(data) ==
  LET end == putSequence + Len(data) IN
  /\ running
  /\ CheckFreeSlotAt(end)
  /\ entries' = [i \in 0..BufferSize-1 |->
                   IF \E q \in putSequence+1..end : Index(q) = i
                   THEN Full(data[(CHOOSE q \in putSequence+1..end : Index(q) = i)
                                  - putSequence])
                   ELSE entries[i]]
  /\ putSequence' = end
  /\ putMemSize' = IF MemMode THEN putMemSize + DataMem(data) ELSE putMemSize
  /\ log' = log \o data
  /\ UNCHANGED <<running, getSequence, ackSequence, getMemSize, ackMemSize, fetched>>

-----------------------------------------------------------------------------
(* get: doGet under the lock.  Its start position only matters through     *)
(* isIncluded(), and no caller of get has a position with included = true  *)
(* (createPosition's flag defaults to false and only getLatestPosition,    *)
(* which nothing calls, sets it), so reading starts at getSequence + 1.    *)

MaxMemSize(batchSize) == JavaInt(batchSize * BufferMemUnit)

\* The loop condition when it looks at sequence q.
Reached(q, batchSize) ==
  IF MemMode THEN MemOf(getSequence+1..q-1) <= MaxMemSize(batchSize)
             ELSE q <= getSequence + batchSize

\* doGet takes the sequences getSequence+1..end: all of them reached, a DDL
\* only alone when DDLs are isolated, and the loop stopped right after end.
\* There is no such end when the loop meets a slot that an ack has nulled: it
\* throws with nothing changed.
BatchEnd(end, batchSize) ==
  /\ \A q \in getSequence+1..end : At(q) # Empty
  /\ \A q \in getSequence+1..end : Reached(q, batchSize)
  /\ DdlIsolation =>
       \A q \in getSequence+1..end : IsDdl(q) => end = getSequence + 1
  /\ end < putSequence /\ Reached(end+1, batchSize) =>
       /\ DdlIsolation
       /\ At(end+1) # Empty
       /\ IsDdl(end+1) \/ IsDdl(end)

\* A faulty variant: only the end of a transaction is one.
AckableAtEndOnly(q) == KindOf[At(q).event] = "END"

\* The positions at which a restart may resume; a GTID begin is not one.
Ackable(q) == KindOf[At(q).event] \in {"BEGIN", "DDL", "END"}

\* The PositionRange of the batch getSequence+1..end.
RangeTo(end) ==
  LET seqs == getSequence+1..end
      ackable == {q \in seqs : Ackable(q)} IN
  [start  |-> At(getSequence+1).event,
   end    |-> At(end).event,
   endSeq |-> end,
   ack    |-> IF ackable = {} THEN NoEvent ELSE At(Max(ackable)).event]

\* checkUnGetSlotAt, on which the blocking get waits: batchSize items, or as
\* much memory, are there to be fetched.
CheckUnGetSlotAt(batchSize) ==
  IF MemMode THEN putMemSize - getMemSize >= MaxMemSize(batchSize)
             ELSE getSequence + batchSize <= putSequence

\* Some event is there, its slot is not nulled, and the batch is not empty (an
\* overflowed memory limit is below 0; the empty batch throws as well).
CanGet(batchSize) ==
  /\ getSequence < putSequence
  /\ At(getSequence+1) # Empty
  /\ Reached(getSequence+1, batchSize)

\* A get that returns getSequence+1..end.  The isolated DDL leaves the loop
\* before its size is added to memsize.
GetTo(end, batchSize) ==
  LET isolated == DdlIsolation /\ IsDdl(getSequence+1) IN
  /\ running
  /\ CanGet(batchSize)
  /\ BatchEnd(end, batchSize)
  /\ getSequence' = end
  /\ getMemSize' = IF MemMode /\ ~ isolated
                   THEN getMemSize + MemOf(getSequence+1..end) ELSE getMemSize
  /\ fetched' = IF end > fetched THEN end ELSE fetched
  /\ UNCHANGED <<running, entries, putSequence, ackSequence, putMemSize,
                 ackMemSize, log>>

Get(batchSize) == \E end \in getSequence+1..putSequence : GetTo(end, batchSize)

-----------------------------------------------------------------------------
(* ack(position, seqId) and ack(position), which is seqId = -1. *)

\* The sequences cleanUntil may stop at.  seqId = 0 is not "> 0": the scan
\* then ends at getSequence.
AckMatches(position, seqId) ==
  {q \in ackSequence+1..(IF seqId > 0 THEN seqId ELSE getSequence) :
     /\ seqId < 0 \/ q = seqId
     /\ At(q).event = position}

\* A faulty variant: everything handed out is released with the acked events.
CleanAllFetched(next) ==
  /\ ackSequence' = next
  /\ entries' = [i \in 0..BufferSize-1 |->
       IF \E q \in ackSequence+1..fetched : Index(q) = i THEN Empty ELSE entries[i]]
  /\ UNCHANGED <<running, putSequence, getSequence, mems, log, fetched>>

\* The scan stops at its first match, next.
CleanTo(next) ==
  /\ ackSequence' = next
  /\ IF MemMode
     THEN /\ ackMemSize' = ackMemSize + MemOf(ackSequence+1..next)
          /\ entries' = [i \in 0..BufferSize-1 |->
               IF i = Index(next) THEN [entries[i] EXCEPT !.entry = FALSE]
               ELSE IF \E q \in ackSequence+1..next-1 : Index(q) = i THEN Empty
               ELSE entries[i]]
     ELSE UNCHANGED <<ackMemSize, entries>>
  /\ UNCHANGED <<running, putSequence, getSequence, putMemSize, getMemSize,
                 log, fetched>>

CleanUntil(position, seqId) ==
  /\ running
  /\ \E next \in AckMatches(position, seqId) :
       /\ \A q \in AckMatches(position, seqId) : next <= q
       /\ CleanTo(next)

\* A faulty variant: the fetched memory restarts at 0, as after stop().
RollbackForgetsMem ==
  /\ running
  /\ getSequence' = ackSequence
  /\ getMemSize' = 0
  /\ UNCHANGED <<running, entries, putSequence, ackSequence, putMemSize,
                 ackMemSize, log, fetched>>

\* A faulty variant: the last acked event is handed out again.
RollbackOneTooFar ==
  /\ running
  /\ getSequence' = IF ackSequence = InitSequence THEN InitSequence ELSE ackSequence - 1
  /\ getMemSize' = ackMemSize
  /\ UNCHANGED <<running, entries, putSequence, ackSequence, putMemSize,
                 ackMemSize, log, fetched>>

Rollback ==
  /\ running
  /\ getSequence' = ackSequence
  /\ getMemSize' = ackMemSize
  /\ UNCHANGED <<running, entries, putSequence, ackSequence, putMemSize,
                 ackMemSize, log, fetched>>

\* A faulty variant: the newest event, as getLatestPosition.
FirstPositionIsLatest ==
  IF putSequence = InitSequence THEN NoEvent ELSE At(putSequence).event

\* getFirstPosition: before any ack the position of the oldest event, later
\* that of the last acked event, read from its slot.
FirstPosition ==
  IF putSequence = InitSequence THEN NoEvent
  ELSE IF ackSequence = InitSequence THEN At(0).event
  ELSE At(ackSequence).event

-----------------------------------------------------------------------------
(* start and stop. *)

\* A faulty variant: stop() forgets the get cursor.
ResetKeepsGet ==
  /\ entries' = [i \in 0..BufferSize-1 |-> Empty]
  /\ putSequence' = InitSequence /\ ackSequence' = InitSequence
  /\ putMemSize' = 0 /\ getMemSize' = 0 /\ ackMemSize' = 0
  /\ log' = <<>> /\ fetched' = InitSequence
  /\ UNCHANGED getSequence

Reset ==
  /\ entries' = [i \in 0..BufferSize-1 |-> Empty]
  /\ putSequence' = InitSequence /\ getSequence' = InitSequence
  /\ ackSequence' = InitSequence
  /\ putMemSize' = 0 /\ getMemSize' = 0 /\ ackMemSize' = 0
  /\ log' = <<>> /\ fetched' = InitSequence

Start == ~ running /\ running' = TRUE /\ UNCHANGED <<entries, cursors, mems, log, fetched>>

Stop == running /\ running' = FALSE /\ Reset

Init ==
  /\ running = FALSE
  /\ entries = [i \in 0..BufferSize-1 |-> Empty]
  /\ putSequence = InitSequence /\ getSequence = InitSequence
  /\ ackSequence = InitSequence
  /\ putMemSize = 0 /\ getMemSize = 0 /\ ackMemSize = 0
  /\ log = <<>> /\ fetched = InitSequence

PutSome == \E data \in DataList : Len(log) + Len(data) <= MaxLog /\ Put(data)

GetSome == \E batchSize \in BatchSizes : Get(batchSize)

\* An ack carries the end of a range some get returned since start(); by the
\* time it arrives a rollback may have moved getSequence below it.
AckSequence == \E q \in 0..fetched : CleanUntil(log[q+1], q)

AckPosition == \E e \in Event : CleanUntil(e, -1)

Next ==
  \/ Start \/ Stop
  \/ PutSome \/ GetSome
  \/ AckSequence \/ AckPosition
  \/ Rollback

Spec == Init /\ [][Next]_storeVars

\* The discipline of a single caller: it acks only what it has fetched and
\* not rolled back, up to any event of it.
SerialAckSequence ==
  \E q \in ackSequence+1..getSequence : CleanUntil(log[q+1], q)

SerialNext ==
  \/ Start \/ Stop
  \/ PutSome \/ GetSome
  \/ SerialAckSequence \/ AckPosition
  \/ Rollback

SerialSpec == Init /\ [][SerialNext]_storeVars

-----------------------------------------------------------------------------
(* What the store promises whatever order its callers come in. *)

\* Every variable has its type and the log is what the cursors count.
TypeOK ==
  /\ running \in BOOLEAN
  /\ entries \in [0..BufferSize-1 -> Slot]
  /\ log \in Seq(Event)
  /\ putSequence = Len(log) - 1
  /\ getSequence \in -1..putSequence
  /\ ackSequence \in -1..putSequence
  /\ fetched \in -1..putSequence

\* A put never overtakes the slower of the two readers by more than the ring
\* holds (checkFreeSlotAt), even when a late ack has passed a rolled-back get
\* cursor; and nothing is confirmed or re-read that no get ever returned.
CursorOrder ==
  /\ putSequence - BufferSize <= getSequence
  /\ putSequence - BufferSize <= ackSequence
  /\ getSequence <= fetched
  /\ ackSequence <= fetched

\* Every event put and not yet acked is still in its slot with its entry, so a
\* rollback can hand it out again: neither a put that wraps around nor the
\* release of acked memory in MEMSIZE mode touches it.
UnackedRetained ==
  \A q \in ackSequence+1..putSequence : At(q) = Full(log[q+1])

Volume(lo, hi) == SumFunction([q \in lo..hi |-> RawLength[log[q+1]]])

\* The memory put minus the memory acked, which holds back the sink, is
\* exactly what the unacked events weigh, and without the last put it stays
\* under the limit.
MemAccounting ==
  IF MemMode
  THEN /\ putMemSize - ackMemSize = Volume(ackSequence+1, putSequence)
       /\ Volume(ackSequence+1, putSequence-MaxData)
            < JavaInt(BufferSize * BufferMemUnit)
  ELSE mems = <<0, 0, 0>>

\* When checkUnGetSlotAt reports a full batch, the events still to be fetched
\* do weigh that much ("check whether there is data to get, and its amount is
\* at least batchSize"), so a blocking get never returns early.
EnoughMeansEnough ==
  \A batchSize \in BatchSizes : CheckUnGetSlotAt(batchSize) =>
    IF MemMode THEN Volume(getSequence+1, putSequence) >= batchSize * BufferMemUnit
               ELSE putSequence - getSequence >= batchSize

\* The first position is that of the last ack once there was one ("the position
\* data of the last ack"), from which a client without a cursor starts.
FirstPositionIsLastAcked ==
  ackSequence # InitSequence => FirstPosition = log[ackSequence+1]

(* What a single caller can rely on. *)

\* The get cursor is never behind the ack cursor: no get returns an event that
\* is already confirmed.
GetAheadOfAck == ackSequence <= getSequence

\* Whatever batch size is asked for, as long as something is stored and
\* unfetched some event can be had ("always guarantee that the first record can
\* be taken, to avoid a deadlock"): no get meets a slot already released.
FirstAlwaysFetchable ==
  running /\ getSequence < putSequence =>
    \A batchSize \in BatchSizes : CanGet(batchSize)

\* The unacked slots, read through the ring, oldest first.
Unacked == [i \in 1..putSequence-ackSequence |-> At(ackSequence+i)]

Queue == INSTANCE AtLeastOnceQueue WITH
  Item <- {Full(e) : e \in Event}, Capacity <- BufferSize,
  pending <- Unacked, sent <- getSequence - ackSequence

\* Under a single caller the ring buffer implements the bounded queue: each
\* put appends, each get hands out the next items, an ack forgets exactly a
\* handed-out prefix and a rollback replays from the first unacked event.
ImplementsQueue == Queue!QSpec

=============================================================================
