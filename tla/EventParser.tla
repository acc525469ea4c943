---------------------------- MODULE EventParser ----------------------------
(***************************************************************************)
(* The parser thread of a destination                                      *)
(* (parse/.../AbstractEventParser.java): it dumps the binlog from a start  *)
(* position, gathers the entries in an EventTransactionBuffer, hands each  *)
(* full list to the EntryEventSink, which retries tryPut until the event   *)
(* store has room, and remembers the end of the last transaction it got    *)
(* rid of.  After an error of the dump it begins again at that position,   *)
(* after a restart at the cursor of the client.                            *)
(*                                                                         *)
(* The binlog is the numbers 1..n, an event is its position.  Entries come *)
(* one at a time and in order; heartbeats of the master find an empty      *)
(* buffer and leave no trace, so they are left out.  MaxFaults bounds how  *)
(* often a dump breaks.                                                    *)
(***************************************************************************)
EXTENDS MemoryEventStore

CONSTANTS
  TransactionSize,  \* slots of the transaction buffer
  MasterPosition,   \* where the configuration says to start without a cursor
  MaxFaults         \* bound on broken dumps, rollbacks, stops and crashes

\* A list of the transaction buffer longer than the ring would never be stored;
\* the binlog holds whole transactions.
ASSUME ParserAssumption ==
  /\ IsFiniteSet(Event) /\ Event = 1..Cardinality(Event)
  /\ NoEvent = 0
  /\ TransactionSize \in 1..BufferSize
  /\ MasterPosition \in Event
  /\ KindOf[Cardinality(Event)] \in {"END", "DDL"}
  /\ MaxFaults \in Nat

VARIABLES
  parser,       \* what the parser thread does: "stopped", "finding", "dumping"
  next,         \* the binlog position the dump sends next
  todo,         \* what add(entry) has still to do with the last entry
  buffer,       \* the entries between flushSequence and putSequence
  logPosition,  \* MemoryLogPositionManager, NoEvent before any transaction
  faults        \* how many faults have happened

parserVars == <<parser, next, todo, buffer, logPosition>>

Last == Cardinality(Event)

\* The entries that carry data.
HasData(e) == KindOf[e] \in {"ROW", "DDL"}

ParserInit ==
  /\ parser = "stopped" /\ next = 1
  /\ todo = <<>> /\ buffer = <<>>
  /\ logPosition = NoEvent

-----------------------------------------------------------------------------
(* The run loop: find a position, dump, start over after an error. *)

\* FailbackLogPositionManager: the memory, then the cursor of the client, then
\* the configuration.  The dump sends the event at its start position again.
StartPosition(cursorPosition) ==
  IF logPosition # NoEvent THEN logPosition
  ELSE IF cursorPosition # NoEvent THEN cursorPosition
  ELSE MasterPosition

FindStartPosition(cursorPosition) ==
  /\ parser = "finding"
  /\ parser' = "dumping"
  /\ next' = StartPosition(cursorPosition)
  /\ UNCHANGED <<storeVars, todo, buffer, logPosition, faults>>

\* The connection breaks or an entry cannot be parsed.
DumpFails ==
  /\ parser = "dumping" /\ faults < MaxFaults
  /\ parser' = "finding"
  /\ todo' = <<>> /\ buffer' = <<>>
  /\ faults' = faults + 1
  /\ UNCHANGED <<storeVars, next, logPosition>>

-----------------------------------------------------------------------------
(* EventTransactionBuffer.add: put and flush in an order that depends on   *)
(* the entry.                                                              *)

AddSteps(e) ==
  CASE KindOf[e] \in {"BEGIN", "GTIDBEGIN"} -> <<"flush", "put">>
    [] KindOf[e] \in {"END", "DDL"}         -> <<"put", "flush">>
    [] KindOf[e] = "ROW"                    -> <<"put">>

Receive ==
  /\ parser = "dumping" /\ todo = <<>> /\ next <= Last
  /\ todo' = AddSteps(next)
  /\ next' = next + 1
  /\ UNCHANGED <<storeVars, parser, buffer, logPosition, faults>>

\* The step of add that is due; the entry is the last one received.
Due(step) == parser = "dumping" /\ todo # <<>> /\ Head(todo) = step

\* Faulty variants: a full buffer is not flushed first, the new entry takes the
\* slot of the oldest or one that does not exist.
PutOverOldest ==
  /\ Due("put")
  /\ buffer' = Append(IF Len(buffer) < TransactionSize THEN buffer ELSE Tail(buffer), next-1)
  /\ todo' = Tail(todo)
  /\ UNCHANGED <<storeVars, parser, next, logPosition, faults>>

PutUnchecked ==
  /\ Due("put")
  /\ buffer' = Append(buffer, next-1) /\ todo' = Tail(todo)
  /\ UNCHANGED <<storeVars, parser, next, logPosition, faults>>

PutEntry ==
  /\ Due("put")
  /\ IF Len(buffer) < TransactionSize
     THEN buffer' = Append(buffer, next-1) /\ todo' = Tail(todo)
     ELSE todo' = <<"flush">> \o todo /\ UNCHANGED buffer
  /\ UNCHANGED <<storeVars, parser, next, logPosition, faults>>

\* buildLastTransactionPosition never looks at the first entry of the list.
LastTransactionPosition ==
  LET ends == {i \in 2..Len(buffer) : KindOf[buffer[i]] = "END"} IN
  IF ends = {} THEN NoEvent ELSE buffer[Max(ends)]

\* A faulty variant: a full store counts as success.
SinkOrDrop ==
  Put(buffer) \/ (~ CheckFreeSlotAt(putSequence + Len(buffer)) /\ UNCHANGED storeVars)

\* EntryEventSink: a list without rows is stored only now and then, depending
\* on times and counts; any other waits until it fits.
Sink ==
  \/ Put(buffer)
  \/ (\A i \in DOMAIN buffer : ~ HasData(buffer[i])) /\ UNCHANGED storeVars

PersistLogPosition ==
  logPosition' = IF LastTransactionPosition = NoEvent THEN logPosition
                                                      ELSE LastTransactionPosition

Flush ==
  /\ Due("flush")
  /\ IF buffer = <<>> THEN UNCHANGED <<storeVars, logPosition>>
                      ELSE Sink /\ PersistLogPosition
  /\ buffer' = <<>> /\ todo' = Tail(todo)
  /\ UNCHANGED <<parser, next, faults>>

Parse(cursorPosition) ==
  \/ FindStartPosition(cursorPosition)
  \/ Receive \/ PutEntry \/ Flush

=============================================================================
