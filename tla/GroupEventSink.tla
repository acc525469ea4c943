--------------------------- MODULE GroupEventSink ---------------------------
(***************************************************************************)
(* The sink of a destination that merges several databases                 *)
(* (sink/.../group/GroupEventSink.java): the parser of each database hands *)
(* its lists of events to the same sink, each event waits at a barrier     *)
(* until it has the smallest time stamp of all parsers (TimelineBarrier),  *)
(* and a parser whose transaction has begun keeps the others out until its *)
(* end (TimelineTransactionBarrier).  A list is stored when its last event *)
(* has passed.                                                             *)
(*                                                                         *)
(* The lists are what the transaction buffers flush.  Each parser sinks in *)
(* its own thread (parallel parsing is off), the store always has room.    *)
(* The code as CanalInstanceWithManager sets it up: transaction entries    *)
(* are kept, empty transactions filtered, no heart beats.  An interrupt is *)
(* modelled where a thread waits.                                          *)
(***************************************************************************)
EXTENDS Naturals, Integers, Sequences, FiniteSets

M == INSTANCE FiniteSetsExt

CONSTANTS
  Parser,     \* the parsers of the group
  Lists,      \* the lists each of them flushes, of records [kind, time]
  MaxFaults,  \* bound on broken dumps and interrupts
  MaxDump     \* bound on the dumps of a parser

ASSUME GroupAssumption ==
  /\ IsFiniteSet(Parser)
  /\ \A p \in Parser : Lists[p] \in
       Seq(Seq([kind : {"BEGIN", "ROW", "DDL", "END"}, time : Nat]) \ {<<>>})
  /\ MaxFaults \in Nat /\ MaxDump \in Nat

VARIABLES
  step,           \* where the thread of a parser is
  list, index,    \* the list it sinks and the event it is at
  sent,           \* how many of its lists it has taken
  position,       \* the list that ends with the last recorded END, 0 for none
  dump,           \* how many dumps it has begun
  interrupted,    \* the parsers whose wait was interrupted
  threshold,      \* the largest time stamp that may pass
  submitted,      \* lastTimestamps: the parsers with a time stamp in the queue
  txState,        \* 0 free, 1 in a transaction, 2 in another event
  inTransaction,  \* the thread-local flags that are set
  log,            \* what the store was given
  faults

parserVars == <<list, index, sent, position, dump, interrupted>>
barrierVars == <<threshold, submitted, txState, inTransaction>>
vars == <<step, parserVars, barrierVars, log, faults>>

LongMin == -1
GroupSize == Cardinality(Parser)

Current(p) == list[p][index[p]]
Last(events) == events[Len(events)]
HasRows(events) == \E i \in DOMAIN events : events[i].kind \in {"ROW", "DDL"}
LeavesOpen(events) == Last(events).kind \notin {"END", "DDL"}

\* What a transaction buffer flushes (EventTransactionBuffer.add; the sink has no
\* filter of its own): an END ends its list; a list that leaves a transaction
\* open is one of a full buffer, of two entries or more, so that it has rows, and
\* begins the transaction or goes on with it.  Events carry their positions, which
\* tell lists apart.
ASSUME ListsAssumption ==
  \A p \in Parser : \A i \in 1..Len(Lists[p]) :
    LET events == Lists[p][i] IN
    /\ \A j \in 1..Len(events)-1 : events[j].kind # "END"
    /\ LeavesOpen(events) =>
         /\ HasRows(events)
         /\ events[1].kind = "BEGIN" \/ (i > 1 /\ LeavesOpen(Lists[p][i-1]))
    /\ \A k \in 1..Len(Lists[p]) \ {i} :
         events # Lists[p][k] /\ events # <<Last(Lists[p][k])>>

Init ==
  /\ step = [p \in Parser |-> "idle"]
  /\ list = [p \in Parser |-> <<>>] /\ index = [p \in Parser |-> 0]
  /\ sent = [p \in Parser |-> 0] /\ position = [p \in Parser |-> 0]
  /\ dump = [p \in Parser |-> 1]
  /\ interrupted = {}
  /\ threshold = LongMin /\ submitted = {}
  /\ txState = 0 /\ inTransaction = {}
  /\ log = <<>> /\ faults = 0

-----------------------------------------------------------------------------
(* The parser: sinkData of EntryEventSink, the flush callback and the      *)
(* restart of AbstractEventParser.                                         *)

BeginSink(p, events) ==
  /\ list' = [list EXCEPT ![p] = events]
  /\ index' = [index EXCEPT ![p] = 1]
  /\ step' = [step EXCEPT ![p] = "await"]

\* A faulty variant: the position after the list is recorded.
RecordedNext(p, events) ==
  IF \E i \in 2..Len(events) : events[i].kind = "END"
  THEN [position EXCEPT ![p] = sent'[p] + 1] ELSE position

\* buildLastTransactionPosition looks at all events but the first.
Recorded(p, events) ==
  IF \E i \in 2..Len(events) : events[i].kind = "END"
  THEN [position EXCEPT ![p] = sent'[p]] ELSE position

Flush(p) ==
  /\ step[p] = "idle" /\ sent[p] < Len(Lists[p])
  /\ sent' = [sent EXCEPT ![p] = @ + 1]
  /\ LET events == Lists[p][sent[p] + 1] IN
     \/ BeginSink(p, events) /\ UNCHANGED position
     \/ /\ ~ HasRows(events)      \* sunk now and then, depending on the clock
        /\ position' = Recorded(p, events)
        /\ UNCHANGED <<step, list, index>>
  /\ UNCHANGED <<dump, interrupted, barrierVars, log, faults>>

DumpFails(p) ==
  /\ step[p] = "idle" /\ faults < MaxFaults
  /\ step' = [step EXCEPT ![p] = "broken"]
  /\ faults' = faults + 1
  /\ UNCHANGED <<parserVars, barrierVars, log>>

\* A faulty variant: the new dump goes on where the last one broke off.
RestartInPlace(p) ==
  /\ step[p] = "broken" /\ dump[p] < MaxDump
  /\ txState' = 0 /\ inTransaction' = inTransaction \ {p}
  /\ dump' = [dump EXCEPT ![p] = @ + 1]
  /\ interrupted' = interrupted \ {p}
  /\ step' = [step EXCEPT ![p] = "idle"]
  /\ UNCHANGED <<list, index, sent, position, threshold, submitted, log, faults>>

\* eventSink.interrupt() resets the barrier, whoever is inside; the new dump
\* begins with the END that was recorded last.
Restart(p) ==
  /\ step[p] = "broken" /\ dump[p] < MaxDump
  /\ txState' = 0 /\ inTransaction' = inTransaction \ {p}
  /\ sent' = [sent EXCEPT ![p] = position[p]]
  /\ dump' = [dump EXCEPT ![p] = @ + 1]
  /\ interrupted' = interrupted \ {p}
  /\ \/ /\ position[p] # 0
        /\ LET events == Lists[p][position[p]] IN BeginSink(p, <<Last(events)>>)
     \/ step' = [step EXCEPT ![p] = "idle"] /\ UNCHANGED <<list, index>>
  /\ UNCHANGED <<position, threshold, submitted, log, faults>>

-----------------------------------------------------------------------------
(* The barrier: await. *)

\* isPermit of TimelineTransactionBarrier; a parser inside its transaction
\* passes whatever the time.
Inside(p) == txState = 1 /\ p \in inTransaction

\* A faulty variant: the state of the barrier is not looked at.
PermittedByTime(p) == Current(p).time <= threshold'

Permitted(p) == Inside(p) \/ (txState = 0 /\ Current(p).time <= threshold')

Enter(p) ==
  IF Inside(p) THEN UNCHANGED <<txState, inTransaction>>
  ELSE IF Current(p).kind = "BEGIN"
       THEN txState' = 1 /\ inTransaction' = inTransaction \cup {p}
       ELSE txState' = 2 /\ UNCHANGED inTransaction

\* The last event of a list stores the list before it leaves the barrier.
EnterOrWait(p, awake) ==
  IF Permitted(p)
  THEN /\ Enter(p)
       /\ step' = [awake EXCEPT ![p] =
                     IF index[p] = Len(list[p]) THEN "store" ELSE "clear"]
  ELSE /\ UNCHANGED <<txState, inTransaction>>
       /\ step' = [awake EXCEPT ![p] = "waiting"]

\* A faulty variant: nobody is notified.
SignalNobody == step

SignalAll == [q \in Parser |-> IF step[q] = "waiting" THEN "woken" ELSE step[q]]

Locked == \E q \in Parser : step[q] = "single"

\* Lock, submit the time stamp and count those in the queue.
Submit(p) ==
  /\ step[p] = "await" /\ ~ Locked
  /\ submitted' = submitted \cup {p}
  /\ IF Cardinality(submitted') >= GroupSize
     THEN /\ step' = [step EXCEPT ![p] = "single"]
          /\ UNCHANGED <<threshold, txState, inTransaction>>
     ELSE threshold' = LongMin /\ EnterOrWait(p, step)
  /\ UNCHANGED <<parserVars, log, faults>>

\* A faulty variant: the time stamp of the caller becomes the threshold.
TakeOwn(p) ==
  /\ step[p] = "single"
  /\ threshold' = Current(p).time
  /\ EnterOrWait(p, SignalAll)
  /\ UNCHANGED <<parserVars, submitted, log, faults>>

\* Still under the lock: the smallest of the time stamps in the queue by now.
TakeMinimum(p) ==
  /\ step[p] = "single"
  /\ threshold' = M!Min({Current(q).time : q \in submitted})
  /\ EnterOrWait(p, SignalAll)
  /\ UNCHANGED <<parserVars, submitted, log, faults>>

Wake(p) ==
  /\ step[p] = "woken" /\ ~ Locked
  /\ UNCHANGED threshold
  /\ EnterOrWait(p, step)
  /\ UNCHANGED <<parserVars, submitted, log, faults>>

\* A switch to the standby interrupts the thread: await resets the barrier.
Interrupt(p) ==
  /\ step[p] \in {"waiting", "woken"} /\ ~ Locked /\ faults < MaxFaults
  /\ interrupted' = interrupted \cup {p}
  /\ txState' = 0 /\ inTransaction' = inTransaction \ {p}
  /\ step' = [step EXCEPT ![p] = "clear"]
  /\ faults' = faults + 1
  /\ UNCHANGED <<list, index, sent, position, dump, threshold, submitted, log>>

Store(p) ==
  /\ step[p] = "store"
  /\ log' = Append(log, [parser |-> p, events |-> list[p], dump |-> dump[p]])
  /\ step' = [step EXCEPT ![p] = "clear"]
  /\ UNCHANGED <<parserVars, barrierVars, faults>>

-----------------------------------------------------------------------------
(* The barrier: clear, without the lock.                                   *)

Clear(p) ==
  /\ step[p] = "clear"
  /\ submitted' = submitted \ {p}
  /\ step' = [step EXCEPT ![p] = "cleared"]
  /\ UNCHANGED <<parserVars, threshold, txState, inTransaction, log, faults>>

\* On with the next event or, after the last, with the next list.
Leave(p) ==
  IF p \in interrupted
  THEN step' = [step EXCEPT ![p] = "broken"] /\ UNCHANGED <<index, position>>
  ELSE IF index[p] < Len(list[p])
  THEN /\ index' = [index EXCEPT ![p] = @ + 1]
       /\ step' = [step EXCEPT ![p] = "await"] /\ UNCHANGED position
  ELSE /\ step' = [step EXCEPT ![p] = "idle"]
       /\ position' = Recorded(p, list[p]) /\ UNCHANGED index

\* The state is read first, then compared and set; 2 goes before the END,
\* which may have been let in as an event outside of any transaction.
ReadState(p) ==
  /\ step[p] = "cleared"
  /\ UNCHANGED sent
  /\ IF txState = 2
     THEN /\ step' = [step EXCEPT ![p] = "leave 2"]
          /\ UNCHANGED <<index, position, inTransaction>>
     ELSE IF Current(p).kind = "END"
     THEN /\ step' = [step EXCEPT ![p] = "leave 1"]
          /\ inTransaction' = inTransaction \ {p}
          /\ UNCHANGED <<index, position>>
     ELSE Leave(p) /\ UNCHANGED inTransaction
  /\ UNCHANGED <<list, dump, interrupted, threshold, submitted, txState, log, faults>>

\* A state that is not the expected one is a CanalSinkException, and the dump
\* begins anew.
CompareAndSet(p, expected) ==
  /\ UNCHANGED sent
  /\ IF txState = expected
     THEN txState' = 0 /\ Leave(p)
     ELSE /\ step' = [step EXCEPT ![p] = "broken"]
          /\ UNCHANGED <<index, position, txState>>
  /\ UNCHANGED <<list, dump, interrupted, threshold, submitted, inTransaction, log, faults>>

LeaveState(p) ==
  \/ step[p] = "leave 1" /\ CompareAndSet(p, 1)
  \/ step[p] = "leave 2" /\ CompareAndSet(p, 2)

-----------------------------------------------------------------------------
ParserThread(p) ==
  \/ Flush(p) \/ Restart(p)
  \/ Submit(p) \/ TakeMinimum(p) \/ Wake(p) \/ Store(p)
  \/ Clear(p) \/ ReadState(p) \/ LeaveState(p)

Next == \E p \in Parser : ParserThread(p) \/ DumpFails(p) \/ Interrupt(p)

\* No thread of a parser stops for ever by itself.
GroupSpec == Init /\ [][Next]_vars /\ \A p \in Parser : WF_vars(ParserThread(p))

-----------------------------------------------------------------------------
GroupTypeOK ==
  /\ \A p \in Parser :
       /\ step[p] \in {"idle", "await", "single", "waiting", "woken", "store",
                       "clear", "cleared", "leave 1", "leave 2", "broken"}
       /\ sent[p] \in 0..Len(Lists[p]) /\ position[p] \in 0..sent[p]
       /\ step[p] # "idle" => index[p] \in 0..Len(list[p])
  /\ txState \in 0..2
  /\ submitted \subseteq Parser /\ inTransaction \subseteq Parser

\* A list that leaves its transaction open.
IsOpen(entry) == LeavesOpen(entry.events)

\* The lists of one transaction are next to each other in the store ("merged by
\* transaction"), unless the dump that brought them was broken off.
Unmixed ==
  \A i \in 1..Len(log)-1 :
    IsOpen(log[i]) => \/ log[i+1].parser = log[i].parser
                      \/ dump[log[i].parser] > log[i].dump

\* As long as no dump breaks and no thread is interrupted, transactions are not
\* mixed although long ones come in several lists and their END may be skipped,
\* and the barrier's "state is not correct" exceptions never happen.
UnmixedWithoutFaults == faults = 0 => Unmixed /\ \A p \in Parser : step[p] # "broken"

\* A parser that enters a free barrier does not overtake one that waits there
\* with an earlier time stamp, even when the barrier has been reset.
NoOvertaking ==
  [][\A p, q \in Parser :
       /\ txState = 0 /\ txState' # 0 /\ step'[p] \in {"store", "clear"}
       /\ step[p] \in {"single", "woken"}
       /\ q # p /\ step[q] \in {"waiting", "woken"}
       => Current(p).time <= Current(q).time]_vars

\* Each database arrives in its order and without a gap: a list with data is in
\* the store before any later one of its parser, through all faults.
StreamsKept ==
  \A p \in Parser : \A i \in 1..Len(Lists[p]) : HasRows(Lists[p][i]) =>
    LET Has(n, k) == log[n].parser = p /\ log[n].events = Lists[p][k] IN
    /\ sent[p] > i \/ (sent[p] = i /\ step[p] = "idle")
         => \E n \in DOMAIN log : Has(n, i)
    /\ \A n \in DOMAIN log : \A k \in i+1..Len(Lists[p]) :
         Has(n, k) => \E m \in 1..n-1 : Has(m, i)

\* The parsers do not block each other for ever: as long as all of them have
\* events, the merge goes on, until one has handed over everything (or has used
\* up the dumps the bound allows).
HandedOver(p) == step[p] = "idle" /\ sent[p] = Len(Lists[p])
UsedUp(p) == step[p] = "broken" /\ dump[p] = MaxDump
Progress == <>(\E p \in Parser : HandedOver(p) \/ UsedUp(p))

=============================================================================
