------------------------- MODULE BlockingEventStore -------------------------
(***************************************************************************)
(* The waiting forms of put and get of MemoryEventStoreWithBuffer, as the  *)
(* threads of a destination use them: two Condition queues on the store's  *)
(* lock, signalled one thread at a time, timeouts and interrupts; and the  *)
(* sink thread, which does not wait but retries tryPut.  The getters are   *)
(* the threads inside the server's get, one at a time because get holds    *)
(* the instance's monitor, and the monitor keeps rollbacks out of it too.  *)
(*                                                                         *)
(* A step of a thread is one tenure of the lock: from lock() or the return *)
(* of await() to unlock() or the next await().                             *)
(***************************************************************************)
EXTENDS MemoryEventStore, SequencesExt

CONSTANTS
  Putter, Getter,  \* the threads
  NoCall,          \* a thread outside the store
  PutModes,        \* among "put", "timedPut", "sink"
  GetModes,        \* among "get", "timedGet", "tryGet"
  MaxUnacked,      \* unacked events with which the client still fetches
  MaxFaults        \* bound on interrupts and rollbacks

Thread == Putter \cup Getter
PutCall == [mode : PutModes, data : DataList]
GetCall == [mode : GetModes, batchSize : BatchSizes]

ASSUME BlockingAssumption ==
  /\ Putter \cap Getter = {}
  /\ PutModes \subseteq {"put", "timedPut", "sink"}
  /\ GetModes \subseteq {"get", "timedGet", "tryGet"}
  /\ NoCall \notin PutCall \cup GetCall
  /\ MaxUnacked \in Nat /\ MaxFaults \in Nat

VARIABLES
  call,      \* what each thread is doing in the store, or NoCall
  notFull,   \* threads in notFull.await(), oldest first
  notEmpty,  \* threads in notEmpty.await(), oldest first
  expired,   \* timed callers whose time has run out
  faults     \* interrupts and rollbacks so far

waitVars == <<notFull, notEmpty>>
blockingVars == <<storeVars, call, waitVars, expired, faults>>

Waiting(t) == \E i \in DOMAIN notFull : notFull[i] = t
Starving(t) == \E i \in DOMAIN notEmpty : notEmpty[i] = t

\* The thread holds or competes for the lock.
Awake(t) == call[t] # NoCall /\ ~ Waiting(t) /\ ~ Starving(t)

\* Faulty variants: the waiters are not told.
NoSignalNotFull == UNCHANGED notFull
NoSignalNotEmpty == UNCHANGED notEmpty

SignalNotFull == notFull' = IF notFull = <<>> THEN <<>> ELSE Tail(notFull)
SignalNotEmpty == notEmpty' = IF notEmpty = <<>> THEN <<>> ELSE Tail(notEmpty)

\* A thread waits in one place of a queue at most.
Without(queue, t) == RemoveFirst(queue, t)

Done(t) == call' = [call EXCEPT ![t] = NoCall] /\ expired' = expired \ {t}

-----------------------------------------------------------------------------
(* Producers. *)

\* The parser has a next list of events as long as the log may grow.
CallPut(p) ==
  /\ running /\ call[p] = NoCall
  /\ \E c \in PutCall : /\ Len(log) + Len(c.data) <= MaxLog
                        /\ call' = [call EXCEPT ![p] = c]
  /\ UNCHANGED <<storeVars, waitVars, expired, faults>>

FreeFor(p) == CheckFreeSlotAt(putSequence + Len(call[p].data))

PutStores(p) ==
  /\ Awake(p) /\ FreeFor(p)
  /\ Put(call[p].data)
  /\ SignalNotEmpty
  /\ Done(p)
  /\ UNCHANGED <<notFull, faults>>

PutWaits(p) ==
  /\ Awake(p) /\ ~ FreeFor(p)
  /\ call[p].mode # "sink" /\ p \notin expired
  /\ notFull' = Append(notFull, p)
  /\ UNCHANGED <<storeVars, call, notEmpty, expired, faults>>

\* A timed put returns false.
PutFails(p) ==
  /\ Awake(p) /\ ~ FreeFor(p)
  /\ p \in expired
  /\ Done(p)
  /\ UNCHANGED <<storeVars, waitVars, faults>>

-----------------------------------------------------------------------------
(* Consumers. *)

CallGet(g) ==
  /\ running /\ \A other \in Getter : call[other] = NoCall
  /\ getSequence - ackSequence <= MaxUnacked
  /\ \E c \in GetCall : call' = [call EXCEPT ![g] = c]
  /\ UNCHANGED <<storeVars, waitVars, expired, faults>>

Enough(g) == CheckUnGetSlotAt(call[g].batchSize)

\* tryGet and a timed get at its end take what is there.
MayGet(g) == Enough(g) \/ call[g].mode = "tryGet" \/ g \in expired

GetReturnsEvents(g) ==
  /\ Awake(g) /\ MayGet(g)
  /\ Get(call[g].batchSize)
  /\ SignalNotFull
  /\ Done(g)
  /\ UNCHANGED <<notEmpty, faults>>

\* Nothing to fetch, or doGet throws: no signal either way.
GetReturnsEmpty(g) ==
  /\ Awake(g) /\ MayGet(g)
  /\ ~ CanGet(call[g].batchSize)
  /\ Done(g)
  /\ UNCHANGED <<storeVars, waitVars, faults>>

GetWaits(g) ==
  /\ Awake(g) /\ ~ MayGet(g)
  /\ notEmpty' = Append(notEmpty, g)
  /\ UNCHANGED <<storeVars, call, notFull, expired, faults>>

\* The client reads the reply of its get before it acks or rolls back.
NoGetRunning == \A g \in Getter : call[g] = NoCall

\* The client acks what it has fetched, up to any event of it.
Ack ==
  /\ NoGetRunning
  /\ SerialAckSequence
  /\ SignalNotFull
  /\ UNCHANGED <<call, notEmpty, expired, faults>>

\* A rollback signals nobody.
RollbackAll ==
  /\ NoGetRunning /\ faults < MaxFaults
  /\ Rollback
  /\ faults' = faults + 1
  /\ UNCHANGED <<call, waitVars, expired>>

-----------------------------------------------------------------------------
(* Time and interrupts. *)

\* awaitNanos returns without a signal.
Expire(t) ==
  /\ Waiting(t) \/ Starving(t)
  /\ call[t].mode \in {"timedPut", "timedGet"}
  /\ notFull' = Without(notFull, t) /\ notEmpty' = Without(notEmpty, t)
  /\ expired' = expired \cup {t}
  /\ UNCHANGED <<storeVars, call, faults>>

\* An interrupted waiter leaves and passes a signal on, in case one was meant
\* for it; the sink gives up between two attempts.
Interrupt(t) ==
  /\ faults < MaxFaults
  /\ \/ /\ Waiting(t)
        /\ LET rest == Without(notFull, t) IN
             notFull' = IF rest = <<>> THEN <<>> ELSE Tail(rest)
        /\ UNCHANGED notEmpty
     \/ /\ Starving(t)
        /\ LET rest == Without(notEmpty, t) IN
             notEmpty' = IF rest = <<>> THEN <<>> ELSE Tail(rest)
        /\ UNCHANGED notFull
     \/ /\ t \in Putter /\ Awake(t) /\ ~ FreeFor(t) /\ call[t].mode = "sink"
        /\ UNCHANGED waitVars
  /\ Done(t)
  /\ faults' = faults + 1
  /\ UNCHANGED storeVars

-----------------------------------------------------------------------------
BlockingInit ==
  /\ Init
  /\ call = [t \in Thread |-> NoCall]
  /\ notFull = <<>> /\ notEmpty = <<>>
  /\ expired = {} /\ faults = 0

StartStore == Start /\ UNCHANGED <<call, waitVars, expired, faults>>

PutTurn(p) == PutStores(p) \/ PutWaits(p) \/ PutFails(p)
GetTurn(g) == GetReturnsEvents(g) \/ GetReturnsEmpty(g) \/ GetWaits(g)

BlockingNext ==
  \/ StartStore
  \/ \E p \in Putter : CallPut(p) \/ PutTurn(p)
  \/ \E g \in Getter : CallGet(g) \/ GetTurn(g)
  \/ Ack \/ RollbackAll
  \/ \E t \in Thread : Expire(t) \/ Interrupt(t)

\* A thread that can take the lock gets it, time passes, the parser goes on
\* delivering and the client goes on fetching and acking.
Fairness ==
  /\ WF_blockingVars(StartStore)
  /\ \A p \in Putter : WF_blockingVars(CallPut(p)) /\ WF_blockingVars(PutTurn(p))
  /\ \A g \in Getter : WF_blockingVars(CallGet(g)) /\ WF_blockingVars(GetTurn(g))
  /\ \A t \in Thread : WF_blockingVars(Expire(t))
  /\ SF_blockingVars(Ack)

BlockingSpec == BlockingInit /\ [][BlockingNext]_blockingVars /\ Fairness

-----------------------------------------------------------------------------
\* With one producer and one consumer no wake-up is lost: nobody sleeps on a
\* condition that holds, although signals wake one thread only, a get of
\* nothing and a rollback wake nobody, and timeouts and interrupts race with
\* the signals.
NoLostWakeup ==
  /\ \A p \in Putter : Waiting(p) => ~ FreeFor(p)
  /\ \A g \in Getter : Starving(g) => ~ Enough(g)

Exhausted == Len(log) = MaxLog

\* Every get comes back, unless the parser has nothing more to deliver: a get
\* without timeout blocks only "until there is enough data for batchSize".
GetsReturn == \A g \in Getter : call[g] # NoCall ~> call[g] = NoCall \/ Exhausted

\* Every list of events the parser delivers gets into the store, as long as
\* the client fetches and acks.
PutsReturn == \A p \in Putter : call[p] # NoCall ~> call[p] = NoCall

=============================================================================
