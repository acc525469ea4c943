---------------------- MODULE BlockingEventStoreProofs ----------------------
(***************************************************************************)
(* Proofs about BlockingEventStore for every ring size, batch mode and     *)
(* event set, and any threads of which one is a producer.  A wait on a     *)
(* condition ends with a signal to one thread only, so the proof rests on  *)
(* there never being a second one: at most the producer waits for room and *)
(* at most one getter, which holds the monitor of the instance, for data.  *)
(***************************************************************************)
EXTENDS BlockingEventStore, MemoryEventStoreProofs

\* A destination has one sink thread.
OneProducer == \A p, q \in Putter : p = q

CallsTyped ==
  /\ call \in [Thread -> PutCall \cup GetCall \cup {NoCall}]
  /\ \A p \in Putter : call[p] \in PutCall \cup {NoCall}
  /\ \A g \in Getter : call[g] \in GetCall \cup {NoCall}

\* The instance's monitor lets one get in at a time.
OneGet == \A g, h \in Getter : call[g] # NoCall /\ call[h] # NoCall => g = h

\* What a producer has in hand still fits into the bounded log.
RoomInLog ==
  \A p \in Putter : call[p] # NoCall => Len(log) + Len(call[p].data) <= MaxLog

\* One thread at most waits on a condition, and only within a call.
QueueOf(queue, threads) ==
  queue = <<>> \/ \E t \in threads : queue = <<t>> /\ call[t] # NoCall

QueuesOK == QueueOf(notFull, Putter) /\ QueueOf(notEmpty, Getter)

CallInv == CallsTyped /\ OneGet /\ RoomInLog /\ QueuesOK

BlockingInv == SerialInv /\ CallInv /\ NoLostWakeup

-----------------------------------------------------------------------------
(* The condition queues. *)

LEMMA OneInQueue ==
  ASSUME NEW t, NEW u
  PROVE  /\ <<t>> # <<>> /\ Tail(<<t>>) = <<>> /\ Append(<<>>, t) = <<t>>
         /\ DOMAIN <<t>> = {1} /\ <<t>>[1] = t
         /\ <<t>> = <<u>> => t = u
         /\ Without(<<t>>, t) = <<>>
         /\ t # u => Without(<<t>>, u) = <<t>>
         /\ Without(<<>>, t) = <<>>
<1>1. /\ <<t>> # <<>> /\ Tail(<<t>>) = <<>> /\ Append(<<>>, t) = <<t>>
      /\ DOMAIN <<t>> = {1} /\ <<t>>[1] = t
  OBVIOUS
<1>2. <<t>> = <<u>> => t = u
  OBVIOUS
<1>3. Without(<<t>>, t) = <<>>
  <2> DEFINE places == {j \in 1..Len(<<t>>) : <<t>>[j] = t}
             i == IF places # {} THEN Min(places) ELSE 0
  <2>1. Without(<<t>>, t)
          = IF \E j \in 1..Len(<<t>>) : <<t>>[j] = t
            THEN SubSeq(<<t>>, 1, i-1) \o SubSeq(<<t>>, i+1, Len(<<t>>)) ELSE <<t>>
    BY DEF Without, RemoveFirst, RemoveAt, SelectInSeq
  <2>2. places = {1}
    OBVIOUS
  <2>3. i = 1
    BY <2>2 DEF Min
  <2>4. \E j \in 1..Len(<<t>>) : <<t>>[j] = t
    OBVIOUS
  <2> HIDE DEF i
  <2>5. SubSeq(<<t>>, 1, i-1) = <<>> /\ SubSeq(<<t>>, i+1, Len(<<t>>)) = <<>>
    BY <2>3
  <2>6. <<>> \o <<>> = <<>>
    OBVIOUS
  <2> QED BY <2>1, <2>4, <2>5, <2>6
<1>4. t # u => Without(<<t>>, u) = <<t>>
  <2> DEFINE places == {j \in 1..Len(<<t>>) : <<t>>[j] = u}
             i == IF places # {} THEN Min(places) ELSE 0
  <2>1. Without(<<t>>, u)
          = IF \E j \in 1..Len(<<t>>) : <<t>>[j] = u
            THEN SubSeq(<<t>>, 1, i-1) \o SubSeq(<<t>>, i+1, Len(<<t>>)) ELSE <<t>>
    BY DEF Without, RemoveFirst, RemoveAt, SelectInSeq
  <2> QED BY <2>1
<1>5. Without(<<>>, t) = <<>>
  <2>1. ~ \E j \in 1..Len(<<>>) : <<>>[j] = t
    OBVIOUS
  <2> QED BY <2>1 DEF Without, RemoveFirst
<1> QED BY <1>1, <1>2, <1>3, <1>4, <1>5

LEMMA WaitingIs ==
  ASSUME QueuesOK, NEW t
  PROVE  /\ Waiting(t) <=> notFull = <<t>>
         /\ Starving(t) <=> notEmpty = <<t>>
<1>1. ASSUME notFull = <<>> PROVE Waiting(t) <=> notFull = <<t>>
  BY <1>1 DEF Waiting
<1>2. ASSUME NEW u, notFull = <<u>> PROVE Waiting(t) <=> notFull = <<t>>
  BY <1>2 DEF Waiting
<1>3. ASSUME notEmpty = <<>> PROVE Starving(t) <=> notEmpty = <<t>>
  BY <1>3 DEF Starving
<1>4. ASSUME NEW u, notEmpty = <<u>> PROVE Starving(t) <=> notEmpty = <<t>>
  BY <1>4 DEF Starving
<1> QED BY <1>1, <1>2, <1>3, <1>4 DEF QueuesOK, QueueOf

\* While the producer is awake nobody waits for room.
LEMMA ProducerAlone ==
  ASSUME OneProducer, CallInv, NEW p \in Putter, ~ Waiting(p) PROVE notFull = <<>>
<1>1. ASSUME NEW q \in Putter, notFull = <<q>> PROVE FALSE
  <2>1. q = p
    BY DEF OneProducer
  <2> QED BY <1>1, <2>1, WaitingIs DEF CallInv
<1> QED BY <1>1 DEF CallInv, QueuesOK, QueueOf

\* While a getter is awake no getter waits for data.
LEMMA GetterAlone ==
  ASSUME CallInv, NEW g \in Getter, call[g] # NoCall, ~ Starving(g) PROVE notEmpty = <<>>
<1>1. ASSUME NEW h \in Getter, notEmpty = <<h>>, call[h] # NoCall PROVE FALSE
  <2>1. h = g
    BY <1>1 DEF CallInv, OneGet
  <2> QED BY <1>1, <2>1, WaitingIs DEF CallInv
<1> QED BY <1>1 DEF CallInv, QueuesOK, QueueOf

\* Outside the calls nobody waits.
LEMMA NobodyWaits ==
  ASSUME CallInv
  PROVE  /\ (\A p \in Putter : call[p] = NoCall) => notFull = <<>>
         /\ (\A g \in Getter : call[g] = NoCall) => notEmpty = <<>>
BY DEF CallInv, QueuesOK, QueueOf

-----------------------------------------------------------------------------
(* What each step does to the store, seen by a single caller. *)

LEMMA ThreadFacts ==
  ASSUME CallInv
  PROVE  /\ \A p \in Putter : call[p] # NoCall => call[p] \in PutCall /\ call[p].data \in DataList
         /\ \A g \in Getter : call[g] # NoCall => call[g] \in GetCall
                                                  /\ call[g].batchSize \in BatchSizes
BY DEF CallInv, CallsTyped, PutCall, GetCall

LEMMA StoreStep ==
  ASSUME OneProducer, CallInv, [BlockingNext]_blockingVars
  PROVE  [SerialNext]_storeVars
<1>1. ASSUME NEW p \in Putter, PutStores(p) PROVE PutSome
  <2>1. call[p] # NoCall /\ Put(call[p].data)
    BY <1>1 DEF PutStores, Awake
  <2> QED BY <2>1, ThreadFacts DEF PutSome, CallInv, RoomInLog
<1>2. ASSUME NEW g \in Getter, GetReturnsEvents(g) PROVE GetSome
  <2>1. call[g] # NoCall /\ Get(call[g].batchSize)
    BY <1>2 DEF GetReturnsEvents, Awake
  <2> QED BY <2>1, ThreadFacts DEF GetSome
<1>3. CASE StartStore \/ Ack \/ RollbackAll
  BY <1>3 DEF StartStore, Ack, RollbackAll, SerialNext
<1>4. ASSUME NEW p \in Putter, CallPut(p) \/ PutWaits(p) \/ PutFails(p)
      PROVE  UNCHANGED storeVars
  BY <1>4 DEF CallPut, PutWaits, PutFails
<1>5. ASSUME NEW g \in Getter, CallGet(g) \/ GetReturnsEmpty(g) \/ GetWaits(g)
      PROVE  UNCHANGED storeVars
  BY <1>5 DEF CallGet, GetReturnsEmpty, GetWaits
<1>6. ASSUME NEW t \in Thread, Expire(t) \/ Interrupt(t) PROVE UNCHANGED storeVars
  BY <1>6 DEF Expire, Interrupt
<1>7. CASE UNCHANGED blockingVars
  BY <1>7 DEF blockingVars
<1> QED BY <1>1, <1>2, <1>3, <1>4, <1>5, <1>6, <1>7
        DEF BlockingNext, PutTurn, GetTurn, SerialNext

-----------------------------------------------------------------------------
(* The steps keep the calls and lose no wake-up. *)

LEMMA WaitingIsNext ==
  ASSUME QueuesOK', NEW t
  PROVE  /\ Waiting(t)' <=> notFull' = <<t>>
         /\ Starving(t)' <=> notEmpty' = <<t>>
<1>1. ASSUME notFull' = <<>> PROVE Waiting(t)' <=> notFull' = <<t>>
  BY <1>1 DEF Waiting
<1>2. ASSUME NEW u, notFull' = <<u>> PROVE Waiting(t)' <=> notFull' = <<t>>
  BY <1>2 DEF Waiting
<1>3. ASSUME notEmpty' = <<>> PROVE Starving(t)' <=> notEmpty' = <<t>>
  BY <1>3 DEF Starving
<1>4. ASSUME NEW u, notEmpty' = <<u>> PROVE Starving(t)' <=> notEmpty' = <<t>>
  BY <1>4 DEF Starving
<1> QED BY <1>1, <1>2, <1>3, <1>4 DEF QueuesOK, QueueOf

\* A signal takes the only waiter off its queue.
LEMMA SignalEmpties ==
  ASSUME CallInv
  PROVE  /\ SignalNotFull => notFull' = <<>>
         /\ SignalNotEmpty => notEmpty' = <<>>
<1>1. notFull = <<>> \/ Tail(notFull) = <<>>
  BY OneInQueue DEF CallInv, QueuesOK, QueueOf
<1>2. notEmpty = <<>> \/ Tail(notEmpty) = <<>>
  BY OneInQueue DEF CallInv, QueuesOK, QueueOf
<1> QED BY <1>1, <1>2 DEF SignalNotFull, SignalNotEmpty

\* What is left to show of a step: the queues and who sleeps in them.
Sleepers ==
  /\ notFull' = <<>> \/ \E p \in Putter : /\ notFull' = <<p>> /\ call'[p] # NoCall
                                          /\ ~ FreeFor(p)'
  /\ notEmpty' = <<>> \/ \E g \in Getter : /\ notEmpty' = <<g>> /\ call'[g] # NoCall
                                           /\ ~ Enough(g)'

LEMMA SleepersOK ==
  ASSUME Sleepers PROVE QueuesOK' /\ NoLostWakeup'
<1>1. QueuesOK'
  BY DEF Sleepers, QueuesOK, QueueOf
<1>2. ASSUME NEW p \in Putter, Waiting(p)' PROVE ~ FreeFor(p)'
  <2>1. notFull' = <<p>>
    BY <1>1, <1>2, WaitingIsNext
  <2>2. PICK q \in Putter : notFull' = <<q>> /\ ~ FreeFor(q)'
    BY <2>1, OneInQueue DEF Sleepers
  <2>3. p = q
    BY <2>1, <2>2, OneInQueue
  <2> QED BY <2>2, <2>3
<1>3. ASSUME NEW g \in Getter, Starving(g)' PROVE ~ Enough(g)'
  <2>1. notEmpty' = <<g>>
    BY <1>1, <1>3, WaitingIsNext
  <2>2. PICK h \in Getter : notEmpty' = <<h>> /\ ~ Enough(h)'
    BY <2>1, OneInQueue DEF Sleepers
  <2>3. g = h
    BY <2>1, <2>2, OneInQueue
  <2> QED BY <2>2, <2>3
<1> QED BY <1>1, <1>2, <1>3 DEF NoLostWakeup

\* A step that leaves the threads in a queue, their calls and what they wait for
\* alone keeps them rightly asleep.  To the producer the get cursor does not
\* matter: behind it is the ack cursor.
LEMMA SameFree ==
  ASSUME GetAheadOfAck, GetAheadOfAck', SerialInv, SerialInv', NEW p \in Putter,
         UNCHANGED <<putSequence, ackSequence, putMemSize, ackMemSize>>,
         call'[p] = call[p]
  PROVE  FreeFor(p)' <=> FreeFor(p)
<1>1. MinimumGetOrAck = ackSequence
  BY DEF MinimumGetOrAck, GetAheadOfAck
<1>2. MinimumGetOrAck' = ackSequence'
  BY DEF MinimumGetOrAck, GetAheadOfAck
<1> QED BY <1>1, <1>2 DEF FreeFor, CheckFreeSlotAt

LEMMA SameEnough ==
  ASSUME NEW g \in Getter, call'[g] = call[g],
         UNCHANGED <<putSequence, getSequence, putMemSize, getMemSize>>
  PROVE  Enough(g)' <=> Enough(g)
BY DEF Enough, CheckUnGetSlotAt

\* Whoever sleeps rightly sleeps.
LEMMA AsleepNow ==
  ASSUME BlockingInv
  PROVE  /\ notFull = <<>> \/ \E p \in Putter : /\ notFull = <<p>> /\ call[p] # NoCall
                                                /\ ~ FreeFor(p)
         /\ notEmpty = <<>> \/ \E g \in Getter : /\ notEmpty = <<g>> /\ call[g] # NoCall
                                                 /\ ~ Enough(g)
BY WaitingIs DEF BlockingInv, CallInv, QueuesOK, QueueOf, NoLostWakeup

LEMMA StillWaiting ==
  ASSUME BlockingInv, SerialInv', notFull' = notFull,
         UNCHANGED <<putSequence, ackSequence, putMemSize, ackMemSize>>,
         \A p \in Putter : notFull = <<p>> => call'[p] = call[p]
  PROVE  notFull' = <<>> \/ \E p \in Putter : /\ notFull' = <<p>> /\ call'[p] # NoCall
                                              /\ ~ FreeFor(p)'
<1>1. CASE notFull = <<>>
  BY <1>1
<1>2. ASSUME NEW p \in Putter, notFull = <<p>>, call[p] # NoCall, ~ FreeFor(p)
      PROVE  notFull' = <<p>> /\ call'[p] # NoCall /\ ~ FreeFor(p)'
  BY <1>2, SameFree DEF BlockingInv, SerialInv
<1> QED BY <1>1, <1>2, AsleepNow

LEMMA StillStarving ==
  ASSUME BlockingInv, notEmpty' = notEmpty,
         UNCHANGED <<putSequence, getSequence, putMemSize, getMemSize>>,
         \A g \in Getter : notEmpty = <<g>> => call'[g] = call[g]
  PROVE  notEmpty' = <<>> \/ \E g \in Getter : /\ notEmpty' = <<g>> /\ call'[g] # NoCall
                                               /\ ~ Enough(g)'
<1>1. CASE notEmpty = <<>>
  BY <1>1
<1>2. ASSUME NEW g \in Getter, notEmpty = <<g>>, call[g] # NoCall, ~ Enough(g)
      PROVE  notEmpty' = <<g>> /\ call'[g] # NoCall /\ ~ Enough(g)'
  BY <1>2, SameEnough
<1> QED BY <1>1, <1>2, AsleepNow

LEMMA DoneCalls ==
  ASSUME CallInv, NEW t \in Thread, Done(t)
  PROVE  /\ CallsTyped' /\ OneGet'
         /\ \A u \in Thread : call'[u] = IF u = t THEN NoCall ELSE call[u]
<1>1. call \in [Thread -> PutCall \cup GetCall \cup {NoCall}]
  BY DEF CallInv, CallsTyped
<1>2. /\ \A u \in Thread : call'[u] = IF u = t THEN NoCall ELSE call[u]
      /\ call' \in [Thread -> PutCall \cup GetCall \cup {NoCall}]
  BY <1>1 DEF Done
<1>3. Putter \subseteq Thread /\ Getter \subseteq Thread
  BY DEF Thread
<1>4. CallsTyped'
  BY <1>2, <1>3 DEF CallInv, CallsTyped
<1>5. OneGet'
  BY <1>2, <1>3 DEF CallInv, OneGet
<1> QED BY <1>2, <1>4, <1>5

\* A put that succeeds or gives up, and the producer's other ways out.
LEMMA PutterSteps ==
  ASSUME OneProducer, BlockingInv, SerialInv', NEW p \in Putter,
         CallPut(p) \/ PutStores(p) \/ PutWaits(p) \/ PutFails(p)
  PROVE  CallInv' /\ NoLostWakeup'
<1>0. CallInv /\ p \in Thread /\ p \notin Getter
  BY BlockingAssumption DEF BlockingInv, Thread
<1>1. notFull = <<>>
  <2>1. CASE CallPut(p)
    <3>1. call[p] = NoCall
      BY <2>1 DEF CallPut
    <3>2. \A q \in Putter : call[q] = NoCall
      BY <3>1 DEF OneProducer
    <3> QED BY <1>0, <3>2, NobodyWaits
  <2>2. CASE ~ Waiting(p)
    BY <1>0, <2>2, ProducerAlone
  <2> QED BY <2>1, <2>2 DEF PutStores, PutWaits, PutFails, Awake
<1>2. CASE CallPut(p)
  <2>1. PICK c \in PutCall :
          Len(log) + Len(c.data) <= MaxLog /\ call' = [call EXCEPT ![p] = c]
    BY <1>2 DEF CallPut
  <2>2. UNCHANGED <<storeVars, notFull, notEmpty>>
    BY <1>2 DEF CallPut, waitVars
  <2>3. /\ call'[p] = c /\ \A u \in Thread : u # p => call'[u] = call[u]
        /\ call' \in [Thread -> PutCall \cup GetCall \cup {NoCall}]
    BY <1>0, <2>1 DEF CallInv, CallsTyped
  <2>4. \A q \in Putter : q = p
    BY DEF OneProducer
  <2>5. \A g \in Getter : call'[g] = call[g]
    BY <1>0, <2>3 DEF Thread
  <2>6. CallsTyped' /\ OneGet'
    BY <1>0, <2>3, <2>4, <2>5 DEF CallInv, CallsTyped, OneGet
  <2>7. RoomInLog'
    BY <2>1, <2>2, <2>3, <2>4 DEF RoomInLog, storeVars
  <2>8. Sleepers
    <3>1. UNCHANGED <<putSequence, getSequence, putMemSize, getMemSize>>
      BY <2>2 DEF storeVars, cursors, mems
    <3> QED BY <1>1, <2>2, <2>5, <3>1, StillStarving DEF Sleepers
  <2> QED BY <2>6, <2>7, <2>8, SleepersOK DEF CallInv
<1>3. CASE PutStores(p)
  <2>1. notFull' = <<>> /\ notEmpty' = <<>>
    BY <1>0, <1>1, <1>3, SignalEmpties DEF PutStores
  <2>2. Done(p)
    BY <1>3 DEF PutStores
  <2>3. CallsTyped' /\ OneGet' /\ call'[p] = NoCall
    BY <1>0, <2>2, DoneCalls
  <2>4. RoomInLog'
    BY <2>3 DEF RoomInLog, OneProducer
  <2> QED BY <2>1, <2>3, <2>4, SleepersOK DEF Sleepers, CallInv
<1>4. CASE PutWaits(p)
  <2>1. /\ notFull' = <<p>> /\ call[p] # NoCall /\ ~ FreeFor(p)
        /\ UNCHANGED <<storeVars, call, notEmpty>>
    BY <1>1, <1>4, OneInQueue DEF PutWaits, Awake
  <2>2. UNCHANGED <<putSequence, getSequence, ackSequence, putMemSize, getMemSize,
                    ackMemSize, log>>
    BY <2>1 DEF storeVars, cursors, mems
  <2>3. ~ FreeFor(p)'
    BY <2>1, <2>2, SameFree DEF BlockingInv, SerialInv
  <2>4. Sleepers
    BY <2>1, <2>2, <2>3, StillStarving DEF Sleepers
  <2> QED BY <1>0, <2>1, <2>2, <2>4, SleepersOK
          DEF CallInv, CallsTyped, OneGet, RoomInLog
<1>5. CASE PutFails(p)
  <2>1. Done(p) /\ UNCHANGED <<storeVars, notFull, notEmpty>>
    BY <1>5 DEF PutFails, waitVars
  <2>2. /\ CallsTyped' /\ OneGet' /\ call'[p] = NoCall
        /\ \A g \in Getter : call'[g] = call[g]
    BY <1>0, <2>1, DoneCalls DEF Thread
  <2>3. RoomInLog'
    BY <2>2 DEF RoomInLog, OneProducer
  <2>4. UNCHANGED <<putSequence, getSequence, putMemSize, getMemSize>>
    BY <2>1 DEF storeVars, cursors, mems
  <2>5. Sleepers
    BY <1>1, <2>1, <2>2, <2>4, StillStarving DEF Sleepers
  <2> QED BY <2>2, <2>3, <2>5, SleepersOK DEF CallInv
<1> QED BY <1>2, <1>3, <1>4, <1>5

LEMMA GetterSteps ==
  ASSUME BlockingInv, SerialInv', NEW g \in Getter,
         CallGet(g) \/ GetReturnsEvents(g) \/ GetReturnsEmpty(g) \/ GetWaits(g)
  PROVE  CallInv' /\ NoLostWakeup'
<1>0. CallInv /\ g \in Thread /\ g \notin Putter
  BY BlockingAssumption DEF BlockingInv, Thread
<1>1. notEmpty = <<>>
  <2>1. CASE CallGet(g)
    BY <1>0, <2>1, NobodyWaits DEF CallGet
  <2>2. CASE ~ Starving(g) /\ call[g] # NoCall
    BY <1>0, <2>2, GetterAlone
  <2> QED BY <2>1, <2>2 DEF GetReturnsEvents, GetReturnsEmpty, GetWaits, Awake
<1>2. CASE CallGet(g)
  <2>1. PICK c \in GetCall : call' = [call EXCEPT ![g] = c]
    BY <1>2 DEF CallGet
  <2>2. /\ UNCHANGED <<storeVars, notFull, notEmpty>>
        /\ \A other \in Getter : call[other] = NoCall
    BY <1>2 DEF CallGet, waitVars
  <2>3. /\ call'[g] = c /\ \A u \in Thread : u # g => call'[u] = call[u]
        /\ call' \in [Thread -> PutCall \cup GetCall \cup {NoCall}]
    BY <1>0, <2>1 DEF CallInv, CallsTyped
  <2>4. \A p \in Putter : call'[p] = call[p]
    BY <1>0, <2>3 DEF Thread
  <2>5. \A h \in Getter : h # g => call'[h] = NoCall
    BY <2>2, <2>3 DEF Thread
  <2>6. CallsTyped' /\ OneGet'
    BY <1>0, <2>3, <2>4, <2>5 DEF CallInv, CallsTyped, OneGet
  <2>7. RoomInLog'
    BY <1>0, <2>2, <2>4 DEF RoomInLog, storeVars, CallInv
  <2>8. Sleepers
    <3>1. UNCHANGED <<putSequence, ackSequence, putMemSize, ackMemSize>>
      BY <2>2 DEF storeVars, cursors, mems
    <3> QED BY <1>1, <2>2, <2>4, <3>1, StillWaiting DEF Sleepers
  <2> QED BY <2>6, <2>7, <2>8, SleepersOK DEF CallInv
<1>3. CASE GetReturnsEvents(g)
  <2>1. notFull' = <<>> /\ notEmpty' = <<>>
    BY <1>0, <1>1, <1>3, SignalEmpties DEF GetReturnsEvents
  <2>2. Done(g) /\ log' = log
    BY <1>3 DEF GetReturnsEvents, Get, GetTo
  <2>3. CallsTyped' /\ OneGet' /\ \A p \in Putter : call'[p] = call[p]
    BY <1>0, <2>2, DoneCalls DEF Thread
  <2>4. RoomInLog'
    BY <1>0, <2>2, <2>3 DEF RoomInLog, CallInv
  <2> QED BY <2>1, <2>3, <2>4, SleepersOK DEF Sleepers, CallInv
<1>4. CASE GetReturnsEmpty(g)
  <2>1. Done(g) /\ UNCHANGED <<storeVars, notFull, notEmpty>>
    BY <1>4 DEF GetReturnsEmpty, waitVars
  <2>2. CallsTyped' /\ OneGet' /\ \A p \in Putter : call'[p] = call[p]
    BY <1>0, <2>1, DoneCalls DEF Thread
  <2>3. UNCHANGED <<putSequence, ackSequence, putMemSize, ackMemSize, log>>
    BY <2>1 DEF storeVars, cursors, mems
  <2>4. RoomInLog'
    BY <1>0, <2>2, <2>3 DEF RoomInLog, CallInv
  <2>5. Sleepers
    BY <1>1, <2>1, <2>2, <2>3, StillWaiting DEF Sleepers
  <2> QED BY <2>2, <2>4, <2>5, SleepersOK DEF CallInv
<1>5. CASE GetWaits(g)
  <2>1. /\ notEmpty' = <<g>> /\ call[g] # NoCall /\ ~ Enough(g)
        /\ UNCHANGED <<storeVars, call, notFull>>
    BY <1>1, <1>5, OneInQueue DEF GetWaits, Awake, MayGet
  <2>2. UNCHANGED <<putSequence, getSequence, ackSequence, putMemSize, getMemSize,
                    ackMemSize, log>>
    BY <2>1 DEF storeVars, cursors, mems
  <2>3. ~ Enough(g)'
    BY <2>1, <2>2, SameEnough
  <2>4. Sleepers
    BY <2>1, <2>2, <2>3, StillWaiting DEF Sleepers
  <2> QED BY <1>0, <2>1, <2>2, <2>4, SleepersOK
          DEF CallInv, CallsTyped, OneGet, RoomInLog
<1> QED BY <1>2, <1>3, <1>4, <1>5

\* An ack signals the producer; a rollback signals nobody and need not: it
\* makes no room, and no getter is inside.
LEMMA ClientSteps ==
  ASSUME BlockingInv, SerialInv', StartStore \/ Ack \/ RollbackAll
  PROVE  CallInv' /\ NoLostWakeup'
<1>0. CallInv
  BY DEF BlockingInv
<1>1. call' = call /\ log' = log
  BY DEF StartStore, Start, Ack, SerialAckSequence, CleanUntil, CleanTo, RollbackAll, Rollback
<1>2. CallsTyped' /\ OneGet' /\ RoomInLog'
  BY <1>0, <1>1 DEF CallInv, CallsTyped, OneGet, RoomInLog
<1>3. Sleepers
  <2>1. CASE StartStore
    <3>1. UNCHANGED <<putSequence, getSequence, ackSequence, putMemSize, getMemSize,
                      ackMemSize, notFull, notEmpty>>
      BY <2>1 DEF StartStore, Start, cursors, mems, waitVars
    <3> QED BY <1>1, <3>1, StillWaiting, StillStarving DEF Sleepers
  <2>2. CASE Ack
    <3>1. notFull' = <<>> /\ notEmpty' = <<>>
      BY <1>0, <2>2, SignalEmpties, NobodyWaits DEF Ack, NoGetRunning
    <3> QED BY <3>1 DEF Sleepers
  <2>3. CASE RollbackAll
    <3>1. notFull' = notFull /\ notEmpty' = <<>>
      BY <1>0, <2>3, NobodyWaits DEF RollbackAll, NoGetRunning, waitVars
    <3>2. UNCHANGED <<putSequence, ackSequence, putMemSize, ackMemSize>>
      BY <2>3 DEF RollbackAll, Rollback
    <3> QED BY <1>1, <3>1, <3>2, StillWaiting DEF Sleepers
  <2> QED BY <2>1, <2>2, <2>3
<1> QED BY <1>2, <1>3, SleepersOK DEF CallInv

\* A thread that leaves a queue was the only one in it.
LEMMA LeaveQueue ==
  ASSUME CallInv, NEW t \in Thread
  PROVE  /\ Waiting(t) => /\ notFull = <<t>> /\ Without(notFull, t) = <<>>
                          /\ t \in Putter /\ t \notin Getter /\ call[t] # NoCall
         /\ Starving(t) => /\ notEmpty = <<t>> /\ Without(notEmpty, t) = <<>>
                           /\ t \in Getter /\ t \notin Putter /\ call[t] # NoCall
         /\ t \notin Getter => Without(notEmpty, t) = notEmpty
         /\ t \notin Putter => Without(notFull, t) = notFull
<1>1. ASSUME Waiting(t)
      PROVE  notFull = <<t>> /\ t \in Putter /\ call[t] # NoCall
  <2>1. notFull = <<t>>
    BY <1>1, WaitingIs DEF CallInv
  <2> QED BY <2>1, OneInQueue DEF CallInv, QueuesOK, QueueOf
<1>2. ASSUME Starving(t)
      PROVE  notEmpty = <<t>> /\ t \in Getter /\ call[t] # NoCall
  <2>1. notEmpty = <<t>>
    BY <1>2, WaitingIs DEF CallInv
  <2> QED BY <2>1, OneInQueue DEF CallInv, QueuesOK, QueueOf
<1>3. ASSUME t \notin Getter PROVE Without(notEmpty, t) = notEmpty
  <2>1. CASE notEmpty = <<>>
    BY <2>1, OneInQueue
  <2>2. ASSUME NEW u \in Getter, notEmpty = <<u>> PROVE Without(notEmpty, t) = notEmpty
    <3>1. u # t
      BY <1>3
    <3> QED BY <2>2, <3>1, OneInQueue
  <2> QED BY <2>1, <2>2 DEF CallInv, QueuesOK, QueueOf
<1>4. ASSUME t \notin Putter PROVE Without(notFull, t) = notFull
  <2>1. CASE notFull = <<>>
    BY <2>1, OneInQueue
  <2>2. ASSUME NEW u \in Putter, notFull = <<u>> PROVE Without(notFull, t) = notFull
    <3>1. u # t
      BY <1>4
    <3> QED BY <2>2, <3>1, OneInQueue
  <2> QED BY <2>1, <2>2 DEF CallInv, QueuesOK, QueueOf
<1> QED BY <1>1, <1>2, <1>3, <1>4, OneInQueue, BlockingAssumption

LEMMA FaultSteps ==
  ASSUME OneProducer, BlockingInv, SerialInv', NEW t \in Thread, Expire(t) \/ Interrupt(t)
  PROVE  CallInv' /\ NoLostWakeup'
<1>0. CallInv
  BY DEF BlockingInv
<1>1. storeVars' = storeVars /\ (call' = call \/ Done(t))
  BY DEF Expire, Interrupt
<1>2. UNCHANGED <<putSequence, getSequence, ackSequence, putMemSize, getMemSize,
                  ackMemSize, log>>
  BY <1>1 DEF storeVars, cursors, mems
<1>3. /\ CallsTyped' /\ OneGet'
      /\ \A u \in Thread : u # t => call'[u] = call[u]
      /\ call'[t] \in {call[t], NoCall}
  <2>1. CASE Done(t)
    BY <1>0, <2>1, DoneCalls
  <2>2. CASE call' = call
    BY <1>0, <2>2 DEF CallInv, CallsTyped, OneGet
  <2> QED BY <1>1, <2>1, <2>2
<1>4. RoomInLog'
  <2>1. \A p \in Putter : call'[p] \in {call[p], NoCall}
    BY <1>3 DEF Thread
  <2> QED BY <1>0, <1>2, <2>1 DEF RoomInLog, CallInv
<1>5. CASE t \in Putter
  <2>1. t \notin Getter /\ \A g \in Getter : call'[g] = call[g]
    BY <1>3, <1>5, BlockingAssumption DEF Thread
  <2>2. notFull' = <<>> /\ notEmpty' = notEmpty
    <3>1. ~ Starving(t)
      BY <1>0, <2>1, LeaveQueue
    <3>2. CASE Waiting(t)
      BY <1>0, <2>1, <3>1, <3>2, LeaveQueue DEF Expire, Interrupt, Awake
    <3>3. CASE ~ Waiting(t)
      <4>1. notFull = <<>>
        BY <1>0, <1>5, <3>3, ProducerAlone
      <4> QED BY <3>1, <3>3, <4>1 DEF Expire, Interrupt, waitVars
    <3> QED BY <3>2, <3>3
  <2>3. Sleepers
    BY <1>2, <2>1, <2>2, StillStarving DEF Sleepers
  <2> QED BY <1>3, <1>4, <2>3, SleepersOK DEF CallInv
<1>6. CASE t \in Getter
  <2>1. t \notin Putter /\ \A p \in Putter : call'[p] = call[p]
    BY <1>3, <1>6, BlockingAssumption DEF Thread
  <2>2. notEmpty' = <<>> /\ notFull' = notFull
    <3>1. ~ Waiting(t)
      BY <1>0, <2>1, LeaveQueue
    <3>2. Starving(t)
      BY <2>1, <3>1 DEF Expire, Interrupt
    <3> QED BY <1>0, <2>1, <3>1, <3>2, LeaveQueue DEF Expire, Interrupt
  <2>3. Sleepers
    BY <1>2, <2>1, <2>2, StillWaiting DEF Sleepers
  <2> QED BY <1>3, <1>4, <2>3, SleepersOK DEF CallInv
<1> QED BY <1>5, <1>6 DEF Thread

LEMMA InitBlocking == BlockingInit => BlockingInv
<1> SUFFICES ASSUME BlockingInit PROVE BlockingInv
  OBVIOUS
<1>1. call = [t \in Thread |-> NoCall] /\ notFull = <<>> /\ notEmpty = <<>>
  BY DEF BlockingInit
<1>2. \A p \in Putter : call[p] = NoCall
  BY <1>1 DEF Thread
<1>3. \A g \in Getter : call[g] = NoCall
  BY <1>1 DEF Thread
<1>4. CallInv
  BY <1>1, <1>2, <1>3 DEF CallInv, CallsTyped, OneGet, RoomInLog, QueuesOK, QueueOf
<1>5. NoLostWakeup
  BY <1>1 DEF NoLostWakeup, Waiting, Starving
<1> QED BY <1>4, <1>5, InitSerialInv DEF BlockingInv, BlockingInit

LEMMA NextBlocking ==
  ASSUME OneProducer PROVE BlockingInv /\ [BlockingNext]_blockingVars => BlockingInv'
<1> SUFFICES ASSUME BlockingInv, [BlockingNext]_blockingVars PROVE BlockingInv'
  OBVIOUS
<1>1. SerialInv'
  BY StoreStep, NextSerialInv DEF BlockingInv
<1>2. CallInv' /\ NoLostWakeup'
  <2>1. ASSUME NEW p \in Putter, CallPut(p) \/ PutTurn(p)
        PROVE  CallInv' /\ NoLostWakeup'
    BY <1>1, <2>1, PutterSteps DEF PutTurn
  <2>2. ASSUME NEW g \in Getter, CallGet(g) \/ GetTurn(g)
        PROVE  CallInv' /\ NoLostWakeup'
    BY <1>1, <2>2, GetterSteps DEF GetTurn
  <2>3. CASE StartStore \/ Ack \/ RollbackAll
    BY <1>1, <2>3, ClientSteps
  <2>4. ASSUME NEW t \in Thread, Expire(t) \/ Interrupt(t)
        PROVE  CallInv' /\ NoLostWakeup'
    BY <1>1, <2>4, FaultSteps
  <2>5. CASE UNCHANGED blockingVars
    <3>1. UNCHANGED <<call, notFull, notEmpty, log, putSequence, getSequence,
                      ackSequence, putMemSize, getMemSize, ackMemSize>>
      BY <2>5 DEF blockingVars, storeVars, cursors, mems, waitVars
    <3>2. CallsTyped' /\ OneGet' /\ RoomInLog'
      BY <3>1 DEF BlockingInv, CallInv, CallsTyped, OneGet, RoomInLog
    <3>3. Sleepers
      BY <1>1, <3>1, StillWaiting, StillStarving DEF Sleepers
    <3> QED BY <3>2, <3>3, SleepersOK DEF CallInv
  <2> QED BY <2>1, <2>2, <2>3, <2>4, <2>5 DEF BlockingNext
<1> QED BY <1>1, <1>2 DEF BlockingInv

-----------------------------------------------------------------------------
\* With one producer, and getters that the monitor lets in one at a time, nobody
\* sleeps on a condition that holds, although a signal wakes one thread only, a
\* rollback wakes nobody and timeouts and interrupts race with the signals.
THEOREM WakeupsNotLost == ASSUME OneProducer PROVE BlockingSpec => []NoLostWakeup
<1>1. BlockingInv => NoLostWakeup
  BY DEF BlockingInv
<1> QED BY <1>1, InitBlocking, NextBlocking, PTL DEF BlockingSpec

\* The threads of a destination use the store as a single caller would.
THEOREM ThreadsAreSerial == ASSUME OneProducer PROVE BlockingSpec => SerialSpec
<1>1. BlockingSpec => []BlockingInv
  BY InitBlocking, NextBlocking, PTL DEF BlockingSpec
<1>2. BlockingInit => Init
  BY DEF BlockingInit
<1>3. BlockingInv /\ [BlockingNext]_blockingVars => [SerialNext]_storeVars
  BY StoreStep DEF BlockingInv
<1> QED BY <1>1, <1>2, <1>3, PTL DEF BlockingSpec, SerialSpec

\* The blocking store implements the at-least-once queue.
THEOREM ThreadsImplementQueue == ASSUME OneProducer PROVE BlockingSpec => ImplementsQueue
BY ThreadsAreSerial, SerialImplementsQueue, PTL

\* No blocking get returns an event that is already confirmed.
THEOREM ThreadsGetAheadOfAck == ASSUME OneProducer PROVE BlockingSpec => []GetAheadOfAck
BY ThreadsAreSerial, SerialGetAheadOfAck, PTL

\* As long as something is stored and unfetched, a get can have it, if every
\* batch size in bytes is within an int.
THEOREM ThreadsFirstFetchable ==
  ASSUME OneProducer, BatchesFit PROVE BlockingSpec => []FirstAlwaysFetchable
BY ThreadsAreSerial, SerialFirstFetchable, PTL

\* A blocking get that is told there is enough finds that much.
THEOREM ThreadsEnough ==
  ASSUME OneProducer, RingFits, BatchesFit, DdlIsolation = FALSE
  PROVE  BlockingSpec => []EnoughMeansEnough
BY ThreadsAreSerial, SerialEnough, PTL

=============================================================================
