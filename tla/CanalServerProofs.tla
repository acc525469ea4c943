-------------------------- MODULE CanalServerProofs --------------------------
(***************************************************************************)
(* Proofs about CanalServerWithEmbedded for any number of connections and  *)
(* any stream.  The inductive invariant has three parts: the store's own,  *)
(* with the log a prefix of the stream; RangesOK, which says that every    *)
(* range a batch or a thread holds names events that were fetched; and     *)
(* OrderInv, which says that, while no rollback of one batch has left      *)
(* later ones behind, the acked sequences, the unacked batches and the     *)
(* batch a get is about to add follow each other without a gap.            *)
(***************************************************************************)
EXTENDS CanalServerWithEmbedded, MemoryEventStoreProofs

\* A get has fetched its batch and not yet added it.
Pending(c) == pc[c] \in {"getWithoutAck", "get"}

\* An ack has removed its batch and has effects left.
Acking(c) == pc[c] \in {"ack.cursor", "ack.store", "get.cursor", "get.store"}

\* A rollback has removed its batches and not yet reached the store.
Rolling(c) == pc[c] = "rollback.store"

InMonitor == {"getWithoutAck", "get", "get.ack", "get.cursor", "get.store",
              "rollback.store"}

Threads == DOMAIN pc = Conn /\ DOMAIN range = Conn

LogIsStream ==
  /\ Len(log) <= Len(Stream)
  /\ \A k \in 1..Len(log) : log[k] = Stream[k]

Located(e, lo, hi) == \E q \in lo..hi : e = Stream[q+1]

\* The range r names events of the stream up to the sequence last.
RangeOK(r, last) ==
  /\ r.endSeq \in 0..last
  /\ Located(r.start, 0, r.endSeq)
  /\ r.end = Stream[r.endSeq+1]
  /\ r.ack = NoEvent \/ Located(r.ack, SeqOf(r.start), r.endSeq)

RangesOK ==
  /\ \A id \in DOMAIN batches : RangeOK(batches[id], fetched)
  /\ \A c \in Conn : Pending(c) \/ Acking(c) => RangeOK(range[c], fetched)
  /\ \A c \in Conn : Pending(c) =>
       range[c].endSeq = getSequence /\ maxBatchId <= MaxBatchId
  /\ \A c \in Conn : Acking(c) => SeqsOf(range[c]) \subseteq acked
  /\ \A c \in Conn : pc[c] = "subscribe.updateCursor" => range[c].ack \in Event

\* The events before r are acked, or those right before it are the end of one
\* of the batches named.
Follows(r, before) ==
  \/ SeqOf(r.start) = 0
  \/ SeqOf(r.start) - 1 \in acked
  \/ \E id \in before : batches[id].endSeq = SeqOf(r.start) - 1

Earlier(id) == {other \in DOMAIN batches : other < id}

\* The last sequence fetched is acked or ends a batch.
Covered ==
  \/ getSequence = InitSequence
  \/ getSequence \in acked
  \/ \E id \in DOMAIN batches : batches[id].endSeq = getSequence

OrderInv ==
  /\ \A i, j \in DOMAIN batches :
       i < j => batches[i].endSeq < SeqOf(batches[j].start)
  /\ \A id \in DOMAIN batches : batches[id].endSeq <= getSequence
  /\ \A c \in Conn : Pending(c) =>
       \A id \in DOMAIN batches : batches[id].endSeq < SeqOf(range[c].start)
  /\ \A c \in Conn : Rolling(c) => DOMAIN batches = {}
  /\ \A q \in acked : 0..q \subseteq acked
  /\ \A id \in DOMAIN batches : Follows(batches[id], Earlier(id))
  /\ \A c \in Conn : Pending(c) => Follows(range[c], DOMAIN batches)
  /\ (\A c \in Conn : ~ Pending(c) /\ ~ Rolling(c)) => Covered
  /\ ReleasedWereAcked

StoreInv == Inv /\ SlotsHoldLog /\ LogIsStream

ServerInv ==
  /\ StoreInv
  /\ ServerTypeOK /\ Threads
  /\ RangesOK
  /\ ~ torn => OrderInv

-----------------------------------------------------------------------------
(* The stream. *)

LEMMA SeqOfStream ==
  ASSUME NEW q \in 0..Len(Stream)-1 PROVE SeqOf(Stream[q+1]) = q /\ Stream[q+1] \in Event
<1>1. q + 1 \in 1..Len(Stream) /\ Len(Stream) \in Nat
  BY ServerAssumption
<1>2. \A i \in 1..Len(Stream) : Stream[i] = Stream[q+1] => i = q+1
  BY <1>1, ServerAssumption
<1>3. (CHOOSE i \in 1..Len(Stream) : Stream[i] = Stream[q+1]) = q + 1
  BY <1>1, <1>2
<1> QED BY <1>1, <1>3, ServerAssumption DEF SeqOf

\* What fetched counts is in the stream.
LEMMA FetchedFacts ==
  ASSUME StoreInv
  PROVE  /\ fetched \in Int /\ -1 <= fetched /\ fetched < Len(Stream)
         /\ Len(Stream) \in Nat
         /\ \A q \in 0..putSequence : log[q+1] = Stream[q+1] /\ q < Len(Stream)
<1>1. log \in Seq(Event) /\ putSequence = Len(log) - 1 /\ fetched <= putSequence
      /\ Len(log) <= Len(Stream) /\ \A k \in 1..Len(log) : log[k] = Stream[k]
  BY CursorFacts DEF StoreInv, Inv, TypeOK, LogIsStream
<1> QED BY <1>1, CursorFacts, ServerAssumption DEF StoreInv, Inv

\* A range names sequences that were fetched.
LEMMA RangeFacts ==
  ASSUME StoreInv, NEW r, RangeOK(r, fetched)
  PROVE  /\ r.endSeq \in Int /\ SeqOf(r.start) \in Int
         /\ 0 <= SeqOf(r.start) /\ SeqOf(r.start) <= r.endSeq /\ r.endSeq <= fetched
         /\ SeqsOf(r) \subseteq 0..fetched
         /\ r.ack # NoEvent => \E q \in SeqsOf(r) : r.ack = Stream[q+1] /\ r.ack \in Event
<1>1. PICK s \in 0..r.endSeq : r.start = Stream[s+1]
  BY DEF RangeOK, Located
<1>2. r.endSeq \in 0..fetched
  BY DEF RangeOK
<1>3. s \in 0..Len(Stream)-1 /\ s \in Int
  BY <1>1, <1>2, FetchedFacts
<1>4. SeqOf(r.start) = s
  BY <1>1, <1>3, SeqOfStream
<1>5. ASSUME r.ack # NoEvent PROVE \E q \in s..r.endSeq : r.ack = Stream[q+1] /\ r.ack \in Event
  <2>1. PICK q \in s..r.endSeq : r.ack = Stream[q+1]
    BY <1>4, <1>5 DEF RangeOK, Located
  <2>2. q \in 0..Len(Stream)-1
    BY <2>1, <1>2, <1>3, FetchedFacts
  <2> QED BY <2>1, <2>2, SeqOfStream
<1> QED BY <1>1, <1>2, <1>3, <1>4, <1>5, FetchedFacts DEF SeqsOf

-----------------------------------------------------------------------------
(* The threads. *)

LEMMA GotoFacts ==
  ASSUME Threads, NEW c \in Conn, NEW label, Goto(c, label)
  PROVE  /\ DOMAIN pc' = Conn /\ pc'[c] = label
         /\ \A d \in Conn : d # c => pc'[d] = pc[d]
BY DEF Threads, Goto

LEMMA HoldFacts ==
  ASSUME Threads, NEW c \in Conn, NEW id, NEW r, Hold(c, id, r)
  PROVE  /\ DOMAIN range' = Conn /\ range'[c] = r
         /\ \A d \in Conn : d # c => range'[d] = range[d]
BY DEF Threads, Hold

LEMMA ReturnFacts ==
  ASSUME Threads, NEW c \in Conn, Return(c)
  PROVE  /\ Threads' /\ pc'[c] = "idle"
         /\ \A d \in Conn : d # c => pc'[d] = pc[d] /\ range'[d] = range[d]
BY GotoFacts, HoldFacts DEF Return, Threads

-----------------------------------------------------------------------------
(* The store sees only calls its own specification allows. *)

\* What the sink hands the store: the next n events of the stream.
LEMMA StreamData ==
  ASSUME StoreInv, NEW n \in 1..MaxData, Len(log) + n <= Len(Stream)
  PROVE  LET data == SubSeq(Stream, Len(log)+1, Len(log)+n) IN
         /\ data \in DataList /\ Len(data) = n
         /\ \A k \in 1..n : data[k] = Stream[Len(log)+k]
<1> DEFINE data == SubSeq(Stream, Len(log)+1, Len(log)+n)
<1>1. Len(log) \in Nat /\ Stream \in Seq(Event) /\ n \in Nat
  BY ServerAssumption, StoreAssumption DEF StoreInv, Inv, TypeOK
<1>2. data = [k \in 1..n |-> Stream[Len(log)+k]]
  BY <1>1
<1>3. \A k \in 1..n : Stream[Len(log)+k] \in Event
  BY <1>1
<1>4. data \in [1..n -> Event]
  BY <1>2, <1>3
<1> QED BY <1>1, <1>2, <1>4 DEF DataList

LEMMA Appended ==
  ASSUME NEW s \in Seq(Event), NEW t \in Seq(Event)
  PROVE  /\ Len(s \o t) = Len(s) + Len(t)
         /\ \A k \in 1..Len(s \o t) : (s \o t)[k] = IF k <= Len(s) THEN s[k] ELSE t[k - Len(s)]
OBVIOUS

LEMMA SinkPuts == ASSUME StoreInv, Sink PROVE PutSome
<1>1. PICK n \in 1..MaxData :
        /\ Len(log) + n <= Len(Stream)
        /\ Put(SubSeq(Stream, Len(log)+1, Len(log)+n))
  BY DEF Sink
<1>2. Len(log) + n <= MaxLog /\ Len(log) \in Nat
  BY <1>1, ServerAssumption, StoreAssumption DEF StoreInv, Inv, TypeOK
<1> QED BY <1>1, <1>2, StreamData DEF PutSome

\* Appending what comes next in the stream keeps the log a prefix of it.
LEMMA SinkLog == ASSUME StoreInv, Sink PROVE LogIsStream'
<1>1. PICK n \in 1..MaxData :
        /\ Len(log) + n <= Len(Stream)
        /\ Put(SubSeq(Stream, Len(log)+1, Len(log)+n))
  BY DEF Sink
<1>2. PICK data \in DataList :
        /\ Len(data) = n /\ Put(data)
        /\ \A k \in 1..n : data[k] = Stream[Len(log)+k]
  BY <1>1, StreamData
<1>3. data \in Seq(Event) /\ n \in Nat
  BY StoreAssumption DEF DataList
<1>4. log \in Seq(Event) /\ Len(log) \in Nat
  BY DEF StoreInv, Inv, TypeOK
<1>5. log' = log \o data
  BY <1>2 DEF Put
<1>6. /\ Len(log') = Len(log) + n
      /\ \A k \in 1..Len(log') :
           log'[k] = IF k <= Len(log) THEN log[k] ELSE data[k - Len(log)]
  BY <1>2, <1>3, <1>4, <1>5, Appended
<1>7. ASSUME NEW k \in 1..Len(log') PROVE log'[k] = Stream[k]
  <2>1. CASE k <= Len(log)
    BY <2>1, <1>4, <1>6 DEF StoreInv, LogIsStream
  <2>2. CASE k > Len(log)
    <3>1. k - Len(log) \in 1..n /\ Len(log) + (k - Len(log)) = k
      BY <2>2, <1>3, <1>4, <1>6
    <3>2. log'[k] = data[k - Len(log)]
      BY <2>2, <1>4, <1>6
    <3> QED BY <3>1, <3>2, <1>2
  <2> QED BY <2>1, <2>2, <1>3, <1>4, <1>6
<1> QED BY <1>1, <1>6, <1>7 DEF LogIsStream

LEMMA FetchGets ==
  ASSUME NEW c \in Conn, NEW kind, Fetch(c, kind) PROVE GetSome
BY DEF Fetch, GetSome, Get

LEMMA AckStoreAcks ==
  ASSUME StoreInv, RangesOK, NEW c \in Conn, AckStore(c)
  PROVE  AckSequence \/ UNCHANGED storeVars
<1>1. CASE AckFound(c)
  <2>1. RangeOK(range[c], fetched)
    BY DEF AckStore, RangesOK, Acking
  <2>2. range[c].endSeq \in 0..fetched /\ range[c].end = log[range[c].endSeq+1]
    BY <2>1, FetchedFacts, CursorFacts DEF RangeOK, StoreInv, Inv
  <2>3. CleanUntil(range[c].end, range[c].endSeq)
    BY <1>1 DEF AckStore
  <2>4. CleanUntil(log[range[c].endSeq+1], range[c].endSeq)
    BY <2>2, <2>3
  <2> QED BY <2>2, <2>4 DEF AckSequence
<1>2. CASE ~ AckFound(c)
  BY <1>2 DEF AckStore, StoreUnchanged
<1> QED BY <1>1, <1>2

\* The requests that leave the store alone.
StoreQuiet(c) ==
  \/ SubscribeMeta(c) \/ SubscribeGetCursor(c) \/ SubscribeGetFirst(c)
  \/ SubscribeUpdateCursor(c) \/ UnsubscribeMeta(c)
  \/ GetWithoutAckAddBatch(c) \/ GetAddBatch(c) \/ GetRemoveBatch(c)
  \/ GetAckFails(c) \/ Reply(c) \/ AckRemoveBatch(c) \/ AckUpdateCursor(c)
  \/ RollbackClear(c) \/ RollbackRemove(c)

LEMMA StoreQuietUnchanged ==
  ASSUME NEW c \in Conn, StoreQuiet(c) PROVE UNCHANGED storeVars
BY DEF StoreQuiet, SubscribeMeta, SubscribeGetCursor, SubscribeGetFirst,
       SubscribeUpdateCursor, UnsubscribeMeta, GetWithoutAckAddBatch, GetAddBatch,
       GetRemoveBatch, GetAckFails, Reply, AckRemoveBatch, AckUpdateCursor,
       RollbackClear, RollbackRemove, AckRemove, StoreUnchanged

LEMMA UsesStoreStep ==
  ServerInv /\ [ServerNext]_serverVars => [Next]_storeVars
<1> SUFFICES ASSUME ServerInv, [ServerNext]_serverVars PROVE [Next]_storeVars
  OBVIOUS
<1>1. CASE StartInstance
  BY <1>1 DEF StartInstance, Next
<1>2. CASE Sink
  BY <1>2, SinkPuts DEF ServerInv, Next
<1>3. ASSUME NEW c \in Conn, Serve(c) PROVE [Next]_storeVars
  <2>1. CASE StoreQuiet(c)
    BY <2>1, StoreQuietUnchanged
  <2>2. CASE Fetch(c, "getWithoutAck") \/ Fetch(c, "get")
    BY <2>2, FetchGets DEF Next
  <2>3. CASE AckStore(c)
    BY <2>3, AckStoreAcks DEF ServerInv, Next
  <2>4. CASE RollbackStore(c)
    BY <2>4 DEF RollbackStore, Next
  <2> QED BY <1>3, <2>1, <2>2, <2>3, <2>4 DEF Serve, StoreQuiet
<1>4. CASE UNCHANGED serverVars
  BY <1>4 DEF serverVars
<1> QED BY <1>1, <1>2, <1>3, <1>4 DEF ServerNext

\* Only the sink touches the log.
LEMMA LogKept == ASSUME [ServerNext]_serverVars, ~ Sink PROVE UNCHANGED <<log, putSequence>>
<1>1. CASE StartInstance \/ UNCHANGED serverVars
  BY <1>1 DEF StartInstance, Start, serverVars, storeVars, cursors
<1>2. ASSUME NEW c \in Conn, Serve(c) PROVE UNCHANGED <<log, putSequence>>
  <2>1. CASE StoreQuiet(c)
    BY <2>1, StoreQuietUnchanged DEF storeVars, cursors
  <2>2. CASE Fetch(c, "getWithoutAck") \/ Fetch(c, "get")
    BY <2>2 DEF Fetch, GetTo
  <2>3. CASE AckStore(c)
    BY <2>3 DEF AckStore, CleanUntil, CleanTo, StoreUnchanged, storeVars, cursors
  <2>4. CASE RollbackStore(c)
    BY <2>4 DEF RollbackStore, Rollback
  <2> QED BY <1>2, <2>1, <2>2, <2>3, <2>4 DEF Serve, StoreQuiet
<1> QED BY <1>1, <1>2 DEF ServerNext

\* The log stays a prefix of the stream.
LEMMA NextStoreInv ==
  ServerInv /\ [ServerNext]_serverVars => StoreInv'
<1> SUFFICES ASSUME ServerInv, [ServerNext]_serverVars PROVE StoreInv'
  OBVIOUS
<1>1. Inv' /\ SlotsHoldLog'
  BY UsesStoreStep, NextInv, NextSlots DEF ServerInv, StoreInv
<1>2. CASE Sink
  BY <1>1, <1>2, SinkLog DEF ServerInv, StoreInv
<1>3. CASE ~ Sink
  BY <1>1, <1>3, LogKept DEF StoreInv, LogIsStream, ServerInv
<1> QED BY <1>2, <1>3

-----------------------------------------------------------------------------
(* The range of a get. *)

\* A get takes the events of the stream after getSequence.
LEMMA FetchedRange ==
  ASSUME StoreInv, NEW batchSize \in BatchSizes,
         NEW end \in getSequence+1..putSequence, GetTo(end, batchSize)
  PROVE  LET r == RangeTo(end) IN
         /\ RangeOK(r, end) /\ r.endSeq = end
         /\ SeqOf(r.start) = getSequence + 1
         /\ getSequence \in Int /\ end \in Int /\ getSequence >= -1
<1> DEFINE r == RangeTo(end)
           ackable == {q \in getSequence+1..end : Ackable(q)}
<1>1. /\ getSequence \in Int /\ putSequence \in Int /\ end \in Int
      /\ -1 <= getSequence /\ putSequence - BufferSize <= getSequence
      /\ end <= putSequence
  BY CursorFacts DEF StoreInv, Inv, GetTo
<1>2. ASSUME NEW q \in getSequence+1..end
      PROVE  At(q).event = Stream[q+1] /\ q \in 0..Len(Stream)-1
  <2>1. At(q) # Empty
    BY DEF GetTo, BatchEnd
  <2>2. q \in 0..putSequence /\ q > putSequence - BufferSize
    BY <1>1, StoreAssumption
  <2>3. At(q).event = log[q+1]
    BY <2>1, <2>2 DEF StoreInv, SlotsHoldLog
  <2> QED BY <2>2, <2>3, FetchedFacts
<1>3. getSequence+1 \in getSequence+1..end /\ end \in getSequence+1..end
  BY <1>1
<1>4. /\ r.start = Stream[getSequence+1+1] /\ r.end = Stream[end+1] /\ r.endSeq = end
      /\ SeqOf(r.start) = getSequence + 1
  BY <1>2, <1>3, SeqOfStream DEF RangeTo
<1>5. r.ack = NoEvent \/ Located(r.ack, getSequence+1, end)
  <2>1. CASE ackable = {}
    BY <2>1 DEF RangeTo
  <2>2. CASE ackable # {}
    <3>1. r.ack = At(Max(ackable)).event
      BY <2>2 DEF RangeTo
    <3>2. Max(ackable) \in getSequence+1..end
      <4>1. ackable \in SUBSET (getSequence+1..end) /\ getSequence+1 \in Int
        BY <1>1
      <4> HIDE DEF ackable
      <4> QED BY <2>2, <4>1, <1>1, IntervalMax
    <3> QED BY <3>1, <3>2, <1>2 DEF Located
  <2> QED BY <2>1, <2>2
<1>6. Located(r.start, 0, end)
  BY <1>1, <1>3, <1>4 DEF Located
<1> HIDE DEF r
<1>7. RangeOK(r, end)
  BY <1>1, <1>4, <1>5, <1>6 DEF RangeOK
<1> QED BY <1>1, <1>4, <1>7 DEF r

\* A range stays what it is while more is fetched.
LEMMA RangeKept ==
  ASSUME NEW m \in Int, NEW n \in Int, m <= n, NEW r, RangeOK(r, m) PROVE RangeOK(r, n)
BY DEF RangeOK

\* The destination of a server is never stopped.
LEMMA FetchedGrows ==
  ASSUME ServerInv, [ServerNext]_serverVars PROVE fetched <= fetched'
<1>1. fetched \in Int
  BY CursorFacts DEF ServerInv, StoreInv, Inv
<1>2. CASE StartInstance \/ Sink \/ UNCHANGED serverVars
  BY <1>1, <1>2 DEF StartInstance, Start, Sink, Put, serverVars, storeVars
<1>3. ASSUME NEW c \in Conn, Serve(c) PROVE fetched <= fetched'
  <2>1. CASE StoreQuiet(c)
    BY <1>1, <2>1, StoreQuietUnchanged DEF storeVars
  <2>2. CASE Fetch(c, "getWithoutAck") \/ Fetch(c, "get")
    BY <1>1, <2>2 DEF Fetch, GetTo
  <2>3. CASE AckStore(c)
    BY <1>1, <2>3 DEF AckStore, CleanUntil, CleanTo, StoreUnchanged, storeVars
  <2>4. CASE RollbackStore(c)
    BY <1>1, <2>4 DEF RollbackStore, Rollback
  <2> QED BY <1>3, <2>1, <2>2, <2>3, <2>4 DEF Serve, StoreQuiet
<1> QED BY <1>2, <1>3 DEF ServerNext

-----------------------------------------------------------------------------
(* Types. *)

MonitorOK ==
  /\ monitor \in Conn \cup {Free}
  /\ \A c \in Conn : monitor = c <=> pc[c] \in InMonitor

\* A thread moves and keeps what it holds, enters, or leaves.
LEMMA MonitorStep ==
  ASSUME MonitorOK, NEW c \in Conn,
         \A d \in Conn : d # c => pc'[d] = pc[d],
         \/ monitor' = monitor /\ (pc[c] \in InMonitor <=> pc'[c] \in InMonitor)
         \/ Enter(c) /\ pc'[c] \in InMonitor
         \/ /\ monitor' = IF monitor = c THEN Free ELSE monitor
            /\ pc'[c] \notin InMonitor
  PROVE  MonitorOK'
BY ServerAssumption DEF MonitorOK, Enter

LEMMA NextThreads ==
  ASSUME Threads, MonitorOK, [ServerNext]_serverVars PROVE Threads' /\ MonitorOK'
<1>1. CASE StartInstance \/ Sink \/ UNCHANGED serverVars
  BY <1>1 DEF StartInstance, Sink, serverVars, threadVars, Threads, MonitorOK
<1>2. ASSUME NEW c \in Conn, Serve(c) PROVE Threads' /\ MonitorOK'
  <2>1. CASE SubscribeMeta(c)
    BY <2>1, GotoFacts, MonitorStep DEF SubscribeMeta, Request, Threads, InMonitor
  <2>2. CASE SubscribeGetCursor(c)
    BY <2>2, GotoFacts, ReturnFacts, MonitorStep
       DEF SubscribeGetCursor, Return, Threads, InMonitor
  <2>3. CASE SubscribeGetFirst(c)
    BY <2>3, GotoFacts, HoldFacts, ReturnFacts, MonitorStep
       DEF SubscribeGetFirst, Return, Threads, InMonitor
  <2>4. CASE SubscribeUpdateCursor(c)
    BY <2>4, ReturnFacts, MonitorStep DEF SubscribeUpdateCursor, Return, InMonitor
  <2>5. CASE UnsubscribeMeta(c)
    BY <2>5 DEF UnsubscribeMeta, threadVars, Threads, MonitorOK
  <2>6. ASSUME NEW kind \in {"getWithoutAck", "get"}, Fetch(c, kind)
        PROVE  Threads' /\ MonitorOK'
    <3>1. PICK r : Hold(c, 0, r)
      BY <2>6 DEF Fetch
    <3> QED BY <2>6, <3>1, GotoFacts, HoldFacts, MonitorStep DEF Fetch, Threads, InMonitor
  <2>7. CASE GetWithoutAckAddBatch(c)
    <3>1. monitor = c
      BY <2>7 DEF GetWithoutAckAddBatch, MonitorOK, InMonitor
    <3> QED BY <2>7, <3>1, GotoFacts, MonitorStep
            DEF GetWithoutAckAddBatch, Threads, InMonitor
  <2>8. CASE GetAddBatch(c)
    BY <2>8, GotoFacts, HoldFacts, MonitorStep DEF GetAddBatch, Threads, InMonitor
  <2>9. CASE GetRemoveBatch(c)
    BY <2>9, GotoFacts, HoldFacts, MonitorStep
       DEF GetRemoveBatch, AckRemove, Threads, InMonitor
  <2>10. CASE GetAckFails(c)
    BY <2>10, ReturnFacts, MonitorStep DEF GetAckFails, Return, InMonitor
  <2>11. CASE Reply(c)
    BY <2>11, ReturnFacts, MonitorStep DEF Reply, Return, InMonitor
  <2>12. CASE AckRemoveBatch(c)
    <3>1. PICK id \in 1..maxBatchId-1 : AckRemove(c, id, "ack.cursor")
      BY <2>12 DEF AckRemoveBatch
    <3> QED BY <2>12, <3>1, GotoFacts, HoldFacts, MonitorStep
            DEF AckRemoveBatch, Request, AckRemove, Threads, InMonitor
  <2>13. CASE AckUpdateCursor(c)
    BY <2>13, GotoFacts, MonitorStep DEF AckUpdateCursor, Threads, InMonitor
  <2>14. CASE AckStore(c)
    <3>1. CASE Return(c)
      BY <3>1, ReturnFacts, MonitorStep DEF Return, InMonitor
    <3>2. CASE pc[c] = "get.store" /\ monitor' = Free /\ Goto(c, "reply")
               /\ UNCHANGED <<batchId, range>>
      <4>1. monitor = c
        BY <3>2 DEF MonitorOK, InMonitor
      <4> QED BY <3>2, <4>1, GotoFacts, MonitorStep DEF Threads, InMonitor
    <3> QED BY <2>14, <3>1, <3>2 DEF AckStore
  <2>15. CASE RollbackClear(c)
    BY <2>15, GotoFacts, MonitorStep DEF RollbackClear, Threads, InMonitor
  <2>16. CASE RollbackRemove(c)
    BY <2>16, GotoFacts, MonitorStep DEF RollbackRemove, Threads, InMonitor
  <2>17. CASE RollbackStore(c)
    BY <2>17, ReturnFacts, MonitorStep DEF RollbackStore, Return, InMonitor
  <2> QED BY <1>2, <2>1, <2>2, <2>3, <2>4, <2>5, <2>6, <2>7, <2>8, <2>9, <2>10,
             <2>11, <2>12, <2>13, <2>14, <2>15, <2>16, <2>17 DEF Serve
<1> QED BY <1>1, <1>2 DEF ServerNext

-----------------------------------------------------------------------------
(* Ranges. *)

Others(c) == \A d \in Conn : d # c => pc'[d] = pc[d] /\ range'[d] = range[d]

\* A step that leaves the batches and the pending threads alone.
Calm ==
  /\ UNCHANGED <<getSequence, fetched, batches, maxBatchId, acked, torn>>
  /\ \A d \in Conn :
       /\ Pending(d)' <=> Pending(d)
       /\ Rolling(d)' <=> Rolling(d)
       /\ Acking(d)' => Acking(d)
       /\ Pending(d) \/ Acking(d)' => range'[d] = range[d]

CalmRequest(c) ==
  \/ SubscribeMeta(c) \/ SubscribeGetCursor(c) \/ SubscribeGetFirst(c)
  \/ SubscribeUpdateCursor(c) \/ UnsubscribeMeta(c)
  \/ GetAckFails(c) \/ Reply(c) \/ AckUpdateCursor(c) \/ AckStore(c)

\* A thread outside these places leaves every Pending, Acking and Rolling thread
\* as it is.
LEMMA CalmThread ==
  ASSUME NEW c \in Conn, Others(c),
         UNCHANGED <<getSequence, fetched, batches, maxBatchId, acked, torn>>,
         ~ Pending(c), ~ Rolling(c), ~ Pending(c)', ~ Rolling(c)',
         Acking(c)' => Acking(c) /\ range'[c] = range[c]
  PROVE  Calm
<1> SUFFICES ASSUME NEW d \in Conn
             PROVE  /\ Pending(d)' <=> Pending(d)
                    /\ Rolling(d)' <=> Rolling(d)
                    /\ Acking(d)' => Acking(d)
                    /\ Pending(d) \/ Acking(d)' => range'[d] = range[d]
  BY DEF Calm
<1>1. CASE d = c
  BY <1>1
<1>2. CASE d # c
  BY <1>2 DEF Others, Pending, Rolling, Acking
<1> QED BY <1>1, <1>2

LEMMA ReturnCalm ==
  ASSUME Threads, NEW c \in Conn, Return(c), ~ Pending(c), ~ Rolling(c),
         UNCHANGED <<getSequence, fetched, batches, maxBatchId, acked, torn>>
  PROVE  Calm
<1>1. pc'[c] = "idle" /\ Others(c)
  BY ReturnFacts DEF Others
<1> QED BY <1>1, CalmThread DEF Pending, Rolling, Acking

LEMMA GotoCalm ==
  ASSUME Threads, NEW c \in Conn, NEW label, Goto(c, label), UNCHANGED range,
         ~ Pending(c), ~ Rolling(c),
         label \notin {"getWithoutAck", "get", "rollback.store"},
         label \in {"ack.cursor", "ack.store", "get.cursor", "get.store"} => Acking(c),
         UNCHANGED <<getSequence, fetched, batches, maxBatchId, acked, torn>>
  PROVE  Calm
<1>1. pc'[c] = label /\ Others(c)
  BY GotoFacts DEF Others
<1> QED BY <1>1, CalmThread DEF Pending, Rolling, Acking

LEMMA RequestsCalm ==
  ASSUME Threads, NEW c \in Conn, CalmRequest(c) PROVE Calm
<1>1. CASE SubscribeMeta(c)
  BY <1>1, GotoCalm DEF SubscribeMeta, Subscribe, Request, StoreUnchanged, storeVars,
     cursors, history, Pending, Rolling
<1>2. CASE SubscribeGetCursor(c)
  <2>1. UNCHANGED <<getSequence, fetched, batches, maxBatchId, acked, torn>>
    BY <1>2 DEF SubscribeGetCursor, StoreUnchanged, storeVars, cursors, metaVars, history
  <2> QED BY <2>1, <1>2, GotoCalm, ReturnCalm DEF SubscribeGetCursor, Pending, Rolling
<1>3. CASE SubscribeGetFirst(c)
  <2>1. UNCHANGED <<getSequence, fetched, batches, maxBatchId, acked, torn>>
    BY <1>3 DEF SubscribeGetFirst, StoreUnchanged, storeVars, cursors, metaVars, history
  <2>2. ~ Pending(c) /\ ~ Rolling(c)
    BY <1>3 DEF SubscribeGetFirst, Pending, Rolling
  <2>3. CASE Return(c)
    BY <2>1, <2>2, <2>3, ReturnCalm
  <2>4. CASE ~ Return(c)
    <3>1. pc'[c] = "subscribe.updateCursor" /\ Others(c)
      BY <1>3, <2>4, GotoFacts, HoldFacts DEF SubscribeGetFirst, Others
    <3> QED BY <2>1, <2>2, <3>1, CalmThread DEF Pending, Rolling, Acking
  <2> QED BY <2>3, <2>4
<1>4. CASE SubscribeUpdateCursor(c)
  BY <1>4, ReturnCalm DEF SubscribeUpdateCursor, UpdateCursor, StoreUnchanged, storeVars,
     cursors, history, Pending, Rolling
<1>5. CASE UnsubscribeMeta(c)
  BY <1>5 DEF UnsubscribeMeta, Unsubscribe, StoreUnchanged, storeVars, cursors, threadVars,
     history, Calm, Pending, Rolling, Acking
<1>6. CASE GetAckFails(c)
  BY <1>6, ReturnCalm DEF GetAckFails, StoreUnchanged, storeVars, cursors, metaVars,
     history, Pending, Rolling
<1>7. CASE Reply(c)
  BY <1>7, ReturnCalm DEF Reply, StoreUnchanged, storeVars, cursors, metaVars,
     history, Pending, Rolling
<1>8. CASE AckUpdateCursor(c)
  <2>1. UNCHANGED <<getSequence, fetched, batches, maxBatchId, acked, torn>>
    BY <1>8 DEF AckUpdateCursor, UpdateCursor, StoreUnchanged, storeVars, cursors,
       metaVars, history
  <2> QED BY <2>1, <1>8, GotoCalm DEF AckUpdateCursor, Pending, Rolling, Acking
<1>9. CASE AckStore(c)
  <2>1. UNCHANGED <<getSequence, fetched, batches, maxBatchId, acked, torn>>
    BY <1>9 DEF AckStore, CleanUntil, CleanTo, StoreUnchanged, storeVars, cursors,
       metaVars, history
  <2> QED BY <2>1, <1>9, GotoCalm, ReturnCalm DEF AckStore, Pending, Rolling, Acking
<1> QED BY <1>1, <1>2, <1>3, <1>4, <1>5, <1>6, <1>7, <1>8, <1>9 DEF CalmRequest

LEMMA NoRequestCalm ==
  ASSUME StartInstance \/ Sink \/ UNCHANGED serverVars PROVE Calm
BY DEF StartInstance, Start, Sink, Put, serverVars, storeVars, cursors, metaVars, threadVars,
       history, Calm, Pending, Rolling, Acking

-----------------------------------------------------------------------------
(* The other requests: what each does to what the invariant reads. *)

FetchEffect(c) ==
  /\ monitor = Free /\ Others(c) /\ Pending(c)'
  /\ UNCHANGED <<ackSequence, batches, maxBatchId, acked, torn>>
  /\ maxBatchId <= MaxBatchId
  /\ RangeOK(range'[c], fetched') /\ range'[c].endSeq = getSequence'
  /\ SeqOf(range'[c].start) = getSequence + 1
  /\ getSequence' \in Int /\ getSequence < getSequence'

LEMMA FetchHasEffect ==
  ASSUME StoreInv, Threads, NEW c \in Conn, NEW kind \in {"getWithoutAck", "get"},
         Fetch(c, kind)
  PROVE  FetchEffect(c)
<1>1. PICK batchSize \in BatchSizes, end \in getSequence+1..putSequence :
        GetTo(end, batchSize) /\ Hold(c, 0, RangeTo(end))
  BY DEF Fetch
<1>2. /\ Others(c) /\ pc'[c] = kind /\ range'[c] = RangeTo(end)
  BY <1>1, GotoFacts, HoldFacts DEF Fetch, Others
<1>3. /\ getSequence' = end /\ fetched' = (IF end > fetched THEN end ELSE fetched)
      /\ UNCHANGED ackSequence
  BY <1>1 DEF GetTo
<1>4. /\ RangeOK(RangeTo(end), end) /\ RangeTo(end).endSeq = end
      /\ SeqOf(RangeTo(end).start) = getSequence + 1
      /\ end \in Int /\ getSequence < end
  BY <1>1, FetchedRange
<1>5. end <= fetched' /\ fetched' \in Int
  BY <1>3, <1>4, CursorFacts DEF StoreInv, Inv
<1>6. RangeOK(range'[c], fetched')
  BY <1>2, <1>4, <1>5, RangeKept
<1>7. /\ monitor = Free /\ maxBatchId <= MaxBatchId
      /\ UNCHANGED <<batches, maxBatchId, acked, torn>>
  BY DEF Fetch, Enter, metaVars, history
<1> QED BY <1>2, <1>3, <1>4, <1>6, <1>7 DEF FetchEffect, Pending

AddEffect(c) ==
  /\ Others(c) /\ Pending(c) /\ ~ Pending(c)' /\ ~ Rolling(c)' /\ ~ Acking(c)'
  /\ UNCHANGED <<getSequence, ackSequence, fetched, acked, torn>>
  /\ maxBatchId' = maxBatchId + 1
  /\ DOMAIN batches' = DOMAIN batches \cup {maxBatchId}
  /\ batches'[maxBatchId] = range[c]
  /\ \A id \in DOMAIN batches : id # maxBatchId => batches'[id] = batches[id]
  /\ pc'[c] # "subscribe.updateCursor"

LEMMA AddHasEffect ==
  ASSUME Threads, NEW c \in Conn, GetWithoutAckAddBatch(c) \/ GetAddBatch(c)
  PROVE  AddEffect(c)
<1>1. /\ Pending(c)
      /\ UNCHANGED <<getSequence, ackSequence, fetched, acked, torn>>
  BY DEF GetWithoutAckAddBatch, GetAddBatch, Pending, StoreUnchanged, storeVars, cursors, history
<1>2. Others(c) /\ pc'[c] \in {"reply", "get.ack"}
  BY GotoFacts, HoldFacts DEF GetWithoutAckAddBatch, GetAddBatch, Others
<1>3. AddBatch(range[c])
  BY DEF GetWithoutAckAddBatch, GetAddBatch
<1> QED BY <1>1, <1>2, <1>3 DEF AddEffect, AddBatch, Pending, Rolling, Acking

RemoveEffect(c) ==
  /\ Others(c) /\ ~ Pending(c) /\ ~ Rolling(c) /\ Acking(c)'
  /\ UNCHANGED <<getSequence, ackSequence, fetched, maxBatchId, torn>>
  /\ \E id \in DOMAIN batches :
       /\ \A other \in DOMAIN batches : id <= other
       /\ DOMAIN batches' = DOMAIN batches \ {id}
       /\ \A other \in DOMAIN batches' : batches'[other] = batches[other]
       /\ range'[c] = batches[id]
       /\ acked' = acked \cup SeqsOf(batches[id])

LEMMA RemoveHasEffect ==
  ASSUME Threads, NEW c \in Conn, AckRemoveBatch(c) \/ GetRemoveBatch(c)
  PROVE  RemoveEffect(c)
<1>1. PICK id : AckRemove(c, id, "ack.cursor") \/ AckRemove(c, id, "get.cursor")
  BY DEF AckRemoveBatch, GetRemoveBatch
<1>2. pc[c] \in {"idle", "get.ack"}
  BY DEF AckRemoveBatch, GetRemoveBatch, Request
<1>3. /\ UNCHANGED <<getSequence, ackSequence, fetched, torn>>
      /\ acked' = acked \cup SeqsOf(batches[id])
  BY <1>1 DEF AckRemove, StoreUnchanged, storeVars, cursors
<1>4. Others(c) /\ pc'[c] \in {"ack.cursor", "get.cursor"} /\ range'[c] = batches[id]
  BY <1>1, GotoFacts, HoldFacts DEF AckRemove, Others
<1>5. RemoveBatch(id)
  BY <1>1 DEF AckRemove
<1> QED BY <1>2, <1>3, <1>4, <1>5
        DEF RemoveEffect, RemoveBatch, IsFirstBatch, Pending, Rolling, Acking

RollEffect(c) ==
  /\ monitor = Free /\ Others(c) /\ Rolling(c)'
  /\ UNCHANGED <<getSequence, ackSequence, fetched, maxBatchId, acked>>
  /\ DOMAIN batches' \subseteq DOMAIN batches
  /\ \A id \in DOMAIN batches' : batches'[id] = batches[id]
  /\ ~ torn' => ~ torn /\ DOMAIN batches' = {}

LEMMA RollHasEffect ==
  ASSUME Threads, torn \in BOOLEAN, NEW c \in Conn, RollbackClear(c) \/ RollbackRemove(c)
  PROVE  RollEffect(c)
<1>1. /\ monitor = Free /\ UNCHANGED <<getSequence, ackSequence, fetched, acked>>
      /\ UNCHANGED range
  BY DEF RollbackClear, RollbackRemove, Enter, StoreUnchanged, storeVars, cursors, history
<1>2. Others(c) /\ pc'[c] = "rollback.store"
  BY <1>1, GotoFacts DEF RollbackClear, RollbackRemove, Others
<1>3. /\ UNCHANGED maxBatchId
      /\ DOMAIN batches' \subseteq DOMAIN batches
      /\ \A id \in DOMAIN batches' : batches'[id] = batches[id]
  BY DEF RollbackClear, RollbackRemove, ClearAllBatchs, RemoveBatch
<1>4. ~ torn' => ~ torn /\ DOMAIN batches' = {}
  <2>1. CASE RollbackClear(c)
    BY <2>1 DEF RollbackClear, ClearAllBatchs, history
  <2>2. CASE RollbackRemove(c)
    BY <2>2 DEF RollbackRemove
  <2> QED BY <2>1, <2>2
<1> QED BY <1>1, <1>2, <1>3, <1>4 DEF RollEffect, Rolling

RollStoreEffect(c) ==
  /\ Others(c) /\ Rolling(c) /\ pc'[c] = "idle"
  /\ getSequence' = ackSequence
  /\ UNCHANGED <<ackSequence, fetched, batches, maxBatchId, acked, torn>>

LEMMA RollStoreHasEffect ==
  ASSUME Threads, NEW c \in Conn, RollbackStore(c) PROVE RollStoreEffect(c)
BY ReturnFacts DEF RollbackStore, Rollback, metaVars, history, RollStoreEffect, Others, Rolling

\* Every step is of one of these kinds.
LEMMA StepKinds ==
  ASSUME StoreInv, Threads, torn \in BOOLEAN, [ServerNext]_serverVars
  PROVE  \/ Calm
         \/ \E c \in Conn : \/ FetchEffect(c) \/ AddEffect(c) \/ RemoveEffect(c)
                            \/ RollEffect(c) \/ RollStoreEffect(c)
<1>1. CASE StartInstance \/ Sink \/ UNCHANGED serverVars
  BY <1>1, NoRequestCalm
<1>2. ASSUME NEW c \in Conn, Serve(c)
      PROVE  \/ Calm \/ FetchEffect(c) \/ AddEffect(c) \/ RemoveEffect(c)
             \/ RollEffect(c) \/ RollStoreEffect(c)
  BY <1>2, RequestsCalm, FetchHasEffect, AddHasEffect, RemoveHasEffect, RollHasEffect,
     RollStoreHasEffect DEF Serve, CalmRequest
<1> QED BY <1>1, <1>2 DEF ServerNext

\* Only subscribe's look into the store brings a thread before its update.
LEMMA SubscribersFound ==
  ASSUME Threads, NEW c \in Conn, [ServerNext]_serverVars,
         pc'[c] = "subscribe.updateCursor"
  PROVE  \/ pc[c] = "subscribe.updateCursor" /\ range'[c] = range[c]
         \/ FirstPosition # NoPosition /\ range'[c].ack = FirstPosition
<1>1. CASE StartInstance \/ Sink \/ UNCHANGED serverVars \/ \E d \in Conn : UnsubscribeMeta(d)
  BY <1>1 DEF StartInstance, Sink, serverVars, threadVars, UnsubscribeMeta
<1>2. ASSUME NEW d \in Conn, d # c, Serve(d), ~ UnsubscribeMeta(d)
      PROVE  pc'[c] = pc[c] /\ range'[c] = range[c]
  BY <1>2, GotoFacts, HoldFacts, ReturnFacts
     DEF Serve, SubscribeMeta, SubscribeGetCursor, SubscribeGetFirst,
         SubscribeUpdateCursor, Fetch, GetWithoutAckAddBatch, GetAddBatch,
         GetRemoveBatch, GetAckFails, Reply, AckRemoveBatch, AckRemove,
         AckUpdateCursor, AckStore, RollbackClear, RollbackRemove, RollbackStore
<1>3. CASE SubscribeGetFirst(c)
  <2>1. /\ range'[c] = [NoRange EXCEPT !.ack = FirstPosition]
        /\ FirstPosition # NoPosition
    BY <1>3, HoldFacts, ReturnFacts DEF SubscribeGetFirst
  <2> QED BY <2>1 DEF NoRange
<1>4. ASSUME Serve(c), ~ UnsubscribeMeta(c), ~ SubscribeGetFirst(c) PROVE FALSE
  BY <1>4, GotoFacts, ReturnFacts
     DEF Serve, SubscribeMeta, SubscribeGetCursor,
         SubscribeUpdateCursor, Fetch, GetWithoutAckAddBatch, GetAddBatch,
         GetRemoveBatch, GetAckFails, Reply, AckRemoveBatch, AckRemove,
         AckUpdateCursor, AckStore, RollbackClear, RollbackRemove, RollbackStore
<1> QED BY <1>1, <1>2, <1>3, <1>4 DEF ServerNext

\* Where the ranges come from.
LEMMA NextRanges ==
  ASSUME ServerInv, StoreInv', [ServerNext]_serverVars PROVE RangesOK'
<1>1. fetched \in Int /\ fetched' \in Int /\ fetched <= fetched'
  BY FetchedGrows DEF ServerInv, StoreInv, Inv, TypeOK
<1>2. ASSUME NEW r, RangeOK(r, fetched) PROVE RangeOK(r, fetched')
  BY <1>1, <1>2, RangeKept
<1>3. MonitorOK /\ torn \in BOOLEAN /\ maxBatchId \in Int
  BY ServerAssumption DEF ServerInv, ServerTypeOK, MonitorOK, InMonitor
<1>4. ASSUME NEW c \in Conn, pc'[c] = "subscribe.updateCursor" PROVE range'[c].ack \in Event
  <2>1. \A q \in Int : At(q).event \in Event \cup {NoEvent}
    BY IndexRange DEF ServerInv, StoreInv, Inv, TypeOK, At, Slot
  <2>2. ackSequence \in Int /\ 0 \in Int
    BY CursorFacts DEF ServerInv, StoreInv, Inv
  <2>3. FirstPosition \in Event \cup {NoEvent}
    BY <2>1, <2>2 DEF FirstPosition
  <2> QED BY <1>4, <2>3, SubscribersFound, ServerAssumption DEF ServerInv, RangesOK
<1>5. CASE Calm
  BY <1>2, <1>4, <1>5 DEF Calm, ServerInv, RangesOK
<1>6. ASSUME NEW c \in Conn,
             \/ FetchEffect(c) \/ AddEffect(c) \/ RemoveEffect(c)
             \/ RollEffect(c) \/ RollStoreEffect(c)
      PROVE  RangesOK'
  <2>1. \A d \in Conn : d # c =>
          /\ Pending(d)' <=> Pending(d)
          /\ Acking(d)' <=> Acking(d)
          /\ range'[d] = range[d]
    BY <1>6 DEF FetchEffect, AddEffect, RemoveEffect, RollEffect, RollStoreEffect, Others,
       Pending, Acking
  <2>2. CASE FetchEffect(c)
    <3>1. \A d \in Conn : d # c => ~ Pending(d)
      BY <2>2, <1>3, ServerAssumption DEF FetchEffect, MonitorOK, Pending, InMonitor
    <3>2. ~ Acking(c)'
      BY <2>2 DEF FetchEffect, Pending, Acking
    <3> QED BY <1>2, <1>4, <2>1, <2>2, <3>1, <3>2 DEF FetchEffect, ServerInv, RangesOK
  <2>3. CASE AddEffect(c)
    <3>1. \A d \in Conn : d # c => ~ Pending(d)
      BY <2>3, <1>3, ServerAssumption DEF AddEffect, MonitorOK, Pending, InMonitor
    <3> QED BY <1>2, <1>4, <2>1, <2>3, <3>1 DEF AddEffect, ServerInv, RangesOK
  <2>4. CASE RemoveEffect(c)
    BY <1>2, <1>4, <2>1, <2>4 DEF RemoveEffect, ServerInv, RangesOK, Pending, Acking
  <2>5. CASE RollEffect(c)
    BY <1>2, <1>4, <2>1, <2>5 DEF RollEffect, ServerInv, RangesOK, Rolling, Pending, Acking
  <2>6. CASE RollStoreEffect(c)
    <3>1. \A d \in Conn : d # c => ~ Pending(d)
      BY <2>6, <1>3, ServerAssumption
         DEF RollStoreEffect, MonitorOK, Rolling, Pending, InMonitor
    <3> QED BY <1>2, <1>4, <2>1, <2>6, <3>1
            DEF RollStoreEffect, ServerInv, RangesOK, Pending, Acking
  <2> QED BY <1>6, <2>2, <2>3, <2>4, <2>5, <2>6
<1> QED BY <1>3, <1>5, <1>6, StepKinds DEF ServerInv

-----------------------------------------------------------------------------
(* The order of acked, unacked and pending batches. *)

\* What the ranges say in numbers.
LEMMA RangeNumbers ==
  ASSUME ServerInv
  PROVE  /\ \A id \in DOMAIN batches :
              /\ batches[id].endSeq \in Int /\ SeqOf(batches[id].start) \in Int
              /\ 0 <= SeqOf(batches[id].start)
              /\ SeqOf(batches[id].start) <= batches[id].endSeq
              /\ SeqsOf(batches[id]) = SeqOf(batches[id].start)..batches[id].endSeq
              /\ id \in Int /\ id < maxBatchId
         /\ \A c \in Conn : Pending(c) \/ Acking(c) =>
              /\ range[c].endSeq \in Int /\ SeqOf(range[c].start) \in Int
              /\ 0 <= SeqOf(range[c].start)
              /\ SeqOf(range[c].start) <= range[c].endSeq
         /\ getSequence \in Int /\ -1 <= getSequence
         /\ ackSequence \in Int /\ -1 <= ackSequence
         /\ acked \subseteq Nat /\ maxBatchId \in Int
<1>1. /\ \A id \in DOMAIN batches : RangeOK(batches[id], fetched)
      /\ \A c \in Conn : Pending(c) \/ Acking(c) => RangeOK(range[c], fetched)
      /\ StoreInv
  BY DEF ServerInv, RangesOK
<1>2. fetched \in Int /\ acked \subseteq Nat
  BY <1>1, FetchedFacts DEF ServerInv, ServerTypeOK
<1>3. DOMAIN batches \subseteq 1..maxBatchId-1 /\ maxBatchId \in Int
  BY ServerAssumption DEF ServerInv, ServerTypeOK
<1> QED BY <1>1, <1>2, <1>3, RangeFacts, CursorFacts DEF StoreInv, Inv, SeqsOf

\* In the monitor nobody else is.
LEMMA Alone ==
  ASSUME ServerInv, NEW c \in Conn
  PROVE  /\ monitor = Free => \A d \in Conn : ~ Pending(d) /\ ~ Rolling(d)
         /\ Pending(c) \/ Rolling(c) => \A d \in Conn : d # c => ~ Pending(d) /\ ~ Rolling(d)
BY ServerAssumption DEF ServerInv, ServerTypeOK, Pending, Rolling

\* An ack releases what was acked: its batch, and by the order everything
\* before it.
LEMMA ReleaseAcked ==
  ASSUME ServerInv, OrderInv, NEW c \in Conn, AckStore(c)
  PROVE  0..ackSequence' \subseteq acked
<1>1. CASE AckFound(c)
  <2>1. PICK next \in AckMatches(range[c].end, range[c].endSeq) : CleanTo(next)
    BY <1>1 DEF AckStore, CleanUntil
  <2>2. Acking(c) /\ ackSequence' = next
    BY <2>1 DEF AckStore, Acking, CleanTo
  <2>3. range[c].endSeq \in acked /\ range[c].endSeq \in Nat
    BY <2>2, RangeNumbers DEF ServerInv, RangesOK, SeqsOf
  <2>4. next = range[c].endSeq
    BY <2>1, <2>3 DEF AckMatches
  <2> QED BY <2>2, <2>3, <2>4 DEF OrderInv
<1>2. CASE ~ AckFound(c)
  BY <1>2 DEF AckStore, StoreUnchanged, storeVars, cursors, OrderInv, ReleasedWereAcked
<1> QED BY <1>1, <1>2

\* Nothing but an ack moves the ack cursor.
LEMMA OnlyAckReleases ==
  ASSUME [ServerNext]_serverVars
  PROVE  UNCHANGED ackSequence \/ \E c \in Conn : AckStore(c)
<1>1. CASE StartInstance \/ Sink \/ UNCHANGED serverVars
  BY <1>1 DEF StartInstance, Start, Sink, Put, serverVars, storeVars, cursors
<1>2. ASSUME NEW c \in Conn, Serve(c) PROVE UNCHANGED ackSequence \/ AckStore(c)
  <2>1. CASE StoreQuiet(c)
    BY <2>1, StoreQuietUnchanged DEF storeVars, cursors
  <2>2. CASE Fetch(c, "getWithoutAck") \/ Fetch(c, "get")
    BY <2>2 DEF Fetch, GetTo
  <2>3. CASE RollbackStore(c)
    BY <2>3 DEF RollbackStore, Rollback
  <2> QED BY <1>2, <2>1, <2>2, <2>3 DEF Serve, StoreQuiet
<1> QED BY <1>1, <1>2 DEF ServerNext

LEMMA CalmOrder ==
  ASSUME OrderInv, Calm, 0..ackSequence' \subseteq acked PROVE OrderInv'
BY DEF OrderInv, Calm, Follows, Earlier, Covered, ReleasedWereAcked

LEMMA FetchOrder ==
  ASSUME ServerInv, OrderInv, NEW c \in Conn, FetchEffect(c) PROVE OrderInv'
<1> DEFINE s == SeqOf(range'[c].start)
<1>1. /\ monitor = Free /\ Others(c) /\ Pending(c)'
      /\ UNCHANGED <<ackSequence, batches, maxBatchId, acked, torn>>
      /\ s = getSequence + 1 /\ range'[c].endSeq = getSequence'
  BY DEF FetchEffect
<1>2. \A d \in Conn : ~ Pending(d) /\ ~ Rolling(d)
  BY <1>1, Alone
<1>3. Covered
  BY <1>2 DEF OrderInv
<1>4. \A d \in Conn : (Pending(d)' => d = c) /\ ~ Rolling(d)'
  BY <1>1, <1>2 DEF Others, Pending, Rolling
<1>5. getSequence < getSequence' /\ getSequence' \in Int
  BY DEF FetchEffect
<1>6. Follows(range'[c], DOMAIN batches)
  BY <1>1, <1>3, RangeNumbers DEF Covered, Follows, InitSequence
<1>7. \A id \in DOMAIN batches : batches[id].endSeq < s /\ batches[id].endSeq <= getSequence'
  BY <1>1, <1>5, RangeNumbers DEF OrderInv
<1> QED BY <1>1, <1>4, <1>6, <1>7 DEF OrderInv, Follows, Earlier, ReleasedWereAcked

LEMMA AddOrder ==
  ASSUME ServerInv, OrderInv, NEW c \in Conn, AddEffect(c) PROVE OrderInv'
<1> PICK m \in Int : m = maxBatchId
  BY RangeNumbers
<1>1. /\ Others(c) /\ Pending(c) /\ ~ Pending(c)' /\ ~ Rolling(c)'
      /\ UNCHANGED <<getSequence, ackSequence, acked, torn>>
      /\ DOMAIN batches' = DOMAIN batches \cup {m} /\ batches'[m] = range[c]
  BY DEF AddEffect
<1>2. \A d \in Conn : ~ Pending(d)' /\ ~ Rolling(d)'
  BY <1>1, Alone DEF Others, Pending, Rolling
<1>3. m \in Int /\ \A id \in DOMAIN batches :
        id \in Int /\ id < m /\ batches'[id] = batches[id]
  BY RangeNumbers DEF AddEffect
<1>4. /\ range[c].endSeq = getSequence
      /\ \A id \in DOMAIN batches : batches[id].endSeq < SeqOf(range[c].start)
      /\ Follows(range[c], DOMAIN batches)
  BY <1>1 DEF OrderInv, ServerInv, RangesOK
<1>5. \A i, j \in DOMAIN batches' : i < j => batches'[i].endSeq < SeqOf(batches'[j].start)
  BY <1>1, <1>3, <1>4 DEF OrderInv
<1>6. \A id \in DOMAIN batches' : batches'[id].endSeq <= getSequence
  BY <1>1, <1>3, <1>4, RangeNumbers DEF OrderInv
<1>7. ASSUME NEW id \in DOMAIN batches' PROVE Follows(batches[id], Earlier(id))'
  <2>1. CASE id = m
    <3>1. Earlier(m)' = DOMAIN batches
      BY <1>1, <1>3 DEF Earlier
    <3> QED BY <1>1, <1>3, <1>4, <2>1, <3>1 DEF Follows
  <2>2. CASE id # m
    <3>1. id \in DOMAIN batches /\ Earlier(id)' = Earlier(id)
      BY <1>1, <1>3, <2>2 DEF Earlier
    <3>2. Follows(batches[id], Earlier(id))
      BY <3>1 DEF OrderInv
    <3> QED BY <1>1, <1>3, <3>1, <3>2 DEF Follows, Earlier
  <2> QED BY <2>1, <2>2
<1>8. Covered'
  BY <1>1, <1>4 DEF Covered
<1> QED BY <1>1, <1>2, <1>5, <1>6, <1>7, <1>8 DEF OrderInv, ReleasedWereAcked

LEMMA RemoveOrder ==
  ASSUME ServerInv, OrderInv, NEW c \in Conn, RemoveEffect(c) PROVE OrderInv'
<1>1. /\ Others(c) /\ ~ Pending(c) /\ ~ Rolling(c) /\ Acking(c)'
      /\ UNCHANGED <<getSequence, ackSequence, maxBatchId, torn>>
  BY DEF RemoveEffect
<1>2. PICK first \in DOMAIN batches :
        /\ \A other \in DOMAIN batches : first <= other
        /\ DOMAIN batches' = DOMAIN batches \ {first}
        /\ \A other \in DOMAIN batches' : batches'[other] = batches[other]
        /\ range'[c] = batches[first]
        /\ acked' = acked \cup SeqsOf(batches[first])
  BY DEF RemoveEffect
<1> DEFINE s == SeqOf(batches[first].start)
           e == batches[first].endSeq
<1>3. s \in Int /\ e \in Int /\ 0 <= s /\ s <= e /\ acked' = acked \cup (s..e)
      /\ e \in acked' /\ acked \subseteq Nat
  BY <1>2, RangeNumbers
<1>4. s = 0 \/ s - 1 \in acked
  <2>1. Earlier(first) = {}
    BY <1>2, RangeNumbers DEF Earlier
  <2> QED BY <2>1 DEF OrderInv, Follows
<1>5. \A d \in Conn : /\ (Pending(d)' <=> Pending(d)) /\ (Rolling(d)' <=> Rolling(d))
                      /\ Pending(d) => range'[d] = range[d]
  BY <1>1 DEF Others, Pending, Rolling, Acking
<1>6. ASSUME NEW q \in acked' PROVE 0..q \subseteq acked'
  <2>1. CASE q \in acked
    BY <1>3, <2>1 DEF OrderInv
  <2>2. CASE q \in s..e
    <3>1. 0..s-1 \subseteq acked
      BY <1>3, <1>4 DEF OrderInv
    <3> QED BY <1>3, <2>2, <3>1
  <2> QED BY <1>3, <2>1, <2>2
<1>7. ASSUME NEW r, NEW before \in SUBSET DOMAIN batches, Follows(r, before)
      PROVE  \/ SeqOf(r.start) = 0 \/ SeqOf(r.start) - 1 \in acked'
             \/ \E id \in before \ {first} : batches'[id].endSeq = SeqOf(r.start) - 1
  BY <1>2, <1>3, <1>7 DEF Follows
<1>8. ASSUME NEW id \in DOMAIN batches' PROVE Follows(batches[id], Earlier(id))'
  <2>1. Follows(batches[id], Earlier(id)) /\ Earlier(id) \in SUBSET DOMAIN batches
    BY <1>2 DEF OrderInv, Earlier
  <2>2. Earlier(id)' = Earlier(id) \ {first} /\ batches'[id] = batches[id]
    BY <1>2 DEF Earlier
  <2> QED BY <1>7, <2>1, <2>2 DEF Follows
<1>9. ASSUME NEW d \in Conn, Pending(d)' PROVE Follows(range[d], DOMAIN batches)'
  <2>1. Follows(range[d], DOMAIN batches) /\ range'[d] = range[d]
    BY <1>5, <1>9 DEF OrderInv
  <2> QED BY <1>2, <1>7, <2>1 DEF Follows
<1>10. Covered => Covered'
  BY <1>1, <1>2, <1>3 DEF Covered
<1>11. ReleasedWereAcked'
  BY <1>1, <1>2 DEF OrderInv, ReleasedWereAcked
<1> QED BY <1>1, <1>2, <1>5, <1>6, <1>8, <1>9, <1>10, <1>11 DEF OrderInv

LEMMA RollOrder ==
  ASSUME ServerInv, OrderInv, NEW c \in Conn, RollEffect(c), ~ torn' PROVE OrderInv'
<1>1. \A d \in Conn : ~ Pending(d)'
  BY Alone DEF RollEffect, Others, Pending, Rolling
<1> QED BY <1>1 DEF RollEffect, OrderInv, ReleasedWereAcked

LEMMA RollStoreOrder ==
  ASSUME ServerInv, OrderInv, NEW c \in Conn, RollStoreEffect(c) PROVE OrderInv'
<1>1. \A d \in Conn : ~ Pending(d)' /\ ~ Rolling(d)'
  BY Alone DEF RollStoreEffect, Others, Pending, Rolling
<1>2. DOMAIN batches = {} /\ batches' = batches
  BY DEF OrderInv, RollStoreEffect
<1>3. Covered'
  BY RangeNumbers DEF OrderInv, ReleasedWereAcked, RollStoreEffect, Covered, InitSequence
<1> QED BY <1>1, <1>2, <1>3 DEF OrderInv, RollStoreEffect, ReleasedWereAcked

LEMMA NextOrder ==
  ASSUME ServerInv, [ServerNext]_serverVars, ~ torn' PROVE OrderInv'
<1>1. torn \in BOOLEAN /\ StoreInv /\ Threads
  BY DEF ServerInv, ServerTypeOK
<1>2. CASE Calm
  <2>1. OrderInv
    BY <1>2 DEF Calm, ServerInv
  <2>2. 0..ackSequence' \subseteq acked
    BY <2>1, OnlyAckReleases, ReleaseAcked DEF OrderInv, ReleasedWereAcked
  <2> QED BY <1>2, <2>1, <2>2, CalmOrder
<1>3. ASSUME NEW c \in Conn,
             \/ FetchEffect(c) \/ AddEffect(c) \/ RemoveEffect(c)
             \/ RollEffect(c) \/ RollStoreEffect(c)
      PROVE  OrderInv'
  <2>1. OrderInv
    BY <1>3 DEF ServerInv, FetchEffect, AddEffect, RemoveEffect, RollEffect, RollStoreEffect
  <2> QED BY <1>3, <2>1, FetchOrder, AddOrder, RemoveOrder, RollOrder, RollStoreOrder
<1> QED BY <1>1, <1>2, <1>3, StepKinds

-----------------------------------------------------------------------------
(* The whole invariant. *)

\* Only these two steps write the cursor.
LEMMA CursorWriters ==
  ASSUME subscribed \in BOOLEAN, [ServerNext]_serverVars
  PROVE  /\ subscribed' \in BOOLEAN
         /\ \/ UNCHANGED cursor
            \/ \E c \in Conn : /\ cursor' = range[c].ack
                               /\ \/ SubscribeUpdateCursor(c)
                                  \/ AckUpdateCursor(c) /\ range[c].ack # NoEvent
<1>1. CASE StartInstance \/ Sink \/ UNCHANGED serverVars
  BY <1>1 DEF StartInstance, Sink, serverVars, metaVars
<1>2. ASSUME NEW c \in Conn, Serve(c)
      PROVE  /\ subscribed' \in BOOLEAN
             /\ \/ UNCHANGED cursor
                \/ /\ cursor' = range[c].ack
                   /\ \/ SubscribeUpdateCursor(c)
                      \/ AckUpdateCursor(c) /\ range[c].ack # NoEvent
  <2>1. CASE SubscribeMeta(c) \/ UnsubscribeMeta(c)
    BY <2>1 DEF SubscribeMeta, UnsubscribeMeta, Subscribe, Unsubscribe
  <2>2. CASE SubscribeGetCursor(c) \/ SubscribeGetFirst(c) \/ GetAckFails(c) \/ Reply(c)
             \/ AckStore(c) \/ RollbackStore(c)
             \/ Fetch(c, "getWithoutAck") \/ Fetch(c, "get")
    BY <2>2 DEF SubscribeGetCursor, SubscribeGetFirst, GetAckFails, Reply, AckStore,
       RollbackStore, Fetch, metaVars
  <2>3. CASE SubscribeUpdateCursor(c) \/ AckUpdateCursor(c)
    BY <2>3 DEF SubscribeUpdateCursor, AckUpdateCursor, UpdateCursor, metaVars
  <2>4. CASE GetWithoutAckAddBatch(c) \/ GetAddBatch(c)
    BY <2>4 DEF GetWithoutAckAddBatch, GetAddBatch, AddBatch
  <2>5. CASE GetRemoveBatch(c) \/ AckRemoveBatch(c) \/ RollbackClear(c) \/ RollbackRemove(c)
    BY <2>5 DEF GetRemoveBatch, AckRemoveBatch, AckRemove, RollbackClear, RollbackRemove,
       RemoveBatch, ClearAllBatchs
  <2> QED BY <1>2, <2>1, <2>2, <2>3, <2>4, <2>5 DEF Serve
<1> QED BY <1>1, <1>2 DEF ServerNext

\* What is stripped was released.
LEMMA StrippedReleased ==
  ASSUME [ServerNext]_serverVars
  PROVE  stripped' = stripped \/ \E next \in ackSequence+1..ackSequence' :
                                   stripped' = stripped \cup {next}
<1>1. CASE StartInstance \/ Sink \/ UNCHANGED serverVars
  BY <1>1 DEF StartInstance, Sink, serverVars
<1>2. ASSUME NEW c \in Conn, Serve(c)
      PROVE  stripped' = stripped \/ \E next \in ackSequence+1..ackSequence' :
                                       stripped' = stripped \cup {next}
  <2>1. CASE StoreQuiet(c)
    BY <2>1 DEF StoreQuiet, SubscribeMeta, SubscribeGetCursor, SubscribeGetFirst,
       SubscribeUpdateCursor, UnsubscribeMeta, GetWithoutAckAddBatch, GetAddBatch,
       GetRemoveBatch, GetAckFails, Reply, AckRemoveBatch, AckUpdateCursor,
       RollbackClear, RollbackRemove, AckRemove, StoreUnchanged
  <2>2. CASE Fetch(c, "getWithoutAck") \/ Fetch(c, "get") \/ RollbackStore(c)
    BY <2>2 DEF Fetch, RollbackStore
  <2>3. CASE AckStore(c) /\ AckFound(c)
    <3>1. PICK next \in AckMatches(range[c].end, range[c].endSeq) : CleanTo(next)
      BY <2>3 DEF AckStore, CleanUntil
    <3>2. ackSequence' = next /\ next \in ackSequence+1..next
      BY <3>1 DEF CleanTo, AckMatches
    <3> QED BY <2>3, <3>2 DEF AckStore
  <2>4. CASE AckStore(c) /\ ~ AckFound(c)
    BY <2>4 DEF AckStore, StoreUnchanged
  <2> QED BY <1>2, <2>1, <2>2, <2>3, <2>4 DEF Serve, StoreQuiet
<1> QED BY <1>1, <1>2 DEF ServerNext

LEMMA NextTypes ==
  ASSUME ServerInv, StoreInv', [ServerNext]_serverVars PROVE ServerTypeOK' /\ Threads'
<1>1. Threads /\ MonitorOK /\ torn \in BOOLEAN /\ StoreInv
  BY DEF ServerInv, ServerTypeOK, MonitorOK, InMonitor
<1>2. Threads' /\ MonitorOK'
  BY <1>1, NextThreads
<1>3. subscribed' \in BOOLEAN
  BY CursorWriters DEF ServerInv, ServerTypeOK
<1>4. cursor' \in Event \cup {NoPosition}
  <2>1. ASSUME NEW c \in Conn, SubscribeUpdateCursor(c) PROVE range[c].ack \in Event
    BY <2>1 DEF SubscribeUpdateCursor, ServerInv, RangesOK
  <2>2. ASSUME NEW c \in Conn, AckUpdateCursor(c), range[c].ack # NoEvent
        PROVE  range[c].ack \in Event
    <3>1. RangeOK(range[c], fetched)
      BY <2>2 DEF AckUpdateCursor, ServerInv, RangesOK, Acking
    <3> QED BY <1>1, <2>2, <3>1, RangeFacts
  <2> QED BY <2>1, <2>2, CursorWriters DEF ServerInv, ServerTypeOK
<1>5. /\ fetched \in Int /\ fetched' \in Int /\ fetched <= fetched'
      /\ maxBatchId \in Int /\ MaxBatchId \in Nat /\ DOMAIN batches \subseteq 1..maxBatchId-1
      /\ maxBatchId \in 1..MaxBatchId+1 /\ acked \subseteq 0..fetched
  <2>1. fetched \in Int /\ fetched' \in Int
    BY DEF ServerInv, StoreInv, Inv, TypeOK
  <2>2. MaxBatchId \in Nat
    BY ServerAssumption
  <2> QED BY <2>1, <2>2, FetchedGrows DEF ServerInv, ServerTypeOK
<1>6. /\ DOMAIN batches' \subseteq 1..maxBatchId'-1 /\ maxBatchId' \in 1..MaxBatchId+1
      /\ acked' \subseteq 0..fetched' /\ torn' \in BOOLEAN
  <2>1. acked \subseteq 0..fetched'
    BY <1>5
  <2>2. CASE Calm
    BY <1>1, <1>5, <2>1, <2>2 DEF Calm
  <2>3. ASSUME NEW c \in Conn, FetchEffect(c) \/ RollStoreEffect(c)
        PROVE  UNCHANGED <<batches, maxBatchId, acked, torn>>
    BY <2>3 DEF FetchEffect, RollStoreEffect
  <2>4. ASSUME NEW c \in Conn, AddEffect(c)
        PROVE  /\ DOMAIN batches' \subseteq 1..maxBatchId'-1 /\ maxBatchId' \in 1..MaxBatchId+1
               /\ UNCHANGED <<acked, torn>>
    BY <1>5, <2>4 DEF AddEffect, ServerInv, RangesOK
  <2>5. ASSUME NEW c \in Conn, RemoveEffect(c)
        PROVE  /\ DOMAIN batches' \subseteq DOMAIN batches /\ UNCHANGED <<maxBatchId, torn>>
               /\ acked' \subseteq 0..fetched'
    <3>1. PICK id \in DOMAIN batches : acked' = acked \cup SeqsOf(batches[id])
      BY <2>5 DEF RemoveEffect
    <3>2. SeqsOf(batches[id]) \subseteq 0..fetched
      BY <1>1, <3>1, RangeFacts DEF ServerInv, RangesOK
    <3> QED BY <1>5, <2>1, <2>5, <3>1, <3>2 DEF RemoveEffect
  <2>6. ASSUME NEW c \in Conn, RollEffect(c)
        PROVE  /\ DOMAIN batches' \subseteq DOMAIN batches /\ UNCHANGED <<maxBatchId, acked>>
    BY <2>6 DEF RollEffect
  <2>7. torn' \in BOOLEAN
    <3>1. CASE \E c \in Conn : RollbackRemove(c)
      BY <3>1 DEF RollbackRemove
    <3>2. CASE ~ \E c \in Conn : RollbackRemove(c)
      BY <1>1, <3>2 DEF ServerNext, Serve, StartInstance, Sink, SubscribeMeta,
         SubscribeGetCursor, SubscribeGetFirst, SubscribeUpdateCursor, UnsubscribeMeta,
         Fetch, GetWithoutAckAddBatch, GetAddBatch, GetRemoveBatch, GetAckFails, Reply,
         AckRemoveBatch, AckRemove, AckUpdateCursor, AckStore, RollbackClear,
         RollbackStore, history, serverVars
    <3> QED BY <3>1, <3>2
  <2> QED BY <1>1, <1>5, <2>1, <2>2, <2>3, <2>4, <2>5, <2>6, <2>7, StepKinds
<1>7. stripped' \subseteq 0..putSequence'
  <2>1. /\ putSequence \in Int /\ putSequence' \in Int /\ putSequence <= putSequence'
    <3>1. putSequence \in Int /\ putSequence' \in Int
      BY <1>1 DEF StoreInv, Inv, TypeOK
    <3>2. CASE Sink
      <4>1. PICK data \in DataList : Put(data)
        BY <1>1, <3>2, SinkPuts DEF PutSome
      <4>2. Len(data) \in Nat
        BY StoreAssumption DEF DataList
      <4> QED BY <3>1, <4>1, <4>2 DEF Put
    <3> QED BY <3>1, <3>2, LogKept
  <2>2. ackSequence \in Int /\ -1 <= ackSequence /\ ackSequence' \in Int
        /\ ackSequence' <= putSequence' /\ stripped \subseteq 0..putSequence
    BY <1>1, CursorFacts DEF StoreInv, Inv, TypeOK, ServerInv, ServerTypeOK
  <2>3. stripped \subseteq 0..putSequence'
    BY <2>1, <2>2
  <2>4. \A next \in ackSequence+1..ackSequence' : next \in 0..putSequence'
    BY <2>1, <2>2
  <2> QED BY <2>3, <2>4, StrippedReleased
<1>8. TypeOK'
  BY DEF StoreInv, Inv
<1> QED BY <1>2, <1>3, <1>4, <1>6, <1>7, <1>8 DEF ServerTypeOK, MonitorOK, InMonitor

LEMMA InitServerInv == ServerInit => ServerInv
<1> SUFFICES ASSUME ServerInit PROVE ServerInv
  OBVIOUS
<1>1. /\ DOMAIN batches = {} /\ maxBatchId = 1 /\ cursor = NoPosition /\ subscribed = FALSE
      /\ monitor = Free /\ pc = [c \in Conn |-> "idle"] /\ range = [c \in Conn |-> NoRange]
      /\ stripped = {} /\ acked = {} /\ torn = FALSE
      /\ log = <<>> /\ ackSequence = -1 /\ getSequence = -1
  BY DEF ServerInit, MetaInit, Init, InitSequence
<1>2. Inv /\ SlotsHoldLog
  BY InitInv, InitSlots DEF ServerInit
<1>3. StoreInv
  BY <1>1, <1>2, ServerAssumption DEF StoreInv, LogIsStream
<1>4. ServerTypeOK
  <2>1. maxBatchId \in 1..MaxBatchId+1
    BY <1>1, ServerAssumption
  <2>2. \A c \in Conn : monitor # c /\ pc[c] = "idle"
    BY <1>1, ServerAssumption
  <2> QED BY <1>1, <1>2, <2>1, <2>2 DEF ServerTypeOK, Inv
<1>5. Threads
  BY <1>1 DEF Threads
<1>6. RangesOK
  BY <1>1 DEF RangesOK, Pending, Acking
<1>7. OrderInv
  BY <1>1 DEF OrderInv, Pending, Rolling, Covered, InitSequence, ReleasedWereAcked
<1> QED BY <1>3, <1>4, <1>5, <1>6, <1>7 DEF ServerInv

LEMMA NextServerInv == ServerInv /\ [ServerNext]_serverVars => ServerInv'
BY NextStoreInv, NextTypes, NextRanges, NextOrder DEF ServerInv

\* The server's invariant holds in every reachable state.
LEMMA ServerInvariant == ServerSpec => []ServerInv
BY InitServerInv, NextServerInv, PTL DEF ServerSpec

\* Types, and the monitor is held by exactly the thread that is in it.
THEOREM ServerTypeCorrect == ServerSpec => []ServerTypeOK
<1>1. ServerInv => ServerTypeOK
  BY DEF ServerInv
<1> QED BY <1>1, ServerInvariant, PTL

\* Whatever the connections interleave, the server makes only calls that the
\* store's specification allows: each ack carries the end of a range that a get
\* returned, even one that a rollback has taken back.
THEOREM ServerUsesStore == ServerSpec => UsesStore
<1>1. ServerInit => Init
  BY DEF ServerInit
<1> QED BY <1>1, ServerInvariant, UsesStoreStep, PTL DEF ServerSpec, UsesStore, Spec

\* For any number of connections, a later unacked batch lies after an earlier
\* one: the ids follow the data although a batch is fetched and added in two
\* steps.
THEOREM BatchesInOrder == ServerSpec => []BatchOrder
<1>1. ServerInv => BatchOrder
  BY DEF ServerInv, OrderInv, BatchOrder
<1> QED BY <1>1, ServerInvariant, PTL

\* For any number of connections, the store releases no event whose ack the
\* server has not accepted, although ack does not hold the monitor and a
\* rollback may come between its steps.
THEOREM ReleasesInOrder == ServerSpec => []OrderlyReleases
<1>1. ServerInv => OrderlyReleases
  BY DEF ServerInv, OrderInv, OrderlyReleases
<1> QED BY <1>1, ServerInvariant, PTL

-----------------------------------------------------------------------------
(* The cursor. *)

\* The slot of the last acked event still is its own: a put may take it when
\* the ring is full of unacked events.
AckedSlotKept == ackSequence # InitSequence => putSequence - ackSequence < BufferSize

\* A restart from e passes acked events only.
Resumable(e) == \E q \in 0..Len(Stream)-1 : e = Stream[q+1] /\ 0..q-1 \subseteq acked

CursorInv ==
  ~ torn =>
    /\ cursor # NoPosition => Resumable(cursor)
    /\ \A c \in Conn : pc[c] = "subscribe.updateCursor" => Resumable(range[c].ack)

\* What subscribe finds in the store.
LEMMA FirstPositionResumable ==
  ASSUME ServerInv, ~ torn, AckedSlotKept, FirstPosition # NoEvent
  PROVE  Resumable(FirstPosition)
<1>1. /\ putSequence \in Int /\ ackSequence \in Int /\ -1 <= ackSequence
      /\ ackSequence <= putSequence /\ StoreInv /\ UnackedRetained
      /\ putSequence # -1
  BY CursorFacts DEF ServerInv, StoreInv, Inv, FirstPosition, InitSequence
<1>2. CASE ackSequence = -1
  <2>1. FirstPosition = At(0).event /\ 0 \in ackSequence+1..putSequence
    BY <1>1, <1>2 DEF FirstPosition, InitSequence
  <2>2. FirstPosition = log[0+1]
    BY <1>1, <2>1 DEF UnackedRetained, Full
  <2>3. 0 \in 0..putSequence
    BY <1>1, <1>2, <2>1
  <2>4. FirstPosition = Stream[0+1] /\ 0 \in 0..Len(Stream)-1
    BY <1>1, <2>2, <2>3, FetchedFacts
  <2> QED BY <2>4 DEF Resumable
<1>3. CASE ackSequence # -1
  <2>1. FirstPosition = At(ackSequence).event
    BY <1>1, <1>3 DEF FirstPosition, InitSequence
  <2>2. ackSequence \in 0..putSequence /\ ackSequence > putSequence - BufferSize
    BY <1>1, <1>3, StoreAssumption DEF AckedSlotKept, InitSequence
  <2>3. At(ackSequence) # Empty
    BY <2>1 DEF Empty
  <2>4. FirstPosition = log[ackSequence+1]
    BY <1>1, <2>1, <2>2, <2>3 DEF StoreInv, SlotsHoldLog
  <2>5. FirstPosition = Stream[ackSequence+1] /\ ackSequence \in 0..Len(Stream)-1
    BY <1>1, <2>2, <2>4, FetchedFacts
  <2>6. 0..ackSequence-1 \subseteq acked
    BY <2>2 DEF ServerInv, OrderInv, ReleasedWereAcked
  <2> QED BY <2>5, <2>6 DEF Resumable
<1> QED BY <1>2, <1>3

\* What an ack writes is in its batch, which is acked with all before it.
LEMMA AckResumable ==
  ASSUME ServerInv, ~ torn, NEW c \in Conn, Acking(c), range[c].ack # NoEvent
  PROVE  Resumable(range[c].ack)
<1>1. RangeOK(range[c], fetched) /\ SeqsOf(range[c]) \subseteq acked /\ StoreInv
  BY DEF ServerInv, RangesOK
<1>2. PICK q \in SeqsOf(range[c]) : range[c].ack = Stream[q+1]
  BY <1>1, RangeFacts
<1>3. q \in 0..fetched /\ 0..q \subseteq acked
  BY <1>1, <1>2, RangeFacts DEF ServerInv, OrderInv
<1>4. q \in 0..Len(Stream)-1 /\ 0..q-1 \subseteq acked
  BY <1>1, <1>3, FetchedFacts
<1> QED BY <1>2, <1>4 DEF Resumable

LEMMA NextCursorInv ==
  ServerInv /\ ServerInv' /\ CursorInv /\ AckedSlotKept /\ [ServerNext]_serverVars => CursorInv'
<1> SUFFICES ASSUME ServerInv, ServerInv', CursorInv, AckedSlotKept,
                    [ServerNext]_serverVars, ~ torn'
             PROVE  /\ cursor' # NoPosition => Resumable(cursor)'
                    /\ \A c \in Conn : pc'[c] = "subscribe.updateCursor" =>
                                         Resumable(range[c].ack)'
  BY DEF CursorInv
<1>1. ~ torn /\ acked \subseteq acked'
  BY StepKinds DEF ServerInv, ServerTypeOK, Calm, FetchEffect, AddEffect, RemoveEffect,
     RollEffect, RollStoreEffect
<1>2. ASSUME NEW e, Resumable(e)
      PROVE  \E q \in 0..Len(Stream)-1 : e = Stream[q+1] /\ 0..q-1 \subseteq acked'
  BY <1>1, <1>2 DEF Resumable
<1>3. cursor' # NoPosition => Resumable(cursor)'
  <2>1. subscribed \in BOOLEAN
    BY DEF ServerInv, ServerTypeOK
  <2>2. CASE UNCHANGED cursor
    BY <1>1, <1>2, <2>2 DEF CursorInv, Resumable
  <2>3. ASSUME NEW c \in Conn, cursor' = range[c].ack, SubscribeUpdateCursor(c)
        PROVE  Resumable(cursor)'
    BY <1>1, <1>2, <2>3 DEF SubscribeUpdateCursor, CursorInv, Resumable
  <2>4. ASSUME NEW c \in Conn, cursor' = range[c].ack, AckUpdateCursor(c),
               range[c].ack # NoEvent
        PROVE  Resumable(cursor)'
    <3>1. Resumable(range[c].ack)
      BY <1>1, <2>4, AckResumable DEF AckUpdateCursor, Acking
    <3> QED BY <1>2, <2>4, <3>1 DEF Resumable
  <2> QED BY <2>1, <2>2, <2>3, <2>4, CursorWriters
<1>4. ASSUME NEW c \in Conn, pc'[c] = "subscribe.updateCursor"
      PROVE  Resumable(range[c].ack)'
  <2>1. Resumable(range'[c].ack)
    BY <1>1, <1>4, SubscribersFound, FirstPositionResumable, ServerAssumption
       DEF ServerInv, CursorInv
  <2> QED BY <1>2, <2>1 DEF Resumable
<1> QED BY <1>3, <1>4

\* For any number of connections and any stream, as long as the slot of the
\* last acked event is not taken by a put, the cursor never passes an event
\* the client has not acked, whichever of ack and subscribe wrote it.
THEOREM CursorBehindAcks == ServerSpec /\ []AckedSlotKept => []CursorWasAcked
<1>1. ServerInit => CursorInv
  BY DEF ServerInit, MetaInit, CursorInv
<1>2. ServerInv /\ CursorInv => CursorWasAcked
  <2> SUFFICES ASSUME ServerInv, CursorInv, ~ torn, cursor # NoPosition
               PROVE  0..SeqOf(cursor)-1 \subseteq acked
    BY DEF CursorWasAcked
  <2>1. PICK q \in 0..Len(Stream)-1 : cursor = Stream[q+1] /\ 0..q-1 \subseteq acked
    BY DEF CursorInv, Resumable
  <2> QED BY <2>1, SeqOfStream
<1> QED BY <1>1, <1>2, ServerInvariant, NextCursorInv, PTL DEF ServerSpec

=============================================================================
