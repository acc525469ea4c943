------------------------ MODULE GroupEventSinkProofs ------------------------
(***************************************************************************)
(* Proofs about GroupEventSink for any number of parsers, any lists that   *)
(* their transaction buffers flush and any number of faults.               *)
(***************************************************************************)
EXTENDS GroupEventSink, FiniteSetTheorems, TLAPS

Ev == [kind : {"BEGIN", "ROW", "DDL", "END"}, time : Nat]
Waiting == {"waiting", "woken"}
AtBarrier == {"single", "waiting", "woken", "store", "clear"}
Resting == {"idle", "broken"}
Steps == AtBarrier \cup Resting \cup {"await", "cleared", "leave 1", "leave 2"}

Entries == [parser : Parser, events : Seq(Ev), dump : Nat]

CountersTyped ==
  /\ index \in [Parser -> Nat] /\ sent \in [Parser -> Nat]
  /\ position \in [Parser -> Nat] /\ dump \in [Parser -> Nat]
BarrierTyped ==
  /\ interrupted \subseteq Parser /\ submitted \subseteq Parser
  /\ inTransaction \subseteq Parser
  /\ txState \in 0..2 /\ threshold \in Int /\ faults \in Nat
Typed ==
  /\ step \in [Parser -> Steps]
  /\ list \in [Parser -> Seq(Ev)]
  /\ log \in Seq(Entries)
  /\ CountersTyped /\ BarrierTyped

\* A parser sinks the list it has taken last or, after a restart, its last event.
Sinks(p) ==
  /\ index[p] \in 1..Len(list[p]) /\ sent[p] # 0
  /\ \/ list[p] = Lists[p][sent[p]]
     \/ list[p] = <<Last(Lists[p][sent[p]])>> /\ position[p] = sent[p]

\* While it waits it is in the queue, with a time stamp that may not pass.
Queued(p) ==
  /\ p \in submitted => step[p] \in AtBarrier
  /\ step[p] \in Waiting \cup {"single"} => p \in submitted
  /\ step[p] \in Waiting => threshold <= Current(p).time

ThreadOK(p) ==
  /\ index[p] \in 0..Len(list[p])
  /\ sent[p] \in 0..Len(Lists[p]) /\ position[p] \in 0..sent[p]
  /\ step[p] \notin Resting => Sinks(p)
  /\ Queued(p)

TypeInv == Typed /\ \A p \in Parser : ThreadOK(p)

Step(p) == ParserThread(p) \/ DumpFails(p) \/ Interrupt(p)

-----------------------------------------------------------------------------
(* The lists and the smallest time stamp. *)

LEMMA ListFacts ==
  ASSUME NEW p \in Parser, NEW i \in 1..Len(Lists[p])
  PROVE  /\ Lists[p][i] \in Seq(Ev) /\ Len(Lists[p][i]) \in Nat \ {0}
         /\ Last(Lists[p][i]) \in Ev
         /\ Lists[p] \in Seq(Seq(Ev))
<1>1. Lists[p] \in Seq(Seq(Ev) \ {<<>>})
  BY GroupAssumption DEF Ev
<1>2. Lists[p][i] \in Seq(Ev) /\ Lists[p][i] # <<>>
  BY <1>1
<1>3. Len(Lists[p][i]) \in Nat \ {0}
  BY <1>2
<1>4. Last(Lists[p][i]) \in Ev
  BY <1>2, <1>3 DEF Last
<1>5. Lists[p] \in Seq(Seq(Ev))
  BY <1>1
<1> QED BY <1>2, <1>3, <1>4, <1>5

LEMMA LeastTime ==
  ASSUME NEW S \in SUBSET Nat, S # {}
  PROVE  M!Min(S) \in S /\ \A s \in S : M!Min(S) <= s
<1>1. PICK s0 \in S : s0 \in Nat
  OBVIOUS
<1> DEFINE Low == {s \in S : s <= s0}
           Bad == {T \in SUBSET Low : T # {} /\ \A x \in T : \E y \in T : ~ (x <= y)}
<1>2. IsFiniteSet(Low)
  <2>1. Low \subseteq 0..s0
    <3>1. \A s \in Low : s \in Nat /\ s <= s0
      OBVIOUS
    <3> HIDE DEF Low
    <3> QED BY <1>1, <3>1
  <2>2. IsFiniteSet(0..s0)
    BY <1>1, FS_Interval
  <2> QED BY <2>1, <2>2, FS_Subset
<1>3. Bad = {}
  <2> SUFFICES ASSUME Bad # {} PROVE FALSE
    OBVIOUS
  <2>1. Bad \subseteq FiniteSubsetsOf(Low)
    BY <1>2, FS_FiniteSubsetsOfFinite
  <2> HIDE DEF Bad, Low
  <2>2. PICK T \in Bad : \A U \in Bad : ~ (<<U, T>> \in StrictSubsetOrdering(Low))
    BY <1>2, <2>1, FS_StrictSubsetOrderingWellFounded, WFMin
  <2>3. T \in SUBSET Low /\ T # {} /\ \A x \in T : \E y \in T : ~ (x <= y)
    BY <2>2 DEF Bad
  <2>4. PICK x \in T : TRUE
    BY <2>3
  <2>5. T \ {x} \notin Bad
    BY <2>2, <2>3, <2>4 DEF StrictSubsetOrdering
  <2>6. T \ {x} # {}
    <3>1. x \in Nat
      BY <2>3, <2>4 DEF Low
    <3> QED BY <2>3, <2>4, <3>1
  <2>7. PICK y \in T \ {x} : \A z \in T \ {x} : y <= z
    BY <2>3, <2>5, <2>6 DEF Bad
  <2>8. x \in Nat /\ y \in Nat /\ T \subseteq Nat
    BY <2>3, <2>4, <2>7 DEF Low
  <2>9. CASE x <= y
    BY <2>3, <2>4, <2>7, <2>8, <2>9
  <2>10. CASE ~ (x <= y)
    BY <2>3, <2>4, <2>7, <2>8, <2>10
  <2> QED BY <2>9, <2>10
<1>4. PICK x \in Low : \A y \in Low : x <= y
  <2>1. Low \in SUBSET Low /\ Low # {}
    BY <1>1
  <2> QED BY <1>3, <2>1
<1>5. x \in S /\ \A y \in S : x <= y
  BY <1>1, <1>4
<1> QED BY <1>5 DEF M!Min

\* The event a parser is at.
LEMMA CurrentIsEvent ==
  ASSUME TypeInv, NEW p \in Parser, step[p] \notin Resting
  PROVE  Current(p) \in Ev /\ Current(p).time \in Nat
<1>1. index[p] \in 1..Len(list[p]) /\ list[p] \in Seq(Ev)
  BY DEF TypeInv, Typed, ThreadOK, Sinks
<1>2. Current(p) \in Ev
  BY <1>1 DEF Current
<1> QED BY <1>2 DEF Ev

-----------------------------------------------------------------------------
(* What a step changes. *)

\* A step of one parser changes nothing of another but that it is woken.
Spared(q) ==
  /\ list'[q] = list[q] /\ index'[q] = index[q] /\ sent'[q] = sent[q]
  /\ position'[q] = position[q] /\ dump'[q] = dump[q]
  /\ q \in interrupted' <=> q \in interrupted
  /\ q \in submitted' <=> q \in submitted
  /\ step'[q] = step[q] \/ (step[q] = "waiting" /\ step'[q] = "woken")

LEMMA OthersSpared ==
  ASSUME TypeInv, NEW p \in Parser, Step(p), NEW q \in Parser, q # p
  PROVE  Spared(q)
<1> USE DEF TypeInv, Typed, CountersTyped, BarrierTyped, Spared
<1>1. CASE Flush(p)
  BY <1>1 DEF Flush, BeginSink, Recorded, barrierVars
<1>2. CASE Restart(p)
  BY <1>2 DEF Restart, BeginSink
<1>3. CASE Submit(p) \/ TakeMinimum(p) \/ Wake(p)
  BY <1>3 DEF Submit, TakeMinimum, Wake, EnterOrWait, SignalAll, parserVars
<1>4. CASE Store(p) \/ Clear(p) \/ DumpFails(p) \/ Interrupt(p)
  BY <1>4 DEF Store, Clear, DumpFails, Interrupt, parserVars, barrierVars
<1>5. CASE ReadState(p) \/ LeaveState(p)
  BY <1>5 DEF ReadState, LeaveState, CompareAndSet, Leave, Recorded
<1> QED BY <1>1, <1>2, <1>3, <1>4, <1>5 DEF Step, ParserThread

-----------------------------------------------------------------------------
(* Types. *)

\* Barrier steps: the threshold bounds the time stamps of those who wait.
Waits(p) == Submit(p) \/ TakeMinimum(p) \/ Wake(p)

LEMMA WaitersBounded ==
  ASSUME TypeInv, NEW p \in Parser, Waits(p)
  PROVE  /\ threshold' \in Int
         /\ \A q \in Parser : step'[q] \in Waiting => threshold' <= Current(q).time
<1>1. /\ step \in [Parser -> Steps] /\ threshold \in Int /\ submitted \subseteq Parser
      /\ \A q \in Parser : ThreadOK(q)
  BY DEF TypeInv, Typed, BarrierTyped
<1>2. \A q \in Parser : step[q] \notin Resting => Current(q).time \in Nat
  BY CurrentIsEvent
<1>3. \A q \in Parser : step[q] \in Waiting => q \in submitted /\ threshold <= Current(q).time
  BY <1>1 DEF ThreadOK, Queued
<1>4. CASE TakeMinimum(p)
  <2> DEFINE times == {Current(q).time : q \in submitted}
  <2>1. \A q \in submitted : step[q] \notin Resting
    BY <1>1 DEF ThreadOK, Queued, AtBarrier, Resting
  <2>2. times \in SUBSET Nat
    BY <1>1, <1>2, <2>1
  <2>3. p \in submitted
    BY <1>1, <1>4 DEF TakeMinimum, ThreadOK, Queued
  <2>4. times # {}
    BY <2>3
  <2>5. threshold' = M!Min(times)
    BY <1>4 DEF TakeMinimum
  <2> HIDE DEF times
  <2>6. M!Min(times) \in times /\ \A s \in times : M!Min(times) <= s
    BY <2>2, <2>4, LeastTime
  <2>7. \A q \in submitted : threshold' <= Current(q).time
    BY <2>5, <2>6 DEF times
  <2>8. \A q \in Parser : step'[q] \in Waiting => q \in submitted
    <3> SUFFICES ASSUME NEW q \in Parser, step'[q] \in Waiting PROVE q \in submitted
      OBVIOUS
    <3>1. CASE q = p
      BY <2>3, <3>1
    <3>2. CASE q # p
      <4>1. step[q] \in Waiting
        BY <1>4, <3>2, OthersSpared DEF Step, ParserThread, Spared, Waiting
      <4> QED BY <1>3, <4>1
    <3> QED BY <3>1, <3>2
  <2>9. threshold' \in Int
    <3>1. M!Min(times) \in Nat
      BY <2>2, <2>6
    <3> QED BY <2>5, <3>1
  <2> QED BY <2>7, <2>8, <2>9
<1>5. CASE Submit(p)
  <2>1. step[p] = "await" /\ \A q \in Parser : q # p => step'[q] = step[q]
    BY <1>1, <1>5 DEF Submit, EnterOrWait
  <2>2. \/ threshold' = -1
        \/ threshold' = threshold /\ step'[p] = "single"
    BY <1>1, <1>5 DEF Submit, LongMin
  <2>3. \A q \in Parser : step'[q] \in Waiting => step[q] \notin Resting
    BY <2>1 DEF Waiting, Resting
  <2> QED BY <1>1, <1>2, <1>3, <2>1, <2>2, <2>3 DEF Waiting
<1>6. CASE Wake(p)
  <2>1. step[p] = "woken" /\ threshold' = threshold /\ \A q \in Parser : q # p => step'[q] = step[q]
    BY <1>1, <1>6 DEF Wake, EnterOrWait
  <2> QED BY <1>1, <1>3, <2>1 DEF Waiting
<1> QED BY <1>4, <1>5, <1>6 DEF Waits

LEMMA EnterTyped ==
  ASSUME TypeInv, NEW p \in Parser, NEW awake \in [Parser -> Steps], EnterOrWait(p, awake)
  PROVE  /\ step' \in [Parser -> Steps] /\ step'[p] \in {"store", "clear", "waiting"}
         /\ step'[p] = "store" => index[p] = Len(list[p])
         /\ txState' \in 0..2 /\ inTransaction' \subseteq Parser
<1>1. txState \in 0..2 /\ inTransaction \subseteq Parser
  BY DEF TypeInv, Typed, BarrierTyped
<1>2. CASE Permitted(p)
  <2>1. txState' \in 0..2 /\ inTransaction' \subseteq Parser
    BY <1>1, <1>2 DEF EnterOrWait, Enter
  <2>2. step' = [awake EXCEPT ![p] = IF index[p] = Len(list[p]) THEN "store" ELSE "clear"]
    BY <1>2 DEF EnterOrWait
  <2> QED BY <2>1, <2>2 DEF Steps, AtBarrier
<1>3. CASE ~ Permitted(p)
  <2>1. step' = [awake EXCEPT ![p] = "waiting"] /\ UNCHANGED <<txState, inTransaction>>
    BY <1>3 DEF EnterOrWait
  <2> QED BY <1>1, <2>1 DEF Steps, AtBarrier
<1> QED BY <1>2, <1>3

LEMMA WaitsTyped ==
  ASSUME TypeInv, NEW p \in Parser, Waits(p) PROVE Typed'
<1>1. SignalAll \in [Parser -> Steps] /\ step \in [Parser -> Steps]
  BY DEF TypeInv, Typed, SignalAll, Steps, AtBarrier
<1>2. /\ UNCHANGED <<list, index, sent, position, dump, interrupted, log, faults>>
      /\ submitted' \subseteq Parser
  BY DEF TypeInv, Typed, BarrierTyped, Waits, Submit, TakeMinimum, Wake, parserVars
<1>3. \/ EnterOrWait(p, step) \/ EnterOrWait(p, SignalAll)
      \/ UNCHANGED <<txState, inTransaction>> /\ step' = [step EXCEPT ![p] = "single"]
  BY DEF Waits, Submit, TakeMinimum, Wake
<1>4. step' \in [Parser -> Steps] /\ txState' \in 0..2 /\ inTransaction' \subseteq Parser
  <2>1. CASE UNCHANGED <<txState, inTransaction>> /\ step' = [step EXCEPT ![p] = "single"]
    BY <1>1, <2>1 DEF TypeInv, Typed, BarrierTyped, Steps, AtBarrier
  <2> QED BY <1>1, <1>3, <2>1, EnterTyped
<1>5. threshold' \in Int
  BY WaitersBounded
<1> QED BY <1>2, <1>4, <1>5 DEF TypeInv, Typed, CountersTyped, BarrierTyped

LEMMA RecordedTyped ==
  ASSUME TypeInv, NEW p \in Parser, NEW events, sent' \in [Parser -> Nat]
  PROVE  Recorded(p, events) \in [Parser -> Nat]
BY DEF Recorded, TypeInv, Typed, CountersTyped

LEMMA NextTyped ==
  ASSUME TypeInv, NEW p \in Parser, Step(p) PROVE Typed'
<1>1. /\ Typed /\ CountersTyped /\ BarrierTyped /\ ThreadOK(p)
      /\ step \in [Parser -> Steps] /\ list \in [Parser -> Seq(Ev)] /\ log \in Seq(Entries)
  BY DEF TypeInv, Typed
<1>2. \A s \in Steps : [step EXCEPT ![p] = s] \in [Parser -> Steps]
  BY <1>1
<1>3. \A s \in {"await", "idle", "broken", "clear", "cleared", "leave 1", "leave 2"} : s \in Steps
  BY DEF Steps, AtBarrier, Resting
<1>4. CASE Flush(p)
  <2>1. sent[p] + 1 \in 1..Len(Lists[p])
    <3>1. sent[p] \in Nat /\ sent[p] < Len(Lists[p])
      BY <1>1, <1>4 DEF Flush, CountersTyped
    <3>2. Len(Lists[p]) \in Nat
      BY GroupAssumption
    <3> QED BY <3>1, <3>2
  <2>2. Lists[p][sent[p]+1] \in Seq(Ev)
    BY <2>1, ListFacts
  <2>3. sent' \in [Parser -> Nat]
    <3>1. sent' = [sent EXCEPT ![p] = sent[p] + 1]
      BY <1>4 DEF Flush
    <3> QED BY <1>1, <3>1 DEF CountersTyped
  <2>4. position' \in [Parser -> Nat]
    <3>1. position' = position \/ position' = Recorded(p, Lists[p][sent[p]+1])
      BY <1>4 DEF Flush
    <3>2. Recorded(p, Lists[p][sent[p]+1]) \in [Parser -> Nat]
      BY <2>3, RecordedTyped
    <3> QED BY <1>1, <3>1, <3>2 DEF CountersTyped
  <2>5. CASE UNCHANGED <<step, list, index>>
    BY <1>1, <1>4, <2>3, <2>4, <2>5 DEF Flush, Typed, CountersTyped, BarrierTyped, barrierVars
  <2>6. CASE BeginSink(p, Lists[p][sent[p]+1])
    <3>1. step' \in [Parser -> Steps]
      BY <1>2, <1>3, <2>6 DEF BeginSink
    <3>2. list' \in [Parser -> Seq(Ev)]
      BY <1>1, <2>2, <2>6 DEF BeginSink
    <3>3. index' \in [Parser -> Nat]
      BY <1>1, <2>6 DEF BeginSink, CountersTyped
    <3> QED BY <1>1, <1>4, <2>3, <2>4, <3>1, <3>2, <3>3
            DEF Flush, Typed, CountersTyped, BarrierTyped, barrierVars
  <2> QED BY <1>4, <2>5, <2>6 DEF Flush
<1>5. CASE Restart(p)
  <2>1. position[p] # 0 => position[p] \in 1..Len(Lists[p])
    <3>1. Len(Lists[p]) \in Nat
      BY GroupAssumption
    <3> QED BY <1>1, <3>1 DEF ThreadOK, CountersTyped
  <2>2. position[p] # 0 => <<Last(Lists[p][position[p]])>> \in Seq(Ev)
    <3>1. position[p] # 0 => Last(Lists[p][position[p]]) \in Ev
      BY <2>1, ListFacts
    <3> QED BY <3>1
  <2>3. /\ sent' \in [Parser -> Nat] /\ dump' \in [Parser -> Nat]
        /\ UNCHANGED <<position, threshold, submitted, log, faults>>
        /\ txState' \in 0..2 /\ inTransaction' \subseteq Parser /\ interrupted' \subseteq Parser
    BY <1>1, <1>5 DEF Restart, CountersTyped, BarrierTyped
  <2>4. CASE position[p] # 0 /\ BeginSink(p, <<Last(Lists[p][position[p]])>>)
    <3>1. step' \in [Parser -> Steps]
      BY <1>2, <1>3, <2>4 DEF BeginSink
    <3>2. list' \in [Parser -> Seq(Ev)]
      BY <1>1, <2>2, <2>4 DEF BeginSink
    <3>3. index' \in [Parser -> Nat]
      BY <1>1, <2>4 DEF BeginSink, CountersTyped
    <3> QED BY <1>1, <2>3, <3>1, <3>2, <3>3 DEF Typed, CountersTyped, BarrierTyped
  <2>5. CASE step' = [step EXCEPT ![p] = "idle"] /\ UNCHANGED <<list, index>>
    <3>1. step' \in [Parser -> Steps]
      BY <1>2, <1>3, <2>5
    <3> QED BY <1>1, <2>3, <2>5, <3>1 DEF Typed, CountersTyped, BarrierTyped
  <2> QED BY <1>5, <2>4, <2>5 DEF Restart
<1>6. CASE Waits(p)
  BY <1>6, WaitsTyped
<1>7. CASE Store(p)
  <2>1. [parser |-> p, events |-> list[p], dump |-> dump[p]] \in Entries
    <3>1. list[p] \in Seq(Ev) /\ dump[p] \in Nat
      BY <1>1 DEF CountersTyped
    <3> QED BY <3>1 DEF Entries
  <2>2. log' \in Seq(Entries)
    BY <1>1, <1>7, <2>1 DEF Store
  <2>3. step' \in [Parser -> Steps]
    BY <1>2, <1>3, <1>7 DEF Store
  <2> QED BY <1>1, <1>7, <2>2, <2>3
          DEF Store, Typed, CountersTyped, BarrierTyped, parserVars, barrierVars
<1>8. CASE Clear(p) \/ DumpFails(p) \/ Interrupt(p)
  <2>1. step' \in [Parser -> Steps]
    BY <1>2, <1>3, <1>8 DEF Clear, DumpFails, Interrupt
  <2>2. UNCHANGED <<list, index, sent, position, dump, log>>
    BY <1>8 DEF Clear, DumpFails, Interrupt, parserVars
  <2>3. BarrierTyped'
    BY <1>1, <1>8 DEF Clear, DumpFails, Interrupt, BarrierTyped, parserVars, barrierVars
  <2> QED BY <1>1, <2>1, <2>2, <2>3 DEF Typed, CountersTyped
<1>9. CASE ReadState(p) \/ LeaveState(p)
  <2>1. UNCHANGED <<list, sent, dump, log>>
    BY <1>9 DEF ReadState, LeaveState, CompareAndSet
  <2>2. BarrierTyped'
    <3>1. UNCHANGED <<interrupted, threshold, submitted, faults>>
      BY <1>9 DEF ReadState, LeaveState, CompareAndSet
    <3>2. inTransaction' \subseteq inTransaction
      BY <1>9 DEF ReadState, LeaveState, CompareAndSet
    <3>3. txState' \in {txState, 0}
      BY <1>9 DEF ReadState, LeaveState, CompareAndSet
    <3> QED BY <1>1, <3>1, <3>2, <3>3 DEF BarrierTyped
  <2>3. Leave(p) => /\ step' \in [Parser -> Steps] /\ index' \in [Parser -> Nat]
                    /\ position' \in [Parser -> Nat]
    <3>0. sent' \in [Parser -> Nat]
      BY <1>1, <2>1 DEF CountersTyped
    <3>1. Recorded(p, list[p]) \in [Parser -> Nat]
      BY <3>0, RecordedTyped
    <3>2. Leave(p) => step' \in [Parser -> Steps]
      BY <1>2, <1>3 DEF Leave
    <3>3. Leave(p) => index' \in [Parser -> Nat]
      <4>1. index \in [Parser -> Nat]
        BY <1>1 DEF CountersTyped
      <4>2. Leave(p) => index' = index \/ index' = [index EXCEPT ![p] = index[p] + 1]
        BY DEF Leave
      <4> QED BY <4>1, <4>2
    <3>4. Leave(p) => position' \in [Parser -> Nat]
      BY <1>1, <3>1 DEF Leave, CountersTyped
    <3> QED BY <3>2, <3>3, <3>4
  <2>4. step' \in [Parser -> Steps] /\ index' \in [Parser -> Nat] /\ position' \in [Parser -> Nat]
    BY <1>1, <1>2, <1>3, <1>9, <2>3 DEF ReadState, LeaveState, CompareAndSet, CountersTyped
  <2> QED BY <1>1, <2>1, <2>2, <2>4 DEF Typed, CountersTyped
<1> QED BY <1>4, <1>5, <1>6, <1>7, <1>8, <1>9 DEF Step, ParserThread, Waits

-----------------------------------------------------------------------------
(* The threads. *)

LEMMA ThresholdMoves ==
  ASSUME TypeInv, NEW p \in Parser, Step(p)
  PROVE  Waits(p) \/ threshold' = threshold
BY DEF Step, ParserThread, Waits, Flush, Restart, Store, Clear, ReadState, LeaveState,
   CompareAndSet, DumpFails, Interrupt, barrierVars

LEMMA SparedOK ==
  ASSUME TypeInv, NEW p \in Parser, Step(p), NEW q \in Parser, q # p PROVE ThreadOK(q)'
<1>1. ThreadOK(q) /\ Spared(q)
  BY OthersSpared DEF TypeInv
<1>2. /\ list'[q] = list[q] /\ index'[q] = index[q] /\ sent'[q] = sent[q]
      /\ position'[q] = position[q] /\ Current(q)' = Current(q)
  BY <1>1 DEF Spared, Current
<1>3. Sinks(q)' <=> Sinks(q)
  BY <1>2 DEF Sinks
<1>4. step'[q] \in Waiting => threshold' <= Current(q)'.time
  <2>1. CASE Waits(p)
    BY <1>2, <2>1, WaitersBounded
  <2>2. CASE threshold' = threshold
    BY <1>1, <1>2, <2>2 DEF ThreadOK, Queued, Spared, Waiting
  <2> QED BY <2>1, <2>2, ThresholdMoves
<1>5. Queued(q)'
  BY <1>1, <1>4 DEF ThreadOK, Queued, Spared, Waiting, AtBarrier
<1>6. step'[q] \notin Resting => step[q] \notin Resting
  BY <1>1 DEF Spared, Resting
<1> QED BY <1>1, <1>2, <1>3, <1>5, <1>6 DEF ThreadOK

\* What Recorded makes of the position of the parser itself.
LEMMA RecordedIn ==
  ASSUME TypeInv, NEW p \in Parser, NEW events
  PROVE  Recorded(p, events)[p] \in {position[p], sent'[p]}
BY DEF Recorded, TypeInv, Typed, CountersTyped

LEMMA ActingOK ==
  ASSUME TypeInv, NEW p \in Parser, Step(p) PROVE ThreadOK(p)'
<1>1. /\ ThreadOK(p) /\ Queued(p) /\ step \in [Parser -> Steps] /\ list \in [Parser -> Seq(Ev)]
      /\ Len(list[p]) \in Nat /\ Len(Lists[p]) \in Nat
  <2>1. ThreadOK(p) /\ step \in [Parser -> Steps] /\ list \in [Parser -> Seq(Ev)]
    BY DEF TypeInv, Typed
  <2> QED BY <2>1, GroupAssumption DEF ThreadOK
<1>2. /\ index \in [Parser -> Nat] /\ sent \in [Parser -> Nat] /\ position \in [Parser -> Nat]
  BY DEF TypeInv, Typed, CountersTyped
<1>3. CASE Flush(p)
  <2>1. sent'[p] = sent[p] + 1 /\ submitted' = submitted /\ step[p] = "idle" /\ sent[p] < Len(Lists[p])
    BY <1>2, <1>3 DEF Flush, barrierVars
  <2>2. p \notin submitted /\ sent'[p] \in 1..Len(Lists[p]) /\ sent[p] + 1 \in 1..Len(Lists[p])
    BY <1>1, <1>2, <2>1 DEF Queued, AtBarrier
  <2>3. CASE BeginSink(p, Lists[p][sent[p]+1]) /\ UNCHANGED position
    <3>1. list'[p] = Lists[p][sent[p]+1] /\ index'[p] = 1 /\ step'[p] = "await"
      BY <1>1, <1>2, <2>3 DEF BeginSink
    <3>2. index'[p] \in 1..Len(list'[p]) /\ index'[p] \in 0..Len(list'[p])
      BY <2>2, <3>1, ListFacts
    <3>3. Sinks(p)'
      BY <2>1, <2>2, <3>1, <3>2 DEF Sinks
    <3>4. Queued(p)'
      BY <2>1, <2>2, <3>1 DEF Queued, Waiting
    <3>5. position'[p] \in 0..sent'[p]
      BY <1>1, <1>2, <2>1, <2>3 DEF ThreadOK
    <3> QED BY <2>2, <3>2, <3>3, <3>4, <3>5 DEF ThreadOK
  <2>4. CASE /\ position' = Recorded(p, Lists[p][sent[p]+1])
             /\ UNCHANGED <<step, list, index>>
    <3>1. position'[p] \in 0..sent'[p]
      <4>1. position'[p] \in {position[p], sent'[p]}
        BY <2>4, RecordedIn
      <4> QED BY <1>1, <1>2, <2>1, <2>2, <4>1 DEF ThreadOK
    <3>2. Queued(p)' /\ step'[p] \in Resting
      BY <2>1, <2>2, <2>4 DEF Queued, Waiting, Resting
    <3> QED BY <1>1, <2>2, <2>4, <3>1, <3>2 DEF ThreadOK
  <2> QED BY <1>3, <2>3, <2>4 DEF Flush
<1>4. CASE Restart(p)
  <2>1. /\ sent'[p] = position[p] /\ position'[p] = position[p] /\ submitted' = submitted
        /\ step[p] = "broken"
    BY <1>2, <1>4 DEF Restart
  <2>2. p \notin submitted /\ position[p] \in 0..Len(Lists[p])
    BY <1>1, <1>2, <2>1 DEF Queued, AtBarrier, ThreadOK
  <2>3. CASE position[p] # 0 /\ BeginSink(p, <<Last(Lists[p][position[p]])>>)
    <3>1. list'[p] = <<Last(Lists[p][position[p]])>> /\ index'[p] = 1 /\ step'[p] = "await"
      BY <1>1, <1>2, <2>3 DEF BeginSink
    <3>2. index'[p] \in 1..Len(list'[p]) /\ index'[p] \in 0..Len(list'[p])
      BY <3>1
    <3>3. Sinks(p)'
      BY <2>1, <2>3, <3>1, <3>2 DEF Sinks
    <3>4. Queued(p)'
      BY <2>1, <2>2, <3>1 DEF Queued, Waiting
    <3> QED BY <1>2, <2>1, <2>2, <3>2, <3>3, <3>4 DEF ThreadOK
  <2>4. CASE step' = [step EXCEPT ![p] = "idle"] /\ UNCHANGED <<list, index>>
    <3>1. step'[p] = "idle"
      BY <1>1, <2>4
    <3>2. Queued(p)' /\ step'[p] \in Resting
      BY <2>1, <2>2, <3>1 DEF Queued, Waiting, Resting
    <3> QED BY <1>1, <1>2, <2>1, <2>2, <2>4, <3>2 DEF ThreadOK
  <2> QED BY <1>4, <2>3, <2>4 DEF Restart
<1>5. CASE /\ ~ Flush(p) /\ ~ Restart(p)
           /\ UNCHANGED <<list, index, sent, position>> /\ step[p] # "idle"
           /\ step'[p] \notin Resting => step[p] \notin Resting
  <2>1. Sinks(p)' <=> Sinks(p)
    BY <1>5 DEF Sinks
  <2>2. Queued(p)'
    <3>1. CASE Waits(p)
      <4>1. p \in submitted'
        BY <1>1, <3>1 DEF Waits, Submit, TakeMinimum, Wake, Queued, Waiting
      <4>2. step'[p] \in AtBarrier
        <5>1. SignalAll \in [Parser -> Steps]
          BY <1>1 DEF SignalAll, Steps, AtBarrier
        <5>2. \/ EnterOrWait(p, step) \/ EnterOrWait(p, SignalAll)
              \/ step' = [step EXCEPT ![p] = "single"]
          BY <3>1 DEF Waits, Submit, TakeMinimum, Wake
        <5> QED BY <1>1, <5>1, <5>2, EnterTyped DEF AtBarrier
      <4>3. step'[p] \in Waiting => threshold' <= Current(p)'.time
        BY <1>5, <3>1, WaitersBounded DEF Current
      <4> QED BY <4>1, <4>2, <4>3 DEF Queued
    <3>2. CASE Clear(p)
      BY <1>1, <3>2 DEF Clear, Queued, Waiting
    <3>3. CASE Store(p) \/ Interrupt(p)
      BY <1>1, <3>3 DEF Store, Interrupt, Queued, Waiting, AtBarrier, barrierVars
    <3>4. CASE DumpFails(p)
      BY <1>5, <3>4 DEF DumpFails
    <3>5. CASE ReadState(p) \/ LeaveState(p)
      <4>1. step[p] \in {"cleared", "leave 1", "leave 2"} /\ submitted' = submitted
        BY <3>5 DEF ReadState, LeaveState, CompareAndSet
      <4>2. step'[p] \notin Waiting \cup {"single"}
        BY <1>1, <3>5 DEF ReadState, LeaveState, CompareAndSet, Leave, Waiting
      <4> QED BY <1>1, <4>1, <4>2 DEF Queued, AtBarrier
    <3> QED BY <1>5, <3>1, <3>2, <3>3, <3>4, <3>5 DEF Step, ParserThread, Waits
  <2> QED BY <1>1, <1>5, <2>1, <2>2 DEF ThreadOK
<1>6. CASE DumpFails(p)
  <2>1. step'[p] = "broken" /\ step[p] = "idle" /\ UNCHANGED <<list, index, sent, position, submitted>>
    BY <1>1, <1>6 DEF DumpFails, parserVars, barrierVars
  <2>2. Queued(p)' /\ step'[p] \in Resting
    BY <1>1, <2>1 DEF Queued, Waiting, Resting, AtBarrier
  <2> QED BY <1>1, <2>1, <2>2 DEF ThreadOK
<1>7. CASE (ReadState(p) \/ LeaveState(p)) /\ ~ UNCHANGED <<index, position>>
  <2>1. /\ Leave(p) /\ p \notin interrupted /\ submitted' = submitted
        /\ UNCHANGED <<list, sent>> /\ step[p] \in {"cleared", "leave 1", "leave 2"}
    BY <1>7 DEF ReadState, LeaveState, CompareAndSet, Leave
  <2>2. p \notin submitted /\ Sinks(p)
    BY <1>1, <2>1 DEF Queued, AtBarrier, ThreadOK, Resting
  <2>3. CASE index[p] < Len(list[p])
    <3>1. index'[p] = index[p] + 1 /\ step'[p] = "await" /\ position' = position
      BY <1>1, <1>2, <2>1, <2>3 DEF Leave
    <3>2. index'[p] \in 1..Len(list'[p]) /\ index'[p] \in 0..Len(list'[p])
      <4>1. index[p] \in Nat /\ list'[p] = list[p]
        BY <1>2, <2>1
      <4> QED BY <1>1, <2>3, <3>1, <4>1
    <3>3. Sinks(p)'
      BY <2>1, <2>2, <3>1, <3>2 DEF Sinks
    <3>4. Queued(p)'
      BY <2>1, <2>2, <3>1 DEF Queued, Waiting
    <3> QED BY <1>1, <2>1, <3>1, <3>2, <3>3, <3>4 DEF ThreadOK
  <2>4. CASE ~ (index[p] < Len(list[p]))
    <3>1. index' = index /\ step'[p] = "idle" /\ position' = Recorded(p, list[p])
      BY <1>1, <2>1, <2>4 DEF Leave
    <3>2. position'[p] \in 0..sent'[p]
      <4>1. position'[p] \in {position[p], sent'[p]}
        BY <3>1, RecordedIn
      <4>2. sent'[p] = sent[p] /\ sent[p] \in Nat /\ position[p] \in 0..sent[p]
        BY <1>1, <1>2, <2>1 DEF ThreadOK
      <4> QED BY <4>1, <4>2
    <3>3. Queued(p)' /\ step'[p] \in Resting
      BY <2>1, <2>2, <3>1 DEF Queued, Waiting, Resting
    <3> QED BY <1>1, <2>1, <3>1, <3>2, <3>3 DEF ThreadOK
  <2> QED BY <2>3, <2>4
<1>8. CASE Waits(p) \/ Store(p) \/ Clear(p) \/ Interrupt(p)
  <2>1. UNCHANGED <<list, index, sent, position>> /\ step[p] \notin Resting
    BY <1>8 DEF Waits, Submit, TakeMinimum, Wake, Store, Clear, Interrupt, parserVars, Resting
  <2> QED BY <1>3, <1>4, <1>5, <2>1 DEF Resting
<1>9. CASE (ReadState(p) \/ LeaveState(p)) /\ UNCHANGED <<index, position>>
  <2>1. UNCHANGED <<list, sent>> /\ step[p] \notin Resting
    BY <1>9 DEF ReadState, LeaveState, CompareAndSet, Resting
  <2> QED BY <1>3, <1>4, <1>5, <1>9, <2>1 DEF Resting
<1> QED BY <1>3, <1>4, <1>6, <1>7, <1>8, <1>9 DEF Step, ParserThread, Waits

LEMMA InitTypeInv == Init => TypeInv
<1> SUFFICES ASSUME Init PROVE TypeInv
  OBVIOUS
<1>1. CountersTyped /\ BarrierTyped
  BY DEF Init, CountersTyped, BarrierTyped, LongMin
<1>2. step \in [Parser -> Steps] /\ list \in [Parser -> Seq(Ev)] /\ log \in Seq(Entries)
  BY DEF Init, Steps, Resting
<1>3. ASSUME NEW p \in Parser PROVE ThreadOK(p)
  <2>1. Len(Lists[p]) \in Nat
    BY GroupAssumption
  <2> QED BY <2>1 DEF Init, ThreadOK, Queued, Resting, Waiting
<1> QED BY <1>1, <1>2, <1>3 DEF TypeInv, Typed

LEMMA NextTypeInv == TypeInv /\ [Next]_vars => TypeInv'
<1>1. ASSUME TypeInv, NEW p \in Parser, Step(p) PROVE TypeInv'
  <2>1. \A q \in Parser : ThreadOK(q)'
    BY <1>1, SparedOK, ActingOK
  <2> QED BY <1>1, <2>1, NextTyped DEF TypeInv
<1>2. ASSUME TypeInv, UNCHANGED vars PROVE TypeInv'
  BY <1>2 DEF TypeInv, vars, parserVars, barrierVars, Typed, CountersTyped, BarrierTyped,
     ThreadOK, Sinks, Queued, Current
<1> QED BY <1>1, <1>2 DEF Next, Step

\* For any number of parsers and whatever their lists and faults: a thread is at
\* a place of its list, a restart goes back to a list that was taken, and the
\* barrier knows its parsers.
THEOREM GroupTypeCorrect == GroupSpec => []GroupTypeOK
<1>1. TypeInv => GroupTypeOK
  BY DEF TypeInv, Typed, BarrierTyped, ThreadOK, GroupTypeOK, Steps, AtBarrier, Resting
<1> QED BY <1>1, InitTypeInv, NextTypeInv, PTL DEF GroupSpec

-----------------------------------------------------------------------------
(* Overtaking. *)

LEMMA NoneOvertaken ==
  ASSUME TypeInv, NEW r \in Parser, Step(r), NEW p \in Parser, NEW q \in Parser,
         txState = 0, txState' # 0, step'[p] \in {"store", "clear"},
         step[p] \in {"single", "woken"}, q # p, step[q] \in Waiting
  PROVE  Current(p).time <= Current(q).time
<1>1. /\ step \in [Parser -> Steps] /\ submitted \subseteq Parser /\ threshold \in Int
      /\ ThreadOK(p) /\ ThreadOK(q)
  BY DEF TypeInv, Typed, BarrierTyped
<1>2. q \in submitted /\ threshold <= Current(q).time
  BY <1>1 DEF ThreadOK, Queued, Waiting
<1>3. Current(p).time \in Nat /\ Current(q).time \in Nat
  BY CurrentIsEvent DEF Resting, Waiting
<1>4. r = p
  <2> SUFFICES ASSUME r # p PROVE FALSE
    OBVIOUS
  <2> QED BY OthersSpared DEF Spared
<1>5. CASE Wake(p)
  <2>1. Permitted(p) /\ threshold' = threshold
    BY <1>1, <1>5 DEF Wake, EnterOrWait
  <2> QED BY <1>1, <1>2, <1>3, <2>1 DEF Permitted, Inside
<1>6. CASE TakeMinimum(p)
  <2>1. SignalAll \in [Parser -> Steps]
    BY <1>1 DEF SignalAll, Steps, AtBarrier
  <2>2. Permitted(p)
    BY <1>6, <2>1 DEF TakeMinimum, EnterOrWait
  <2>3. SignalAll[q] \in Waiting /\ q # p
    BY <1>1 DEF SignalAll, Waiting
  <2>4. step'[q] \in Waiting
    BY <1>6, <2>1, <2>3 DEF TakeMinimum, EnterOrWait
  <2>5. threshold' \in Int /\ threshold' <= Current(q).time
    BY <1>6, <2>4, WaitersBounded DEF Waits
  <2> QED BY <1>3, <2>2, <2>5 DEF Permitted, Inside
<1>7. CASE Interrupt(p)
  BY <1>7 DEF Interrupt
<1> QED
  <2>1. \/ Flush(p) \/ Restart(p) \/ Submit(p) \/ TakeMinimum(p) \/ Wake(p) \/ Store(p)
        \/ Clear(p) \/ ReadState(p) \/ LeaveState(p) \/ DumpFails(p) \/ Interrupt(p)
    BY <1>4 DEF Step, ParserThread
  <2> QED BY <1>5, <1>6, <1>7, <2>1 DEF Flush, Restart, Submit, Store, Clear, ReadState, LeaveState, DumpFails

\* For any number of parsers, also after a reset: who enters a free barrier is
\* not later than anybody who waits there.
THEOREM NothingOvertakes == GroupSpec => NoOvertaking
<1> DEFINE Fair(p, q) ==
      /\ txState = 0 /\ txState' # 0 /\ step'[p] \in {"store", "clear"}
      /\ step[p] \in {"single", "woken"}
      /\ q # p /\ step[q] \in {"waiting", "woken"}
      => Current(p).time <= Current(q).time
<1>1. TypeInv /\ [Next]_vars => [\A p, q \in Parser : Fair(p, q)]_vars
  <2> SUFFICES ASSUME TypeInv, NEW r \in Parser, Step(r), NEW p \in Parser, NEW q \in Parser
               PROVE  Fair(p, q)
    BY DEF Next, Step
  <2> QED BY NoneOvertaken DEF Waiting
<1> QED BY <1>1, InitTypeInv, NextTypeInv, PTL DEF GroupSpec, NoOvertaking

-----------------------------------------------------------------------------
(* As long as there is no fault. *)

\* The places between the barrier's permission and the release of its state.
In == {"store", "clear", "cleared", "leave 1", "leave 2"}
Keeps(p) == step[p] \in In \/ p \in inTransaction

\* Who keeps the barrier, and in which state.
Holds(p) ==
  /\ p \in inTransaction => txState = 1 /\ step[p] \notin {"leave 1", "leave 2"}
  /\ step[p] \in In => \/ p \in inTransaction
                       \/ txState = 2 /\ step[p] # "leave 1"
                       \/ txState = 1 /\ step[p] = "leave 1"

\* No dump breaks, so that whole lists are sunk.
Unbroken(p) ==
  /\ step[p] # "broken" /\ p \notin interrupted
  /\ step[p] # "idle" => list[p] = Lists[p][sent[p]]

\* A parser is in its transaction from the BEGIN, or the open list before, on.
InItsTransaction(p) ==
  /\ (step[p] # "idle" /\ LeavesOpen(list[p])) =>
       \/ index[p] = 1 /\ list[p][1].kind = "BEGIN" /\ step[p] \notin In
       \/ p \in inTransaction
  /\ (step[p] = "idle" /\ sent[p] # 0 /\ LeavesOpen(Lists[p][sent[p]])) => p \in inTransaction

LastStored(p) ==
  step[p] \in In \ {"store"} /\ index[p] = Len(list[p]) =>
    /\ log # <<>>
    /\ log[Len(log)].parser = p /\ log[Len(log)].events = list[p]

LastOpen == log # <<>> /\ IsOpen(log[Len(log)]) => log[Len(log)].parser \in inTransaction

Adjacent == \A i \in 1..Len(log)-1 : IsOpen(log[i]) => log[i+1].parser = log[i].parser

Calm ==
  /\ \A p, q \in Parser : Keeps(p) /\ Keeps(q) => p = q
  /\ \A p \in Parser : Holds(p) /\ Unbroken(p) /\ InItsTransaction(p) /\ LastStored(p)
  /\ LastOpen /\ Adjacent

CalmInv == faults = 0 => Calm

-----------------------------------------------------------------------------
(* The streams, through all faults. *)

Has(n, p, k) == log[n].parser = p /\ log[n].events = Lists[p][k]
IsStored(p, k) == \E n \in DOMAIN log : Has(n, p, k)

\* What is left of a list before all of it is in the store.
Pending(p) ==
  /\ step[p] # "idle"
  /\ \/ step[p] \in {"await", "single", "waiting", "woken", "store", "broken"}
     \/ index[p] < Len(list[p])
     \/ p \in interrupted

TakenStored(p) ==
  \A i \in 1..sent[p] : HasRows(Lists[p][i]) =>
    IsStored(p, i) \/ (i = sent[p] /\ Pending(p))

\* A position is recorded when the list with its END has been stored.
RecordedStored(p) == \A i \in 1..position[p] : HasRows(Lists[p][i]) => IsStored(p, i)

InOrder(p) ==
  \A i \in 1..Len(Lists[p]) : HasRows(Lists[p][i]) =>
    \A n \in DOMAIN log : \A k \in i+1..Len(Lists[p]) :
      Has(n, p, k) => \E m \in 1..n-1 : Has(m, p, i)

StreamInv == \A p \in Parser : TakenStored(p) /\ RecordedStored(p) /\ InOrder(p)

LEMMA LogGrows ==
  ASSUME TypeInv, NEW p \in Parser, Step(p)
  PROVE  \/ log' = log
         \/ Store(p) /\ log' = Append(log, [parser |-> p, events |-> list[p], dump |-> dump[p]])
BY DEF Step, ParserThread, Flush, Restart, Submit, TakeMinimum, Wake, Store, Clear, ReadState,
   LeaveState, CompareAndSet, DumpFails, Interrupt

\* The store only appends: what was there stays where it was.
LEMMA LogKept ==
  ASSUME TypeInv, NEW p \in Parser, Step(p)
  PROVE  /\ log \in Seq(Entries) /\ Len(log) \in Nat /\ Len(log') \in Nat
         /\ DOMAIN log = 1..Len(log) /\ DOMAIN log' = 1..Len(log')
         /\ Len(log) <= Len(log')
         /\ \A n \in 1..Len(log) : log'[n] = log[n]
         /\ \A n \in 1..Len(log') : n \in 1..Len(log)
              \/ /\ Store(p) /\ n = Len(log) + 1
                 /\ log'[n].parser = p /\ log'[n].events = list[p]
<1>1. log \in Seq(Entries) /\ list[p] \in Seq(Ev) /\ dump[p] \in Nat
  BY DEF TypeInv, Typed, CountersTyped
<1>2. CASE log' = log
  BY <1>1, <1>2
<1>3. CASE Store(p) /\ log' = Append(log, [parser |-> p, events |-> list[p], dump |-> dump[p]])
  <2>1. [parser |-> p, events |-> list[p], dump |-> dump[p]] \in Entries
    BY <1>1 DEF Entries
  <2> QED BY <1>1, <1>3, <2>1
<1> QED BY <1>2, <1>3, LogGrows

LEMMA StoredStays ==
  ASSUME TypeInv, NEW p \in Parser, Step(p), NEW q \in Parser, NEW k, IsStored(q, k)
  PROVE  IsStored(q, k)'
<1>1. PICK n \in 1..Len(log) : Has(n, q, k)
  BY LogKept DEF IsStored
<1>2. n \in DOMAIN log' /\ log'[n] = log[n]
  BY LogKept
<1> QED BY <1>1, <1>2 DEF IsStored, Has

LEMMA SparedStreams ==
  ASSUME TypeInv, NEW p \in Parser, Step(p), NEW q \in Parser, q # p,
         TakenStored(q), RecordedStored(q), InOrder(q)
  PROVE  TakenStored(q)' /\ RecordedStored(q)' /\ InOrder(q)'
<1>1. Spared(q)
  BY OthersSpared
<1>2. Pending(q) => Pending(q)'
  BY <1>1 DEF Pending, Spared
<1>3. TakenStored(q)'
  BY <1>1, <1>2, StoredStays DEF TakenStored, Spared
<1>4. RecordedStored(q)'
  BY <1>1, StoredStays DEF RecordedStored, Spared
<1>5. InOrder(q)'
  <2> SUFFICES ASSUME NEW i \in 1..Len(Lists[q]), HasRows(Lists[q][i]),
                      NEW n \in DOMAIN log', NEW k \in i+1..Len(Lists[q]), Has(n, q, k)'
               PROVE  \E m \in 1..n-1 : Has(m, q, i)'
    BY DEF InOrder
  <2>1. n \in 1..Len(log) /\ log'[n] = log[n]
    BY LogKept DEF Has
  <2>2. PICK m \in 1..n-1 : Has(m, q, i)
    BY <2>1, LogKept DEF InOrder, Has
  <2>3. m \in 1..Len(log) /\ log'[m] = log[m]
    BY <2>1, <2>2, LogKept
  <2> QED BY <2>2, <2>3 DEF Has
<1> QED BY <1>3, <1>4, <1>5

\* Nothing is left to store of the list whose last event has left the barrier.
LEMMA ActingTaken ==
  ASSUME TypeInv, NEW p \in Parser, Step(p), TakenStored(p), RecordedStored(p)
  PROVE  TakenStored(p)'
<1>1. /\ ThreadOK(p)
      /\ index \in [Parser -> Nat] /\ sent \in [Parser -> Nat] /\ position \in [Parser -> Nat]
      /\ step \in [Parser -> Steps] /\ list \in [Parser -> Seq(Ev)]
  BY DEF TypeInv, Typed, CountersTyped
<1>2. CASE (Pending(p) => Pending(p)') /\ UNCHANGED sent
  BY <1>2, StoredStays DEF TakenStored
<1>3. CASE Flush(p)
  <2>1. sent'[p] = sent[p] + 1 /\ step[p] = "idle"
    BY <1>1, <1>3 DEF Flush
  <2>2. \A i \in 1..sent[p] : HasRows(Lists[p][i]) => IsStored(p, i)
    BY <2>1 DEF TakenStored, Pending
  <2>3. HasRows(Lists[p][sent[p]+1]) => Pending(p)'
    BY <1>1, <1>3 DEF Flush, BeginSink, Pending
  <2> SUFFICES ASSUME NEW i \in 1..sent'[p], HasRows(Lists[p][i])
               PROVE  IsStored(p, i)' \/ (i = sent'[p] /\ Pending(p)')
    BY DEF TakenStored
  <2>4. i \in 1..sent[p] \/ i = sent[p] + 1
    BY <1>1, <2>1
  <2> QED BY <2>1, <2>2, <2>3, <2>4, StoredStays
<1>4. CASE Restart(p)
  <2>1. sent'[p] = position[p]
    BY <1>1, <1>4 DEF Restart
  <2> QED BY <2>1, StoredStays DEF TakenStored, RecordedStored
<1>5. CASE Store(p)
  <2>1. UNCHANGED sent /\ Sinks(p) /\ position[p] \in 0..sent[p] /\ sent[p] \in Nat
    BY <1>1, <1>5 DEF Store, parserVars, ThreadOK, Resting
  <2>2. HasRows(Lists[p][sent[p]]) => IsStored(p, sent[p])'
    <3>1. CASE list[p] = Lists[p][sent[p]]
      <4> DEFINE n == Len(log) + 1
      <4>1. n \in 1..Len(log') /\ ~ (n \in 1..Len(log))
        BY <1>5, LogKept DEF Store
      <4> HIDE DEF n
      <4>2. log'[n].parser = p /\ log'[n].events = list[p]
        BY <4>1, LogKept
      <4>3. n \in DOMAIN log'
        BY <4>1, LogKept
      <4> QED BY <3>1, <2>1, <4>2, <4>3 DEF IsStored, Has
    <3>2. CASE position[p] = sent[p]
      <4>1. sent[p] \in 1..position[p]
        BY <2>1, <3>2 DEF Sinks
      <4>2. PICK k : k = sent[p]
        OBVIOUS
      <4>3. HasRows(Lists[p][k]) => IsStored(p, k)'
        BY <4>1, <4>2, StoredStays DEF RecordedStored
      <4>4. k = sent'[p]
        BY <2>1, <4>2
      <4> QED BY <4>2, <4>3, <4>4 DEF IsStored, Has
    <3> QED BY <2>1, <3>1, <3>2 DEF Sinks
  <2> SUFFICES ASSUME NEW i \in 1..sent'[p], HasRows(Lists[p][i])
               PROVE  IsStored(p, i)' \/ (i = sent'[p] /\ Pending(p)')
    BY DEF TakenStored
  <2>3. IsStored(p, i) \/ i = sent[p]
    BY <2>1 DEF TakenStored
  <2> QED BY <2>1, <2>2, <2>3, StoredStays
<1>6. CASE Waits(p)
  <2>1. UNCHANGED <<sent, list, index, interrupted>> /\ Sinks(p)
    <3>1. UNCHANGED <<sent, list, index, interrupted>> /\ step[p] \notin Resting
      BY <1>6 DEF Waits, Submit, TakeMinimum, Wake, parserVars, Resting
    <3> QED BY <1>1, <3>1 DEF ThreadOK
  <2>2. step'[p] \in {"single", "waiting", "store"} \/ (step'[p] = "clear" /\ index[p] # Len(list[p]))
    <3>1. SignalAll \in [Parser -> Steps]
      BY <1>1 DEF SignalAll, Steps, AtBarrier
    <3>2. \/ EnterOrWait(p, step) \/ EnterOrWait(p, SignalAll)
          \/ step' = [step EXCEPT ![p] = "single"]
      BY <1>6 DEF Waits, Submit, TakeMinimum, Wake
    <3> QED BY <1>1, <3>1, <3>2 DEF EnterOrWait
  <2>3. step'[p] = "clear" => index[p] < Len(list[p])
    BY <1>1, <2>1, <2>2 DEF Sinks
  <2>4. Pending(p)'
    BY <2>1, <2>2, <2>3 DEF Pending
  <2> QED BY <1>2, <2>1, <2>4
<1>7. CASE Clear(p) \/ DumpFails(p) \/ Interrupt(p)
  <2>1. UNCHANGED <<sent, list, index>>
    BY <1>7 DEF Clear, DumpFails, Interrupt, parserVars
  <2>2. Pending(p) => Pending(p)'
    BY <1>1, <1>7, <2>1 DEF Clear, DumpFails, Interrupt, Pending, parserVars
  <2> QED BY <1>2, <2>1, <2>2
<1>8. CASE ReadState(p) \/ LeaveState(p)
  <2>1. /\ UNCHANGED <<list, sent, interrupted>> /\ step[p] \in {"cleared", "leave 1", "leave 2"}
        /\ \/ Leave(p)
           \/ step'[p] = "broken"
           \/ step'[p] \in {"leave 1", "leave 2"} /\ UNCHANGED index
    BY <1>1, <1>8 DEF ReadState, LeaveState, CompareAndSet
  <2>2. Pending(p) => Pending(p)'
    <3>1. CASE Leave(p)
      BY <1>1, <2>1, <3>1 DEF Leave, Pending
    <3>2. CASE step'[p] = "broken"
      BY <3>2 DEF Pending
    <3>3. CASE step'[p] \in {"leave 1", "leave 2"} /\ UNCHANGED index
      BY <2>1, <3>3 DEF Pending
    <3> QED BY <2>1, <3>1, <3>2, <3>3
  <2> QED BY <1>2, <2>1, <2>2
<1> QED BY <1>3, <1>4, <1>5, <1>6, <1>7, <1>8 DEF Step, ParserThread, Waits

\* A position moves to the list the parser has just handed over, or skipped.
LEMMA ActingRecorded ==
  ASSUME TypeInv, NEW p \in Parser, Step(p), TakenStored(p), RecordedStored(p)
  PROVE  RecordedStored(p)'
<1>1. CASE UNCHANGED position
  BY <1>1, StoredStays DEF RecordedStored
<1>2. CASE /\ position'[p] \in {position[p], sent'[p]}
           /\ step'[p] = "idle" /\ TakenStored(p)'
  <2>1. \A i \in 1..sent'[p] : HasRows(Lists[p][i]) => IsStored(p, i)'
    BY <1>2 DEF TakenStored, Pending
  <2> QED BY <1>2, <2>1, StoredStays DEF RecordedStored
<1>3. CASE ~ UNCHANGED position
  <2>1. Flush(p) \/ ReadState(p) \/ LeaveState(p)
    BY <1>3 DEF Step, ParserThread, Restart, Submit, TakeMinimum, Wake, Store, Clear,
       DumpFails, Interrupt, parserVars
  <2>2. \E events : position' = Recorded(p, events)
    BY <1>3, <2>1 DEF Flush, ReadState, LeaveState, CompareAndSet, Leave
  <2>3. position'[p] \in {position[p], sent'[p]}
    BY <2>2, RecordedIn
  <2>4. step'[p] = "idle"
    BY <1>3, <2>1 DEF Flush, ReadState, LeaveState, CompareAndSet, Leave, TypeInv, Typed
  <2> QED BY <1>2, <2>3, <2>4, ActingTaken
<1> QED BY <1>1, <1>3

\* What is stored next comes after all that was taken before.
LEMMA ActingInOrder ==
  ASSUME TypeInv, NEW p \in Parser, Step(p), TakenStored(p), InOrder(p)
  PROVE  InOrder(p)'
<1> SUFFICES ASSUME NEW i \in 1..Len(Lists[p]), HasRows(Lists[p][i]),
                    NEW n \in DOMAIN log', NEW k \in i+1..Len(Lists[p]), Has(n, p, k)'
             PROVE  \E m \in 1..n-1 : Has(m, p, i)'
  BY DEF InOrder
<1>1. CASE n \in 1..Len(log)
  <2>1. log'[n] = log[n]
    BY <1>1, LogKept
  <2>2. PICK m \in 1..n-1 : Has(m, p, i)
    BY <1>1, <2>1, LogKept DEF InOrder, Has
  <2>3. m \in 1..Len(log) /\ log'[m] = log[m]
    BY <1>1, <2>2, LogKept
  <2> QED BY <2>2, <2>3 DEF Has
<1>2. CASE ~ (n \in 1..Len(log))
  <2>1. Store(p) /\ n = Len(log) + 1 /\ list[p] = Lists[p][k]
    <3>1. n \in 1..Len(log')
      BY LogKept
    <3>2. Store(p) /\ n = Len(log) + 1 /\ log'[n].events = list[p]
      BY <1>2, <3>1, LogKept
    <3> QED BY <3>2 DEF Has
  <2>2. Sinks(p) /\ sent[p] \in 1..Len(Lists[p]) /\ Len(Lists[p]) \in Nat
    <3>1. ThreadOK(p) /\ step[p] = "store" /\ sent[p] \in Nat
      BY <2>1 DEF Store, TypeInv, Typed, CountersTyped
    <3>2. Sinks(p) /\ sent[p] \in 0..Len(Lists[p])
      BY <3>1 DEF ThreadOK, Resting
    <3>3. Len(Lists[p]) \in Nat /\ sent[p] # 0
      BY <3>2, GroupAssumption DEF Sinks
    <3> QED BY <3>1, <3>2, <3>3
  <2>3. k \in 1..Len(Lists[p]) /\ i \in Nat /\ k \in Nat /\ i < k
    BY <2>2
  <2>4. k = sent[p]
    <3>1. CASE k # sent[p]
      <4>1. Lists[p][k] # Lists[p][sent[p]] /\ Lists[p][k] # <<Last(Lists[p][sent[p]])>>
        BY <2>2, <2>3, <3>1, ListsAssumption
      <4> QED BY <2>1, <2>2, <4>1 DEF Sinks
    <3> QED BY <3>1
  <2>5. IsStored(p, i)
    <3>1. i \in 1..sent[p] /\ i # sent[p]
      BY <2>2, <2>3, <2>4
    <3> QED BY <3>1 DEF TakenStored
  <2>6. PICK m \in 1..Len(log) : Has(m, p, i)
    BY <2>5, LogKept DEF IsStored
  <2>7. m \in 1..n-1 /\ log'[m] = log[m]
    BY <2>1, <2>6, LogKept
  <2> QED BY <2>6, <2>7 DEF Has
<1> QED BY <1>1, <1>2

LEMMA NextStreamInv == TypeInv /\ StreamInv /\ [Next]_vars => StreamInv'
<1>1. ASSUME TypeInv, StreamInv, NEW p \in Parser, Step(p) PROVE StreamInv'
  <2>1. ASSUME NEW q \in Parser PROVE TakenStored(q)' /\ RecordedStored(q)' /\ InOrder(q)'
    <3>1. TakenStored(q) /\ RecordedStored(q) /\ InOrder(q)
      BY <1>1 DEF StreamInv
    <3>2. CASE q = p
      BY <1>1, <3>1, <3>2, ActingTaken, ActingRecorded, ActingInOrder
    <3>3. CASE q # p
      BY <1>1, <3>1, <3>3, SparedStreams
    <3> QED BY <3>2, <3>3
  <2> QED BY <2>1 DEF StreamInv
<1>2. ASSUME StreamInv, UNCHANGED vars PROVE StreamInv'
  BY <1>2 DEF vars, parserVars, StreamInv, TakenStored, RecordedStored, InOrder, Pending,
     IsStored, Has
<1> QED BY <1>1, <1>2 DEF Next, Step

LEMMA StreamInvKeepsStreams == TypeInv /\ StreamInv => StreamsKept
<1> SUFFICES ASSUME TypeInv, StreamInv, NEW p \in Parser,
                    NEW i \in 1..Len(Lists[p]), HasRows(Lists[p][i])
             PROVE  /\ sent[p] > i \/ (sent[p] = i /\ step[p] = "idle") => IsStored(p, i)
                    /\ \A n \in DOMAIN log : \A k \in i+1..Len(Lists[p]) :
                         Has(n, p, k) => \E m \in 1..n-1 : Has(m, p, i)
  BY DEF StreamsKept, IsStored, Has
<1>1. sent[p] > i \/ (sent[p] = i /\ step[p] = "idle") => IsStored(p, i)
  <2>1. sent[p] \in Nat
    BY DEF TypeInv, Typed, CountersTyped
  <2>2. TakenStored(p)
    BY DEF StreamInv
  <2>3. sent[p] > i => i \in 1..sent[p] /\ i # sent[p]
    BY <2>1
  <2>4. sent[p] = i /\ step[p] = "idle" => i \in 1..sent[p] /\ ~ Pending(p)
    BY <2>1 DEF Pending
  <2> QED BY <2>2, <2>3, <2>4 DEF TakenStored
<1> QED BY <1>1 DEF StreamInv, InOrder

\* For any number of parsers and lists, through any number of broken dumps,
\* interrupts and resets of the barrier: the data of a database is in the store
\* before any of its later lists, and when a list has been handed over.
THEOREM StreamsStay == GroupSpec => []StreamsKept
<1>1. Init => StreamInv
  <2> SUFFICES ASSUME Init, NEW p \in Parser
               PROVE  TakenStored(p) /\ RecordedStored(p) /\ InOrder(p)
    BY DEF StreamInv
  <2>1. sent[p] = 0 /\ position[p] = 0 /\ DOMAIN log = {}
    BY DEF Init
  <2> QED BY <2>1 DEF TakenStored, RecordedStored, InOrder
<1> QED BY <1>1, InitTypeInv, NextTypeInv, NextStreamInv, StreamInvKeepsStreams, PTL DEF GroupSpec

-----------------------------------------------------------------------------
(* Transactions are not mixed while nothing breaks. *)

\* A step after which there has been no fault; PassedBy(q): what is left of it
\* for the other threads.
CalmStep(p) ==
  Flush(p) \/ Waits(p) \/ Store(p) \/ Clear(p) \/ ReadState(p) \/ LeaveState(p)

LEMMA OnlyCalmSteps ==
  ASSUME TypeInv, CalmInv, NEW p \in Parser, Step(p), faults' = 0
  PROVE  Calm /\ CalmStep(p)
<1>1. faults \in Nat
  BY DEF TypeInv, Typed, BarrierTyped
<1>2. faults' \in {faults, faults + 1} /\ (DumpFails(p) \/ Interrupt(p) => faults' = faults + 1)
  BY DEF Step, ParserThread, Flush, Restart, Submit, TakeMinimum, Wake, Store, Clear, ReadState,
     LeaveState, CompareAndSet, DumpFails, Interrupt
<1>3. faults = 0 /\ ~ DumpFails(p) /\ ~ Interrupt(p)
  BY <1>1, <1>2
<1>4. Calm /\ step[p] # "broken"
  BY <1>3 DEF CalmInv, Calm, Unbroken
<1> QED BY <1>3, <1>4 DEF Step, ParserThread, CalmStep, Waits, Restart

LEMMA CalmIsStep ==
  ASSUME NEW p \in Parser, CalmStep(p) PROVE Step(p)
BY DEF CalmStep, Waits, Step, ParserThread

\* The state of the barrier is free only if nobody keeps it.
LEMMA FreeMeansKeptByNone ==
  ASSUME Calm, txState = 0, NEW q \in Parser PROVE ~ Keeps(q)
BY DEF Calm, Holds, Keeps

LEMMA OthersKeep ==
  ASSUME TypeInv, NEW p \in Parser, CalmStep(p), NEW q \in Parser, q # p
  PROVE  /\ Spared(q)
         /\ q \in inTransaction' <=> q \in inTransaction
         /\ step'[q] \in In <=> step[q] \in In
         /\ step'[q] \in In => step'[q] = step[q]
<1>1. Spared(q)
  BY CalmIsStep, OthersSpared
<1>2. q \in inTransaction' <=> q \in inTransaction
  BY DEF CalmStep, Waits, Flush, Submit, TakeMinimum, Wake, EnterOrWait, Enter, Store, Clear,
     ReadState, LeaveState, CompareAndSet, barrierVars
<1> QED BY <1>1, <1>2 DEF Spared, In

\* What a wait at the barrier comes to.
LEMMA WaitsMove ==
  ASSUME TypeInv, NEW p \in Parser, Waits(p)
  PROVE  /\ UNCHANGED <<list, index, sent, position, dump, interrupted, log>>
         /\ step[p] \in {"await", "single", "woken"}
         /\ \/ /\ step'[p] \in {"single", "waiting"}
               /\ UNCHANGED <<txState, inTransaction>>
            \/ /\ step'[p] = "store" \/ (step'[p] = "clear" /\ index[p] # Len(list[p]))
               /\ Inside(p) \/ txState = 0
               /\ Enter(p)
<1>1. step \in [Parser -> Steps] /\ SignalAll \in [Parser -> Steps]
  BY DEF TypeInv, Typed, SignalAll, Steps, AtBarrier
<1>2. /\ UNCHANGED <<list, index, sent, position, dump, interrupted, log>>
      /\ step[p] \in {"await", "single", "woken"}
  BY DEF Waits, Submit, TakeMinimum, Wake, parserVars
<1>3. \/ EnterOrWait(p, step) \/ EnterOrWait(p, SignalAll)
      \/ step' = [step EXCEPT ![p] = "single"] /\ UNCHANGED <<txState, inTransaction>>
  BY DEF Waits, Submit, TakeMinimum, Wake
<1>4. ASSUME NEW awake \in [Parser -> Steps], EnterOrWait(p, awake)
      PROVE  \/ /\ step'[p] = "waiting"
                /\ UNCHANGED <<txState, inTransaction>>
             \/ /\ step'[p] = "store" \/ (step'[p] = "clear" /\ index[p] # Len(list[p]))
                /\ Inside(p) \/ txState = 0
                /\ Enter(p)
  <2>1. CASE Permitted(p)
    <3>1. Enter(p) /\ (Inside(p) \/ txState = 0)
      BY <1>4, <2>1 DEF EnterOrWait, Permitted
    <3>2. step'[p] = IF index[p] = Len(list[p]) THEN "store" ELSE "clear"
      BY <1>4, <2>1 DEF EnterOrWait
    <3> QED BY <3>1, <3>2
  <2>2. CASE ~ Permitted(p)
    BY <1>4, <2>2 DEF EnterOrWait
  <2> QED BY <2>1, <2>2
<1> QED
  <2>1. CASE step' = [step EXCEPT ![p] = "single"] /\ UNCHANGED <<txState, inTransaction>>
    BY <1>1, <1>2, <2>1
  <2>2. CASE EnterOrWait(p, step)
    BY <1>1, <1>2, <1>4, <2>2
  <2>3. CASE EnterOrWait(p, SignalAll)
    BY <1>1, <1>2, <1>4, <2>3
  <2> QED BY <1>3, <2>1, <2>2, <2>3

\* What the release of the barrier comes to: the exceptions "state is not
\* correct" are out of reach.
LEMMA LeavesMove ==
  ASSUME TypeInv, Calm, NEW p \in Parser, ReadState(p) \/ LeaveState(p)
  PROVE  /\ UNCHANGED <<list, sent, dump, interrupted, log>>
         /\ step[p] \in {"cleared", "leave 1", "leave 2"}
         /\ \/ /\ step[p] = "cleared" /\ step'[p] = "leave 2" /\ txState = 2
               /\ UNCHANGED <<index, txState, inTransaction>>
            \/ /\ step[p] = "cleared" /\ step'[p] = "leave 1" /\ txState # 2
               /\ Current(p).kind = "END" /\ inTransaction' = inTransaction \ {p}
               /\ UNCHANGED <<index, txState>>
            \/ /\ step[p] = "cleared" /\ step'[p] \in {"await", "idle"} /\ txState # 2
               /\ Current(p).kind # "END"
               /\ UNCHANGED <<txState, inTransaction>>
            \/ /\ step[p] # "cleared" /\ step'[p] \in {"await", "idle"} /\ txState' = 0
               /\ UNCHANGED inTransaction
<1>1. step \in [Parser -> Steps] /\ Holds(p) /\ Unbroken(p)
  BY DEF TypeInv, Typed, Calm
<1>2. Leave(p) => step'[p] \in {"await", "idle"}
  BY <1>1 DEF Leave, Unbroken
<1>3. UNCHANGED <<list, sent, dump, interrupted, log>>
  BY DEF ReadState, LeaveState, CompareAndSet
<1>4. CASE ReadState(p)
  BY <1>1, <1>2, <1>3, <1>4 DEF ReadState
<1>5. CASE LeaveState(p)
  <2>1. \/ step[p] = "leave 1" /\ CompareAndSet(p, 1) /\ txState = 1
        \/ step[p] = "leave 2" /\ CompareAndSet(p, 2) /\ txState = 2
    BY <1>1, <1>5 DEF LeaveState, Holds, In
  <2> QED BY <1>2, <1>3, <2>1 DEF CompareAndSet
<1> QED BY <1>4, <1>5

LEMMA KeptByOne ==
  ASSUME TypeInv, Calm, NEW p \in Parser, CalmStep(p)
  PROVE  /\ \/ Keeps(p)' => Keeps(p)
            \/ \A q \in Parser : ~ Keeps(q)
         /\ Keeps(p) \/ txState = 0 \/ UNCHANGED txState
<1>1. CASE Flush(p)
  BY <1>1 DEF Flush, BeginSink, Keeps, In, TypeInv, Typed, barrierVars
<1>2. CASE Waits(p)
  <2>1. CASE step'[p] \in {"single", "waiting"} /\ UNCHANGED <<txState, inTransaction>>
    BY <2>1 DEF Keeps, In
  <2>2. CASE Inside(p)
    BY <2>2 DEF Inside, Keeps
  <2>3. CASE txState = 0
    BY <2>3, FreeMeansKeptByNone
  <2> QED BY <1>2, <2>1, <2>2, <2>3, WaitsMove
<1>3. CASE Store(p) \/ Clear(p) \/ ReadState(p) \/ LeaveState(p)
  BY <1>3 DEF Store, Clear, ReadState, LeaveState, Keeps, In
<1> QED BY <1>1, <1>2, <1>3 DEF CalmStep

LEMMA CalmHolds ==
  ASSUME TypeInv, Calm, NEW p \in Parser, CalmStep(p), NEW q \in Parser PROVE Holds(q)'
<1>1. Holds(q) /\ Holds(p)
  BY DEF Calm
<1>2. CASE q # p
  <2>1. CASE Keeps(q)
    <3>1. ~ Keeps(p) /\ txState # 0
      BY <1>2, <2>1, FreeMeansKeptByNone DEF Calm
    <3>2. UNCHANGED txState
      BY <3>1, KeptByOne
    <3> QED BY <1>1, <1>2, <3>2, OthersKeep DEF Holds, In, Spared
  <2>2. CASE ~ Keeps(q)
    BY <1>2, <2>2, OthersKeep DEF Holds, Keeps
  <2> QED BY <2>1, <2>2
<1>3. CASE q = p
  <2>1. CASE Flush(p)
    BY <1>1, <1>3, <2>1 DEF Flush, BeginSink, Holds, In, TypeInv, Typed, barrierVars
  <2>2. CASE Waits(p)
    <3>1. CASE step'[p] \in {"single", "waiting"} /\ UNCHANGED <<txState, inTransaction>>
      BY <1>1, <1>3, <3>1 DEF Holds, In
    <3>2. CASE step'[p] \in {"store", "clear"} /\ Inside(p) /\ Enter(p)
      BY <1>1, <1>3, <3>2 DEF Holds, In, Inside, Enter
    <3>3. CASE step'[p] \in {"store", "clear"} /\ txState = 0 /\ Enter(p)
      <4>1. p \notin inTransaction
        BY <3>3, FreeMeansKeptByNone DEF Keeps
      <4> QED BY <1>1, <1>3, <3>3, <4>1 DEF Holds, In, Inside, Enter
    <3> QED BY <2>2, <3>1, <3>2, <3>3, WaitsMove
  <2>3. CASE Store(p) \/ Clear(p)
    <3>1. UNCHANGED <<txState, inTransaction>> /\ step[p] \in {"store", "clear"}
          /\ step'[p] \in {"clear", "cleared"}
      BY <2>3 DEF Store, Clear, barrierVars, TypeInv, Typed
    <3> QED BY <1>1, <1>3, <3>1 DEF Holds, In
  <2>4. CASE ReadState(p) \/ LeaveState(p)
    <3>1. CASE /\ step[p] = "cleared" /\ step'[p] = "leave 2" /\ txState = 2
               /\ txState' = txState /\ inTransaction' = inTransaction
      <4>1. txState = 2
        BY <3>1
      <4>2. txState # 1
        BY <4>1
      <4>3. p \notin inTransaction' /\ txState' = 2
        BY <1>1, <3>1, <4>1, <4>2 DEF Holds
      <4> QED BY <1>3, <3>1, <4>3 DEF Holds, In
    <3>2. CASE /\ step[p] = "cleared" /\ step'[p] = "leave 1" /\ txState # 2 /\ txState' = txState
               /\ inTransaction' = inTransaction \ {p}
      <4>1. txState = 1 /\ p \notin inTransaction'
        BY <1>1, <3>2 DEF Holds, In
      <4> QED BY <1>3, <3>2, <4>1 DEF Holds, In
    <3>3. CASE /\ step[p] = "cleared" /\ step'[p] \in {"await", "idle"} /\ txState # 2
               /\ UNCHANGED <<txState, inTransaction>>
      BY <1>1, <1>3, <3>3 DEF Holds, In
    <3>4. CASE step'[p] \in {"await", "idle"} /\ step[p] # "cleared" /\ UNCHANGED inTransaction
      <4>1. p \notin inTransaction /\ step'[p] \notin In
        BY <1>1, <2>4, <3>4, LeavesMove DEF Holds, In
      <4> QED BY <1>3, <3>4, <4>1 DEF Holds
    <3> QED BY <2>4, <3>1, <3>2, <3>3, <3>4, LeavesMove
  <2> QED BY <1>3, <2>1, <2>2, <2>3, <2>4 DEF CalmStep
<1> QED BY <1>2, <1>3

LEMMA CalmUnbroken ==
  ASSUME TypeInv, Calm, NEW p \in Parser, CalmStep(p), NEW q \in Parser PROVE Unbroken(q)'
<1>1. Unbroken(q) /\ Unbroken(p) /\ step \in [Parser -> Steps] /\ list \in [Parser -> Seq(Ev)]
      /\ sent \in [Parser -> Nat]
  BY DEF Calm, TypeInv, Typed, CountersTyped
<1>2. CASE q # p
  BY <1>1, <1>2, OthersKeep DEF Unbroken, Spared
<1>3. CASE q = p
  <2>1. CASE Flush(p)
    BY <1>1, <1>3, <2>1 DEF Flush, BeginSink, Unbroken
  <2>2. CASE Waits(p)
    BY <1>1, <1>3, <2>2, WaitsMove DEF Unbroken
  <2>3. CASE Store(p) \/ Clear(p)
    BY <1>1, <1>3, <2>3 DEF Store, Clear, parserVars, Unbroken
  <2>4. CASE ReadState(p) \/ LeaveState(p)
    BY <1>1, <1>3, <2>4, LeavesMove DEF Unbroken
  <2> QED BY <1>3, <2>1, <2>2, <2>3, <2>4 DEF CalmStep
<1> QED BY <1>2, <1>3

\* An END closes the list it is in.
LEMMA EndCloses ==
  ASSUME TypeInv, Calm, NEW p \in Parser, step[p] # "idle", Current(p).kind = "END"
  PROVE  ~ LeavesOpen(list[p]) /\ index[p] = Len(list[p])
<1>1. Unbroken(p) /\ Sinks(p) /\ sent[p] \in 1..Len(Lists[p]) /\ Len(list[p]) \in Nat
  <2>1. Unbroken(p) /\ ThreadOK(p) /\ sent[p] \in Nat /\ list[p] \in Seq(Ev)
    BY DEF Calm, TypeInv, Typed, CountersTyped
  <2>2. Sinks(p) /\ sent[p] \in 0..Len(Lists[p]) /\ Len(Lists[p]) \in Nat
    BY <2>1, GroupAssumption DEF Unbroken, ThreadOK, Resting
  <2>3. sent[p] # 0
    BY <2>2 DEF Sinks
  <2> QED BY <2>1, <2>2, <2>3
<1>2. list[p] = Lists[p][sent[p]]
  BY <1>1 DEF Unbroken
<1>3. \A j \in 1..Len(list[p])-1 : list[p][j].kind # "END"
  BY <1>1, <1>2, ListsAssumption
<1>4. index[p] = Len(list[p])
  BY <1>1, <1>3 DEF Current, Sinks
<1> QED BY <1>4 DEF LeavesOpen, Last, Current

\* A list that leaves a transaction open begins it or goes on with it.
LEMMA OpenGoesOn ==
  ASSUME NEW p \in Parser, NEW i \in 1..Len(Lists[p]), LeavesOpen(Lists[p][i])
  PROVE  /\ HasRows(Lists[p][i])
         /\ Lists[p][i][1].kind = "BEGIN" \/ (i > 1 /\ LeavesOpen(Lists[p][i-1]))
BY ListsAssumption

LEMMA CalmInItsTransaction ==
  ASSUME TypeInv, Calm, NEW p \in Parser, CalmStep(p), NEW q \in Parser
  PROVE  InItsTransaction(q)'
<1>1. /\ Unbroken(p) /\ InItsTransaction(q) /\ InItsTransaction(p) /\ Holds(p) /\ ThreadOK(p)
      /\ step \in [Parser -> Steps] /\ list \in [Parser -> Seq(Ev)]
      /\ index \in [Parser -> Nat] /\ sent \in [Parser -> Nat]
  BY DEF Calm, TypeInv, Typed, CountersTyped
<1>2. CASE q # p
  <2>1. Spared(q) /\ (q \in inTransaction' <=> q \in inTransaction)
        /\ (step'[q] \in In <=> step[q] \in In)
    BY <1>2, OthersKeep
  <2> QED BY <1>1, <2>1 DEF InItsTransaction, Spared
<1>3. CASE q = p /\ Flush(p)
  <2>1. /\ step[p] = "idle" /\ sent'[p] = sent[p] + 1 /\ UNCHANGED inTransaction
        /\ sent[p] + 1 \in 1..Len(Lists[p])
    <3>1. step[p] = "idle" /\ sent'[p] = sent[p] + 1 /\ UNCHANGED inTransaction
          /\ sent[p] \in Nat /\ sent[p] < Len(Lists[p])
      BY <1>1, <1>3 DEF Flush, barrierVars
    <3>2. Len(Lists[p]) \in Nat
      BY GroupAssumption
    <3> QED BY <3>1, <3>2
  <2> DEFINE i == sent[p] + 1
  <2>2. CASE UNCHANGED <<step, list, index>> /\ ~ HasRows(Lists[p][i])
    <3>1. ~ LeavesOpen(Lists[p][i])
      BY <2>1, <2>2, OpenGoesOn
    <3> QED BY <1>3, <2>1, <2>2, <3>1 DEF InItsTransaction
  <2>3. CASE BeginSink(p, Lists[p][i])
    <3>1. step'[p] = "await" /\ index'[p] = 1 /\ list'[p] = Lists[p][i]
      BY <1>1, <2>3 DEF BeginSink
    <3>2. i > 1 /\ LeavesOpen(Lists[p][i-1]) => p \in inTransaction
      BY <1>1, <2>1 DEF InItsTransaction
    <3> HIDE DEF i
    <3>3. LeavesOpen(Lists[p][i]) => Lists[p][i][1].kind = "BEGIN" \/ p \in inTransaction
      <4>1. i \in 1..Len(Lists[p])
        BY <2>1 DEF i
      <4> QED BY <3>2, <4>1, OpenGoesOn
    <3> QED BY <1>3, <2>1, <3>1, <3>3 DEF InItsTransaction, In
  <2> QED BY <1>3, <2>2, <2>3 DEF Flush
<1>4. CASE q = p /\ Waits(p)
  <2>1. UNCHANGED <<list, index, sent>> /\ step[p] # "idle" /\ step'[p] # "idle"
    BY <1>4, WaitsMove
  <2>2. CASE step'[p] \in {"single", "waiting"} /\ UNCHANGED <<txState, inTransaction>>
    BY <1>1, <1>4, <2>1, <2>2 DEF InItsTransaction, In
  <2>3. CASE step'[p] \in {"store", "clear"} /\ (Inside(p) \/ txState = 0) /\ Enter(p)
    <3>1. inTransaction \subseteq inTransaction'
      BY <2>3 DEF Enter
    <3>2. index[p] = 1 /\ list[p][1].kind = "BEGIN" => p \in inTransaction'
      BY <2>3 DEF Enter, Inside, Current
    <3> QED BY <1>1, <1>4, <2>1, <3>1, <3>2 DEF InItsTransaction
  <2> QED BY <1>4, <2>2, <2>3, WaitsMove
<1>5. CASE q = p /\ (Store(p) \/ Clear(p))
  <2>1. /\ UNCHANGED <<list, index, sent, inTransaction>> /\ step[p] \in {"store", "clear"}
        /\ step'[p] \in {"clear", "cleared"}
    BY <1>1, <1>5 DEF Store, Clear, barrierVars, parserVars
  <2> QED BY <1>1, <1>5, <2>1 DEF InItsTransaction, In
<1>6. CASE q = p /\ (ReadState(p) \/ LeaveState(p))
  <2>1. UNCHANGED <<list, sent>> /\ step[p] \in {"cleared", "leave 1", "leave 2"}
    BY <1>6, LeavesMove
  <2>2. list[p] = Lists[p][sent[p]]
    BY <1>1, <2>1 DEF Unbroken
  <2>3. CASE ~ LeavesOpen(list[p])
    BY <1>6, <2>1, <2>2, <2>3 DEF InItsTransaction
  <2>4. CASE LeavesOpen(list[p])
    <3>1. p \in inTransaction
      BY <1>1, <2>1, <2>4 DEF InItsTransaction, In
    <3>2. inTransaction' = inTransaction
      <4>1. Current(p).kind # "END"
        BY <2>1, <2>4, EndCloses
      <4> QED BY <1>6, <4>1, LeavesMove
    <3> QED BY <1>6, <3>1, <3>2 DEF InItsTransaction
  <2> QED BY <2>3, <2>4
<1> QED BY <1>2, <1>3, <1>4, <1>5, <1>6 DEF CalmStep

\* The last entry of the log is the list whose last event is on its way out.
LEMMA CalmLastStored ==
  ASSUME TypeInv, Calm, NEW p \in Parser, CalmStep(p), NEW q \in Parser
  PROVE  LastStored(q)'
<1>1. /\ LastStored(q) /\ LastStored(p)
      /\ step \in [Parser -> Steps] /\ log \in Seq(Entries)
  BY DEF Calm, TypeInv, Typed
<1>2. CASE q # p
  <2>1. CASE step[q] \in In
    <3>1. ~ Store(p)
      BY <1>2, <2>1 DEF Calm, Keeps, Store, In
    <3>2. log' = log
      BY <3>1, LogGrows, CalmIsStep
    <3> QED BY <1>1, <1>2, <3>2, OthersKeep DEF LastStored, Spared
  <2>2. CASE step[q] \notin In
    BY <1>2, <2>2, OthersKeep DEF LastStored
  <2> QED BY <2>1, <2>2
<1>3. CASE q = p /\ step'[p] \notin In \ {"store"}
  BY <1>3 DEF LastStored
<1>4. CASE q = p /\ Flush(p)
  BY <1>1, <1>3, <1>4 DEF Flush, BeginSink, In
<1>5. CASE q = p /\ Waits(p)
  <2>1. UNCHANGED <<list, index>>
    BY <1>5, WaitsMove
  <2>2. CASE step'[p] = "clear" /\ index[p] # Len(list[p])
    BY <1>5, <2>1, <2>2 DEF LastStored
  <2>3. CASE step'[p] \in {"single", "waiting", "store"}
    BY <1>3, <1>5, <2>3 DEF In
  <2> QED BY <1>5, <2>2, <2>3, WaitsMove
<1>6. CASE q = p /\ Store(p)
  <2>1. /\ UNCHANGED <<list, index>> /\ step[p] = "store"
        /\ log' = Append(log, [parser |-> p, events |-> list[p], dump |-> dump[p]])
    BY <1>6 DEF Store, parserVars
  <2>2. Len(log') = Len(log) + 1
    BY <1>1, <2>1
  <2>3. Len(log') \in 1..Len(log') /\ ~ (Len(log') \in 1..Len(log))
    BY <2>2, LogKept, CalmIsStep
  <2>4. log'[Len(log')].parser = p /\ log'[Len(log')].events = list[p]
    BY <2>3, LogKept, CalmIsStep
  <2>5. log' # <<>>
    BY <2>2, <2>3
  <2> QED BY <1>6, <2>1, <2>4, <2>5 DEF LastStored
<1>7. CASE q = p /\ Clear(p)
  <2>1. UNCHANGED <<list, index, log>> /\ step[p] = "clear"
    BY <1>7 DEF Clear, parserVars
  <2> QED BY <1>1, <1>7, <2>1 DEF LastStored, In
<1>8. CASE q = p /\ (ReadState(p) \/ LeaveState(p))
  <2>1. UNCHANGED <<list, log>> /\ step[p] \in In \ {"store"}
    BY <1>8, LeavesMove DEF In
  <2>2. step'[p] \in {"await", "idle"} \/ UNCHANGED index
    BY <1>8, LeavesMove
  <2>3. CASE step'[p] \in {"await", "idle"}
    BY <1>3, <1>8, <2>3 DEF In
  <2>4. CASE UNCHANGED index
    BY <1>1, <1>8, <2>1, <2>4 DEF LastStored
  <2> QED BY <2>2, <2>3, <2>4
<1> QED BY <1>2, <1>4, <1>5, <1>6, <1>7, <1>8 DEF CalmStep

\* Two entries of the log next to each other.
LEMMA CalmLog ==
  ASSUME TypeInv, Calm, NEW p \in Parser, CalmStep(p)
  PROVE  LastOpen' /\ Adjacent'
<1>1. /\ LastOpen /\ Adjacent /\ InItsTransaction(p) /\ LastStored(p) /\ Holds(p)
      /\ log \in Seq(Entries) /\ Len(log) \in Nat
      /\ \A n \in 1..Len(log) : log[n].parser \in Parser
  <2>1. log \in Seq(Entries)
    BY DEF TypeInv, Typed
  <2>2. \A n \in 1..Len(log) : log[n] \in Entries
    BY <2>1
  <2>3. \A n \in 1..Len(log) : log[n].parser \in Parser
    BY <2>2 DEF Entries
  <2> QED BY <2>1, <2>3 DEF Calm
<1>2. CASE Store(p)
  <2>1. /\ UNCHANGED inTransaction /\ step[p] = "store"
        /\ log' = Append(log, [parser |-> p, events |-> list[p], dump |-> dump[p]])
    BY <1>2 DEF Store, barrierVars
  <2> DEFINE n == Len(log) + 1
  <2>2. Len(log') = n
    BY <1>1, <2>1
  <2>3. log'[n].parser = p /\ log'[n].events = list[p]
    <3>1. n \in 1..Len(log') /\ ~ (n \in 1..Len(log))
      BY <1>1, <2>2
    <3> HIDE DEF n
    <3> QED BY <3>1, LogKept, CalmIsStep
  <2>4. LastOpen'
    <3>1. LeavesOpen(list[p]) => p \in inTransaction
      BY <1>1, <2>1 DEF InItsTransaction, In
    <3> QED BY <2>1, <2>2, <2>3, <3>1 DEF LastOpen, IsOpen
  <2>5. Adjacent'
    <3> SUFFICES ASSUME NEW i \in 1..Len(log')-1, IsOpen(log'[i])
                 PROVE  log'[i+1].parser = log'[i].parser
      BY DEF Adjacent
    <3>1. i \in 1..Len(log) /\ log'[i] = log[i]
      BY <1>1, <2>2, LogKept, CalmIsStep
    <3>2. CASE i = Len(log)
      <4>1. log[i].parser \in inTransaction /\ log[i].parser \in Parser
        BY <1>1, <3>1, <3>2 DEF LastOpen
      <4>2. log[i].parser = p
        BY <2>1, <4>1 DEF Calm, Keeps, In
      <4> QED BY <2>3, <3>1, <3>2, <4>2
    <3>3. CASE i # Len(log)
      <4>1. i \in 1..Len(log)-1 /\ i+1 \in 1..Len(log)
        BY <1>1, <3>1, <3>3
      <4>2. log'[i+1] = log[i+1]
        BY <4>1, LogKept, CalmIsStep
      <4> QED BY <1>1, <3>1, <4>1, <4>2 DEF Adjacent
    <3> QED BY <3>2, <3>3
  <2> QED BY <2>4, <2>5
<1>3. CASE ~ Store(p)
  <2>1. log' = log
    BY <1>3, LogGrows, CalmIsStep
  <2>2. Adjacent'
    BY <1>1, <2>1 DEF Adjacent
  <2>3. LastOpen'
    <3> SUFFICES ASSUME log # <<>>, IsOpen(log[Len(log)])
                 PROVE  log[Len(log)].parser \in inTransaction'
      BY <2>1 DEF LastOpen
    <3> DEFINE r == log[Len(log)].parser
    <3>1. r \in inTransaction /\ r \in Parser
      <4>1. Len(log) \in 1..Len(log)
        BY <1>1
      <4> QED BY <1>1, <4>1 DEF LastOpen
    <3>2. CASE r # p
      BY <3>1, <3>2, OthersKeep
    <3>3. CASE r = p
      <4>1. CASE ReadState(p) \/ LeaveState(p)
        <5>1. CASE inTransaction' = inTransaction
          BY <3>1, <5>1
        <5>2. CASE step[p] = "cleared" /\ Current(p).kind = "END"
          <6>1. ~ LeavesOpen(list[p]) /\ index[p] = Len(list[p])
            BY <5>2, EndCloses
          <6>2. log[Len(log)].events = list[p]
            BY <1>1, <5>2, <6>1 DEF LastStored, In
          <6> QED BY <6>1, <6>2 DEF IsOpen
        <5> QED BY <4>1, <5>1, <5>2, LeavesMove
      <4>2. CASE Flush(p) \/ Waits(p) \/ Clear(p)
        <5>1. inTransaction \subseteq inTransaction'
          <6>1. CASE Flush(p) \/ Clear(p)
            BY <6>1 DEF Flush, Clear, barrierVars
          <6>2. CASE Waits(p)
            BY <6>2, WaitsMove DEF Enter
          <6> QED BY <4>2, <6>1, <6>2
        <5> QED BY <3>1, <5>1
      <4> QED BY <1>3, <4>1, <4>2 DEF CalmStep
    <3> QED BY <3>2, <3>3
  <2> QED BY <2>2, <2>3
<1> QED BY <1>2, <1>3

LEMMA NextCalmInv == TypeInv /\ CalmInv /\ [Next]_vars => CalmInv'
<1>1. ASSUME TypeInv, CalmInv, NEW p \in Parser, Step(p) PROVE CalmInv'
  <2> SUFFICES ASSUME faults' = 0 PROVE Calm'
    BY DEF CalmInv
  <2>1. Calm /\ CalmStep(p)
    BY <1>1, OnlyCalmSteps
  <2>2. ASSUME NEW q \in Parser, NEW r \in Parser, Keeps(q)', Keeps(r)' PROVE q = r
    <3>1. \A s \in Parser : s # p => (Keeps(s)' <=> Keeps(s))
      BY <1>1, <2>1, OthersKeep DEF Keeps
    <3>2. \/ Keeps(p)' => Keeps(p)
          \/ \A s \in Parser : ~ Keeps(s)
      BY <1>1, <2>1, KeptByOne
    <3> QED BY <2>1, <2>2, <3>1, <3>2 DEF Calm
  <2> QED BY <1>1, <2>1, <2>2, CalmHolds, CalmUnbroken, CalmInItsTransaction, CalmLastStored,
             CalmLog DEF Calm
<1>2. ASSUME CalmInv, UNCHANGED vars PROVE CalmInv'
  <2>1. UNCHANGED <<step, list, index, sent, interrupted, txState, inTransaction, log, faults>>
    BY <1>2 DEF vars, parserVars, barrierVars
  <2> QED BY <1>2, <2>1 DEF CalmInv, Calm, Keeps, Holds, Unbroken, InItsTransaction, LastStored,
             LastOpen, Adjacent
<1> QED BY <1>1, <1>2 DEF Next, Step

\* For any number of parsers, whatever their transactions and however they have
\* been split: until a first fault the lists of a transaction are next to each
\* other in the store and no dump breaks by the barrier's own exceptions.
THEOREM TransactionsUnmixed == GroupSpec => []UnmixedWithoutFaults
<1>1. Init => CalmInv
  <2> SUFFICES ASSUME Init PROVE Calm
    BY DEF CalmInv
  <2>1. \A p \in Parser : step[p] = "idle" /\ sent[p] = 0
    BY DEF Init
  <2>2. inTransaction = {} /\ interrupted = {} /\ log = <<>>
    BY DEF Init
  <2>3. \A p \in Parser : Holds(p) /\ Unbroken(p) /\ InItsTransaction(p) /\ LastStored(p) /\ ~ Keeps(p)
    BY <2>1, <2>2 DEF Holds, Unbroken, InItsTransaction, LastStored, Keeps, In
  <2> QED BY <2>2, <2>3 DEF Calm, LastOpen, Adjacent
<1>2. CalmInv => UnmixedWithoutFaults
  BY DEF CalmInv, Calm, Adjacent, Unbroken, UnmixedWithoutFaults, Unmixed
<1> QED BY <1>1, <1>2, InitTypeInv, NextTypeInv, NextCalmInv, PTL DEF GroupSpec

=============================================================================
