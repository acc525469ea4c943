------------------------- MODULE SearchIndexProofs --------------------------
(***************************************************************************)
(* Proofs about SearchIndex for any packages, entities, queries and number *)
(* of searches.  The scheduler never works with two timers, and never has  *)
(* work without one; what is listed, and still to be listed, is of the     *)
(* query the page names, and is the whole answer when nothing is left to   *)
(* run, or nothing if the query is malformed; and the keys keep to an item *)
(* of the list they are in.                                                *)
(*                                                                         *)
(* The scheduler is quiet, or armed with one timer; while a job runs, its  *)
(* timer has fired and its id is kept.  Which queue an index names does    *)
(* not matter for that, but it does for the second result: the search jobs *)
(* have the last queue to themselves.  For the third, the queue and the    *)
(* lists of the page are two parts of one order of jobs.                   *)
(***************************************************************************)
EXTENDS SearchIndex, TLAPS, SequenceTheorems, FiniteSetTheorems, WellFoundedInduction

Queues == [1..4 -> Seq(Jobset)]
NoJobs == [1..4 -> {<<>>}]
Labels == {Labelled.labels}

Armed == [labels : Labels, queues : Queues, timeout : {TRUE}, timers : {1}]
Running == [labels : Labels, queues : Queues, timeout : {TRUE}, timers : {0}]
Stopped == [labels : Labels, queues : Queues, timeout : {FALSE}, timers : {0}]
Quiet == [labels : Labels, queues : NoJobs, timeout : {FALSE}, timers : {0}]

Inv ==
  /\ sched \in Armed \cup Quiet
  /\ input \in Query \cup {None}

-----------------------------------------------------------------------------
(* The operations of the scheduler.                                        *)

LEMMA QuietIsStopped == Quiet \subseteq Stopped
<1>1. <<>> \in Seq(Jobset)
  OBVIOUS
<1>2. NoJobs \subseteq Queues
  BY <1>1 DEF NoJobs, Queues
<1>3. QED
  BY <1>2 DEF Quiet, Stopped

LEMMA DoWorkArms ==
  ASSUME NEW s \in Running \cup Stopped
  PROVE  DoWork(s) \in Armed
<1>1. CASE s \in Running
  <2>1. s.timers + 1 = 1
    BY <1>1 DEF Running
  <2>2. QED
    BY <1>1, <2>1 DEF Running, Armed, DoWork
<1>2. CASE s \in Stopped
  <2>1. s.timers + 1 = 1
    BY <1>2 DEF Stopped
  <2>2. QED
    BY <1>2, <2>1 DEF Stopped, Armed, DoWork
<1>3. QED
  BY <1>1, <1>2

\* The timer that fires was the only one, and its id is kept.
LEMMA FiredRuns ==
  ASSUME NEW s \in Armed
  PROVE  Fired(s) \in Running /\ Fired(s).queues = s.queues
<1>1. s.timers - 1 = 0
  BY DEF Armed
<1>2. QED
  BY <1>1 DEF Armed, Running, Fired

\* Another value for a queue is no more than that.
Requeued(s, i, q) == [s EXCEPT !.queues[i] = q]

LEMMA QueueReplaced ==
  ASSUME NEW s \in Armed \cup Running \cup Stopped, NEW i, NEW q,
         i \in 1..4 => q \in Seq(Jobset)
  PROVE  /\ s \in Armed => Requeued(s, i, q) \in Armed
         /\ s \in Running => Requeued(s, i, q) \in Running
         /\ s \in Stopped => Requeued(s, i, q) \in Stopped
         /\ Requeued(s, i, q).queues = [s.queues EXCEPT ![i] = q]
<1>1. [s.queues EXCEPT ![i] = q] \in Queues
  BY DEF Armed, Running, Stopped, Queues
<1>2. CASE s \in Armed
  BY <1>1, <1>2 DEF Armed, Running, Stopped, Requeued
<1>3. CASE s \in Running
  BY <1>1, <1>3 DEF Armed, Running, Stopped, Requeued
<1>4. CASE s \in Stopped
  BY <1>1, <1>4 DEF Armed, Running, Stopped, Requeued
<1>5. QED
  BY <1>2, <1>3, <1>4

\* add: while there is a timer it makes none, and else one.
LEMMA AddAllGuarded ==
  ASSUME NEW s, NEW name, NEW works \in Seq(Jobset)
  PROVE  /\ s \in Armed => AddAll(s, name, works) \in Armed
         /\ s \in Running => AddAll(s, name, works) \in Running
         /\ s \in Quiet => AddAll(s, name, works) \in Armed \cup Quiet
<1> DEFINE i == IndexOf(s, name)
           queue == s.queues[i] \o works
<1>1. ASSUME s \in Armed \cup Running \cup Stopped
      PROVE  i \in 1..4 => queue \in Seq(Jobset)
  <2>1. i \in 1..4 => s.queues[i] \in Seq(Jobset)
    BY <1>1 DEF Armed, Running, Stopped, Queues
  <2>2. QED
    BY <2>1, ConcatProperties
<1>2. AddAll(s, name, works) =
        IF works = <<>> \/ s.timeout THEN Requeued(s, i, queue) ELSE DoWork(Requeued(s, i, queue))
  BY DEF AddAll, Requeued
<1> HIDE DEF i, queue
<1>3. ASSUME s \in Armed \cup Running
      PROVE  AddAll(s, name, works) = Requeued(s, i, queue)
  <2>1. s.timeout
    BY <1>3 DEF Armed, Running
  <2>2. QED
    BY <1>2, <2>1
<1>4. ASSUME s \in Quiet, works # <<>>
      PROVE  AddAll(s, name, works) \in Armed
  <2>1. ~s.timeout
    BY <1>4 DEF Quiet
  <2>2. Requeued(s, i, queue) \in Stopped
    BY <1>1, <1>4, QuietIsStopped, QueueReplaced
  <2>3. QED
    BY <1>2, <1>4, <2>1, <2>2, DoWorkArms
<1>5. ASSUME s \in Quiet, works = <<>>
      PROVE  AddAll(s, name, works) \in Quiet
  <2>1. i \in 1..4 => queue = <<>>
    BY <1>5 DEF Quiet, NoJobs, queue
  <2>2. [s.queues EXCEPT ![i] = queue] \in NoJobs
    BY <1>5, <2>1 DEF Quiet, NoJobs
  <2>3. Requeued(s, i, queue) \in Quiet
    BY <1>5, <2>2 DEF Quiet, Requeued
  <2>4. QED
    BY <1>2, <1>5, <2>3
<1>6. s \in Armed \cup Running =>
        /\ s \in Armed => Requeued(s, i, queue) \in Armed
        /\ s \in Running => Requeued(s, i, queue) \in Running
  BY <1>1, QueueReplaced
<1>7. QED
  BY <1>3, <1>4, <1>5, <1>6

LEMMA AddGuarded ==
  ASSUME NEW s, NEW name, NEW work \in Jobset
  PROVE  /\ s \in Armed => Add(s, name, work) \in Armed
         /\ s \in Running => Add(s, name, work) \in Running
         /\ s \in Quiet => Add(s, name, work) \in Armed \cup Quiet
<1>1. <<work>> \in Seq(Jobset)
  OBVIOUS
<1>2. QED
  BY <1>1, AddAllGuarded DEF Add

LEMMA ClearGuarded ==
  ASSUME NEW s, NEW name
  PROVE  /\ s \in Armed => Clear(s, name) \in Armed
         /\ s \in Quiet => Clear(s, name) \in Quiet
<1> DEFINE i == IndexOf(s, name)
<1>1. Clear(s, name) = Requeued(s, i, <<>>)
  BY DEF Clear, Requeued
<1> HIDE DEF i
<1>2. <<>> \in Seq(Jobset)
  OBVIOUS
<1>3. ASSUME s \in Quiet PROVE Requeued(s, i, <<>>) \in Quiet
  <2>1. [s.queues EXCEPT ![i] = <<>>] \in NoJobs
    BY <1>3 DEF Quiet, NoJobs
  <2>2. QED
    BY <1>3, <2>1 DEF Quiet, Requeued
<1>4. s \in Armed => Requeued(s, i, <<>>) \in Armed
  BY <1>2, QueueReplaced
<1>5. QED
  BY <1>1, <1>3, <1>4

\* The first queue with a job.
LEMMA NextQueueHasWork ==
  ASSUME NEW s \in Running, HasWork(s)
  PROVE  NextIndex(s) \in 1..4 /\ s.queues[NextIndex(s)] # <<>>
<1>1. DOMAIN s.queues = 1..4
  BY DEF Running, Queues
<1>2. \E k \in 1..4 : s.queues[k] # <<>>
  BY <1>1 DEF HasWork
<1>3. 1..0 = {} /\ 1..1 = {1} /\ 1..2 = {1, 2} /\ 1..3 = {1, 2, 3} /\ 1..4 = {1, 2, 3, 4}
  OBVIOUS
<1>4. \E k \in 1..4 : s.queues[k] # <<>> /\ \A j \in 1..(k - 1) : s.queues[j] = <<>>
  <2>1. CASE s.queues[1] # <<>>
    BY <2>1
  <2>2. CASE s.queues[1] = <<>> /\ s.queues[2] # <<>>
    BY <2>2
  <2>3. CASE s.queues[1] = <<>> /\ s.queues[2] = <<>> /\ s.queues[3] # <<>>
    BY <2>3
  <2>4. CASE s.queues[1] = <<>> /\ s.queues[2] = <<>> /\ s.queues[3] = <<>>
    BY <1>2, <2>4
  <2>5. QED
    BY <2>1, <2>2, <2>3, <2>4
<1>5. QED
  BY <1>1, <1>4 DEF NextIndex

\* The job that is taken is a job.
LEMMA TakenRunning ==
  ASSUME NEW s \in Running, HasWork(s)
  PROVE  Taken(s) \in Running /\ NextWork(s) \in Jobset
<1> DEFINE i == NextIndex(s)
<1>1. i \in 1..4 /\ s.queues[i] # <<>>
  BY NextQueueHasWork
<1>2. s.queues[i] \in Seq(Jobset)
  BY <1>1 DEF Running, Queues
<1>3. Head(s.queues[i]) \in Jobset /\ Tail(s.queues[i]) \in Seq(Jobset)
  BY <1>1, <1>2, HeadTailProperties
<1>4. Taken(s) = Requeued(s, i, Tail(s.queues[i]))
  BY DEF Taken, Requeued
<1> HIDE DEF i
<1>5. Requeued(s, i, Tail(s.queues[i])) \in Running
  BY <1>3, QueueReplaced
<1>6. NextWork(s) = Head(s.queues[i])
  BY DEF NextWork, i
<1>7. QED
  BY <1>3, <1>4, <1>5, <1>6

\* Without work the id of the timer is forgotten.
LEMMA IdleQuiet ==
  ASSUME NEW s \in Running, ~HasWork(s)
  PROVE  Idle(s) \in Quiet
<1>1. s.queues \in NoJobs
  BY DEF Running, Queues, NoJobs, HasWork
<1>2. QED
  BY <1>1 DEF Running, Quiet, Idle

-----------------------------------------------------------------------------
(* The jobs of this page.                                                  *)

LEMMA JobsAreJobs ==
  /\ ConfigureJobs \in Seq(Jobset)
  /\ \A query \in Query : PackageJobs(query) \in Seq(Jobset)
  /\ Job("navigate", None, None) \in Jobset
<1>1. ConfigureJobs \in Seq(Jobset)
  <2>1. \A i \in 1..3 : Job(<<"bindKeyup", "bindClear", "bindClose">>[i], None, None) \in Jobset
    BY DEF Job, Jobset
  <2>2. QED
    BY <2>1 DEF ConfigureJobs
<1>2. ASSUME NEW query \in Query
      PROVE  PackageJobs(query) \in Seq(Jobset)
  <2>1. DOMAIN Packages = 1..Len(Packages) /\ Len(Packages) \in Nat
    BY SearchConstants
  <2>2. \A i \in DOMAIN Packages : Packages[i] \in Range(Packages)
    BY DEF Range
  <2>3. \A i \in DOMAIN Packages : Job("package", Packages[i], query) \in Jobset
    BY <2>2 DEF Job, Jobset
  <2>4. CASE query \in Malformed
    BY <2>4 DEF PackageJobs
  <2>5. CASE query \notin Malformed
    BY <2>1, <2>3, <2>5 DEF PackageJobs
  <2>6. QED
    BY <2>4, <2>5
<1>3. Job("navigate", None, None) \in Jobset
  BY DEF Job, Jobset
<1>4. QED
  BY <1>1, <1>2, <1>3

\* searchAll, for a text or none.
LEMMA SearchAllGuarded ==
  ASSUME NEW s \in Armed \cup Quiet, NEW text \in Query \cup {None}
  PROVE  SearchAllJobs(s, text) \in Armed \cup Quiet
<1>1. Clear(s, "search") \in Armed \cup Quiet
  BY ClearGuarded
<1>2. CASE text = None
  BY <1>1, <1>2 DEF SearchAllJobs
<1>3. CASE text # None
  <2>1. PackageJobs(text) \in Seq(Jobset)
    BY <1>3, JobsAreJobs
  <2>2. QED
    BY <1>1, <1>3, <2>1, AddAllGuarded DEF SearchAllJobs
<1>4. QED
  BY <1>2, <1>3

-----------------------------------------------------------------------------
(* The labels of the page come in the order of their priorities, so that   *)
(* each is put behind the others, with an empty queue.                     *)

Label(name, priority) == [name |-> name, priority |-> priority]
Names == {"init", "focus", "filter", "search"}
Labelset == [name : Names, priority : Nat]
Unused == [labels : Seq(Labelset), queues : Seq({<<>>}), timeout : {FALSE}, timers : {0}]

LEMMA LastIsBehindAll ==
  ASSUME NEW s, NEW n \in Nat, DOMAIN s.labels = 1..n, NEW priority,
         \A i \in 1..n : s.labels[i].priority <= priority
  PROVE  Before(s, priority) = n
<1>1. {i \in DOMAIN s.labels : \A j \in 1..i : s.labels[j].priority <= priority} = 1..n
  OBVIOUS
<1>2. Cardinality(1..n) = n
  BY FS_Interval
<1>3. QED
  BY <1>1, <1>2 DEF Before

LEMMA InsertedLast ==
  ASSUME NEW S, NEW q \in Seq(S), NEW e \in S
  PROVE  InsertAt(q, Len(q) + 1, e) = Append(q, e)
<1> DEFINE idx == Len(q) + 1
<1>1. Len(q) \in Nat /\ idx - 1 = Len(q) /\ idx \in Int /\ Len(q) < idx
  BY LenProperties
<1> HIDE DEF idx
<1>2. SubSeq(q, 1, idx - 1) = q
  BY <1>1, SubSeqFull
<1>3. SubSeq(q, idx, Len(q)) = <<>>
  BY <1>1, SubSeqEmpty
<1>4. InsertAt(q, idx, e) = q \o <<e>> \o <<>>
  BY <1>2, <1>3 DEF InsertAt
<1>5. q \o <<e>> \in Seq(S)
  OBVIOUS
<1>6. q \o <<e>> \o <<>> = q \o <<e>>
  BY <1>5, ConcatEmptySeq
<1>7. QED
  BY <1>4, <1>6, AppendIsConcat DEF idx

LEMMA AddedLast ==
  ASSUME NEW s \in Unused, Len(s.queues) = Len(s.labels),
         NEW name \in Names, NEW priority \in Nat,
         \A i \in 1..Len(s.labels) : s.labels[i].priority <= priority
  PROVE  /\ AddLabel(s, name, priority) \in Unused
         /\ AddLabel(s, name, priority).labels = Append(s.labels, Label(name, priority))
         /\ AddLabel(s, name, priority).queues = Append(s.queues, <<>>)
<1> DEFINE labels == Append(s.labels, Label(name, priority))
           queues == Append(s.queues, <<>>)
<1>1. s.labels \in Seq(Labelset) /\ Label(name, priority) \in Labelset
  BY DEF Unused, Labelset, Label
<1>2. s.queues \in Seq({<<>>}) /\ <<>> \in {<<>>}
  BY DEF Unused
<1>3. Before(s, priority) = Len(s.labels)
  <2>1. DOMAIN s.labels = 1..Len(s.labels) /\ Len(s.labels) \in Nat
    BY <1>1, LenProperties
  <2>2. QED
    BY <2>1, LastIsBehindAll
<1>4. /\ InsertAt(s.labels, Len(s.labels) + 1, Label(name, priority)) = labels
      /\ labels \in Seq(Labelset)
  BY <1>1, InsertedLast, AppendProperties
<1>5. /\ InsertAt(s.queues, Len(s.queues) + 1, <<>>) = queues
      /\ queues \in Seq({<<>>})
  BY <1>2, InsertedLast, AppendProperties
<1>6. AddLabel(s, name, priority) = [s EXCEPT !.labels = labels, !.queues = queues]
  BY <1>3, <1>4, <1>5 DEF AddLabel, Label
<1> HIDE DEF labels, queues
<1>7. [s EXCEPT !.labels = labels, !.queues = queues] \in Unused
  BY <1>4, <1>5 DEF Unused
<1>8. /\ [s EXCEPT !.labels = labels, !.queues = queues].labels = labels
      /\ [s EXCEPT !.labels = labels, !.queues = queues].queues = queues
  BY DEF Unused
<1>9. QED
  BY <1>6, <1>7, <1>8 DEF labels, queues

LEMMA LabelsOfPage ==
  /\ Labelled \in Unused
  /\ Labelled.labels = <<Label("init", 1), Label("focus", 2), Label("filter", 4), Label("search", 5)>>
  /\ Labelled.queues = << <<>>, <<>>, <<>>, <<>> >>
<1> DEFINE s0 == NewScheduler
           s1 == AddLabel(s0, "init", 1)
           s2 == AddLabel(s1, "focus", 2)
           s3 == AddLabel(s2, "filter", 4)
           s4 == AddLabel(s3, "search", 5)
<1>1. "init" \in Names /\ "focus" \in Names /\ "filter" \in Names /\ "search" \in Names
  BY DEF Names
<1>2. s0 \in Unused /\ s0.labels = <<>> /\ s0.queues = <<>>
  <2>1. <<>> \in Seq(Labelset) /\ <<>> \in Seq({<<>>})
    OBVIOUS
  <2>2. QED
    BY <2>1 DEF NewScheduler, Unused
<1>3. s1 \in Unused /\ s1.labels = <<Label("init", 1)>> /\ s1.queues = << <<>> >>
  <2> HIDE DEF s0
  <2>1. /\ s1 \in Unused
        /\ s1.labels = Append(s0.labels, Label("init", 1)) /\ s1.queues = Append(s0.queues, <<>>)
    BY <1>1, <1>2, AddedLast
  <2>2. QED
    BY <1>2, <2>1
<1>4. /\ s2 \in Unused /\ s2.labels = <<Label("init", 1), Label("focus", 2)>>
      /\ s2.queues = << <<>>, <<>> >>
  <2> HIDE DEF s1
  <2>1. \A i \in 1..1 : s1.labels[i].priority <= 2
    BY <1>3 DEF Label
  <2>2. /\ s2 \in Unused
        /\ s2.labels = Append(s1.labels, Label("focus", 2)) /\ s2.queues = Append(s1.queues, <<>>)
    BY <1>1, <1>3, <2>1, AddedLast
  <2>3. QED
    BY <1>3, <2>2
<1>5. /\ s3 \in Unused
      /\ s3.labels = <<Label("init", 1), Label("focus", 2), Label("filter", 4)>>
      /\ s3.queues = << <<>>, <<>>, <<>> >>
  <2> HIDE DEF s2
  <2>1. \A i \in 1..2 : s2.labels[i].priority <= 4
    BY <1>4 DEF Label
  <2>2. /\ s3 \in Unused
        /\ s3.labels = Append(s2.labels, Label("filter", 4)) /\ s3.queues = Append(s2.queues, <<>>)
    BY <1>1, <1>4, <2>1, AddedLast
  <2>3. QED
    BY <1>4, <2>2
<1>6. /\ s4 \in Unused
      /\ s4.labels = <<Label("init", 1), Label("focus", 2), Label("filter", 4), Label("search", 5)>>
      /\ s4.queues = << <<>>, <<>>, <<>>, <<>> >>
  <2> HIDE DEF s3
  <2>1. \A i \in 1..3 : s3.labels[i].priority <= 5
    BY <1>5 DEF Label
  <2>2. /\ s4 \in Unused
        /\ s4.labels = Append(s3.labels, Label("search", 5)) /\ s4.queues = Append(s3.queues, <<>>)
    BY <1>1, <1>5, <2>1, AddedLast
  <2>3. QED
    BY <1>5, <2>2
<1>7. s4 = Labelled
  BY DEF Labelled
<1> HIDE DEF s4
<1>8. QED
  BY <1>6, <1>7

LEMMA LabelledQuiet == Labelled \in Quiet
<1>1. Labelled.queues \in NoJobs
  BY LabelsOfPage DEF NoJobs
<1>2. QED
  BY <1>1, LabelsOfPage DEF Unused, Quiet, Labels

LEMMA IndexOfLabels ==
  ASSUME NEW s, s.labels = Labelled.labels
  PROVE  IndexOf(s, "init") = 1 /\ IndexOf(s, "search") = 4
<1>1. /\ DOMAIN s.labels = 1..4
      /\ s.labels[1].name = "init" /\ s.labels[2].name = "focus"
      /\ s.labels[3].name = "filter" /\ s.labels[4].name = "search"
  BY LabelsOfPage DEF Label
<1>2. QED
  BY <1>1 DEF IndexOf

-----------------------------------------------------------------------------
(* The steps.                                                              *)

LEMMA InitInv == Init => Inv
<1> SUFFICES ASSUME Init PROVE Inv
  OBVIOUS
<1>1. Ready \in Armed \cup Quiet
  BY LabelledQuiet, JobsAreJobs, AddAllGuarded DEF Ready
<1>2. input \in Query \cup {None}
  BY DEF Init
<1>3. CASE input = None
  BY <1>1, <1>2, <1>3 DEF Init, Inv
<1>4. CASE input # None
  <2>1. SearchAllJobs(Ready, input) \in Armed \cup Quiet
    BY <1>1, <1>2, SearchAllGuarded
  <2>2. QED
    BY <1>2, <1>4, <2>1 DEF Init, Inv
<1>5. QED
  BY <1>3, <1>4

LEMMA TimerArmed ==
  ASSUME Inv, sched.timers > 0
  PROVE  sched \in Armed
<1>1. ASSUME sched \in Quiet PROVE FALSE
  <2>1. sched.timers = 0
    BY <1>1 DEF Quiet
  <2>2. QED
    BY <2>1
<1>2. QED
  BY <1>1 DEF Inv

\* A timer that fires with work runs a job, which ends with another timer.
LEMMA DueRuns ==
  ASSUME Inv, NEW fn, Due(fn)
  PROVE  Rest \in Running /\ Work \in Jobset /\ Work.fn = fn
<1>1. sched \in Armed
  BY TimerArmed DEF Due
<1>2. Fired(sched) \in Running /\ Fired(sched).queues = sched.queues
  BY <1>1, FiredRuns
<1>3. HasWork(Fired(sched)) /\ NextWork(Fired(sched)) = NextWork(sched)
  BY <1>2 DEF Due, HasWork, NextWork, NextIndex
<1>4. QED
  BY <1>2, <1>3, TakenRunning DEF Rest, Work, Due

LEMMA TimerInv ==
  ASSUME Inv, Timer
  PROVE  Inv'
<1>1. CASE RunPackage
  <2>1. Rest \in Running /\ Work \in Jobset
    BY <1>1, DueRuns DEF RunPackage
  <2> DEFINE members == Job("members", Work.pack, Work.query)
             results == Job("results", Work.pack, Work.query)
  <2>2. members \in Jobset /\ results \in Jobset
    BY <2>1 DEF Job, Jobset
  <2>3. sched' = DoWork(Add(Add(Rest, "search", members), "search", results))
    BY <1>1 DEF RunPackage
  <2> HIDE DEF members, results
  <2>4. sched' \in Armed
    BY <2>1, <2>2, <2>3, AddGuarded, DoWorkArms
  <2>5. QED
    BY <1>1, <2>4 DEF Inv, RunPackage
<1>2. CASE RunMembers \/ RunResults \/ RunBinding \/ RunNavigation
  <2>1. Rest \in Running /\ sched' = DoWork(Rest)
    BY <1>2, DueRuns DEF RunMembers, RunResults, RunBinding, RunNavigation
  <2>2. sched' \in Armed
    BY <2>1, DoWorkArms
  <2>3. QED
    BY <1>2, <2>2 DEF Inv, RunMembers, RunResults, RunBinding, RunNavigation
<1>3. CASE RunNothing
  <2>1. sched \in Armed
    BY <1>3, TimerArmed DEF RunNothing
  <2>2. Fired(sched) \in Running /\ ~HasWork(Fired(sched))
    BY <1>3, <2>1, FiredRuns DEF RunNothing, HasWork
  <2>3. sched' \in Quiet
    BY <1>3, <2>2, IdleQuiet DEF RunNothing
  <2>4. QED
    BY <1>3, <2>3 DEF Inv, RunNothing
<1>4. QED
  BY <1>1, <1>2, <1>3 DEF Timer

LEMMA NextInv == Inv /\ [Next]_vars => Inv'
<1> SUFFICES ASSUME Inv, [Next]_vars PROVE Inv'
  OBVIOUS
<1>1. CASE Timer
  BY <1>1, TimerInv
<1>2. CASE KeyupSearch
  BY <1>2, SearchAllGuarded DEF Inv, KeyupSearch, SearchAll
<1>3. CASE KeyupEscape
  BY <1>3, SearchAllGuarded DEF Inv, KeyupEscape, SearchAll
<1>4. CASE KeyupDown
  BY <1>4, AddGuarded, JobsAreJobs DEF Inv, KeyupDown
<1>5. CASE \E text \in Query \cup {None} : Input(text)
  BY <1>5 DEF Inv, Input
<1>6. CASE KeydownMove \/ KeydownUp \/ Focus
  BY <1>6 DEF Inv, KeydownMove, KeydownUp, Focus
<1>7. CASE KeydownEnter \/ KeydownEscape \/ ClickClear \/ ClickClose
  BY <1>7 DEF Inv, KeydownEnter, KeydownEscape, ClickClear, ClickClose
<1>8. CASE UNCHANGED vars
  BY <1>8 DEF Inv, vars
<1>9. QED
  BY <1>1, <1>2, <1>3, <1>4, <1>5, <1>6, <1>7, <1>8 DEF Next

LEMMA InvGuards == Inv => WorkHasTimer
<1> SUFFICES ASSUME Inv PROVE WorkHasTimer
  OBVIOUS
<1>1. CASE sched \in Armed
  BY <1>1 DEF Armed, WorkHasTimer
<1>2. CASE sched \in Quiet
  <2>1. sched.timers = 0 /\ ~sched.timeout
    BY <1>2 DEF Quiet
  <2>2. ~HasWork(sched)
    BY <1>2 DEF Quiet, NoJobs, HasWork
  <2>3. QED
    BY <2>1, <2>2 DEF WorkHasTimer
<1>3. QED
  BY <1>1, <1>2 DEF Inv

\* Whatever the user does between the jobs, the scheduler has one timer while
\* it has work or runs, none when it rests, and knows which (scheduler.js).
THEOREM WorkAlwaysHasTimer == Spec => []WorkHasTimer
<1>1. Init => Inv
  BY InitInv
<1>2. Inv /\ [Next]_vars => Inv'
  BY NextInv
<1>3. Inv => WorkHasTimer
  BY InvGuards
<1>4. QED
  BY <1>1, <1>2, <1>3, PTL DEF Spec

-----------------------------------------------------------------------------
(* What is shown, and still to be shown, is of one query.  The searches    *)
(* have a queue of their own, the last, and every job in it is of the      *)
(* query that the page names: searchAll empties it before it names another.*)

Packs == Range(Packages)

PageJobset == {job \in Jobset : job.fn \in {"navigate", "bindKeyup", "bindClear", "bindClose"}}
SearchJobset(query) ==
  {job \in Jobset : /\ job.fn \in {"package", "members", "results"}
                    /\ job.pack \in Packs /\ job.query = query}

QueuesOf(query) ==
  {queues \in Queues :
     /\ queues[1] \in Seq(PageJobset)
     /\ queues[2] = <<>> /\ queues[3] = <<>>
     /\ queues[4] \in Seq(SearchJobset(query))}

EntityBlocks(query) == {EntityBlock(pack, query) : pack \in Packs}
MemberBlocks(query) == {MemberBlock(pack, query) : pack \in Packs}
ViewsOf(query) ==
  [query : {query}, entities : Seq(EntityBlocks(query)), members : Seq(MemberBlocks(query)),
   maxJobs : Nat, shownJobs : Nat]

OneQuery == sched.queues \in QueuesOf(view.query) /\ view \in ViewsOf(view.query)

States == Armed \cup Running \cup Stopped

LEMMA AddAllQueues ==
  ASSUME NEW s \in States, NEW name, NEW works \in Seq(Jobset)
  PROVE  AddAll(s, name, works).queues =
           [s.queues EXCEPT ![IndexOf(s, name)] = s.queues[IndexOf(s, name)] \o works]
<1> DEFINE i == IndexOf(s, name)
           queue == s.queues[i] \o works
<1>1. i \in 1..4 => queue \in Seq(Jobset)
  <2>1. i \in 1..4 => s.queues[i] \in Seq(Jobset)
    BY DEF States, Armed, Running, Stopped, Queues
  <2>2. QED
    BY <2>1, ConcatProperties
<1>2. AddAll(s, name, works) =
        IF works = <<>> \/ s.timeout THEN Requeued(s, i, queue) ELSE DoWork(Requeued(s, i, queue))
  BY DEF AddAll, Requeued
<1> HIDE DEF i, queue
<1>3. Requeued(s, i, queue).queues = [s.queues EXCEPT ![i] = queue]
  BY <1>1, QueueReplaced DEF States
<1>4. CASE works = <<>> \/ s.timeout
  BY <1>2, <1>3, <1>4 DEF i, queue
<1>5. CASE ~(works = <<>> \/ s.timeout)
  <2>1. s \in Stopped
    BY <1>5 DEF States, Armed, Running
  <2>2. Requeued(s, i, queue) \in Stopped
    BY <1>1, <2>1, QueueReplaced
  <2>3. DoWork(Requeued(s, i, queue)).queues = Requeued(s, i, queue).queues
    BY <2>2 DEF Stopped, DoWork
  <2>4. QED
    BY <1>2, <1>3, <1>5, <2>3 DEF i, queue
<1>6. QED
  BY <1>4, <1>5

LEMMA QueuesOfState ==
  ASSUME NEW s \in States
  PROVE  s.labels = Labelled.labels /\ s.queues \in Queues
BY DEF States, Armed, Running, Stopped, Labels

LEMMA QueueOfQuery ==
  ASSUME NEW query, NEW queues \in QueuesOf(query)
  PROVE  /\ \A q \in Seq(PageJobset) : [queues EXCEPT ![1] = q] \in QueuesOf(query)
         /\ \A next : \A q \in Seq(SearchJobset(next)) : [queues EXCEPT ![4] = q] \in QueuesOf(next)
<1>1. Seq(PageJobset) \subseteq Seq(Jobset)
  BY SeqMonotonic DEF PageJobset
<1>2. \A next : Seq(SearchJobset(next)) \subseteq Seq(Jobset)
  BY SeqMonotonic DEF SearchJobset
<1>3. ASSUME NEW q \in Seq(PageJobset)
      PROVE  [queues EXCEPT ![1] = q] \in QueuesOf(query)
  BY <1>1 DEF QueuesOf, Queues
<1>4. ASSUME NEW next, NEW q \in Seq(SearchJobset(next))
      PROVE  [queues EXCEPT ![4] = q] \in QueuesOf(next)
  BY <1>2 DEF QueuesOf, Queues
<1>5. QED
  BY <1>3, <1>4

LEMMA SearchJobsAdded ==
  ASSUME NEW s \in States, NEW query, s.queues \in QueuesOf(query),
         NEW works \in Seq(SearchJobset(query))
  PROVE  AddAll(s, "search", works).queues \in QueuesOf(query)
<1>1. works \in Seq(Jobset)
  BY SeqMonotonic DEF SearchJobset
<1>2. IndexOf(s, "search") = 4
  BY QueuesOfState, IndexOfLabels
<1>3. AddAll(s, "search", works).queues = [s.queues EXCEPT ![4] = s.queues[4] \o works]
  <2> DEFINE i == IndexOf(s, "search")
  <2>1. AddAll(s, "search", works).queues = [s.queues EXCEPT ![i] = s.queues[i] \o works]
    BY <1>1, AddAllQueues
  <2> HIDE DEF i
  <2>2. i = 4
    BY <1>2 DEF i
  <2>3. QED
    BY <2>1, <2>2
<1>4. s.queues[4] \o works \in Seq(SearchJobset(query))
  BY ConcatProperties DEF QueuesOf
<1>5. [s.queues EXCEPT ![4] = s.queues[4] \o works] \in QueuesOf(query)
  BY <1>4, QueueOfQuery
<1>6. QED
  BY <1>3, <1>5, Zenon

LEMMA PageJobsAdded ==
  ASSUME NEW s \in States, NEW query, s.queues \in QueuesOf(query),
         NEW works \in Seq(PageJobset)
  PROVE  AddAll(s, "init", works).queues \in QueuesOf(query)
<1>1. works \in Seq(Jobset)
  BY SeqMonotonic DEF PageJobset
<1>2. IndexOf(s, "init") = 1
  BY QueuesOfState, IndexOfLabels
<1>3. AddAll(s, "init", works).queues = [s.queues EXCEPT ![1] = s.queues[1] \o works]
  <2> DEFINE i == IndexOf(s, "init")
  <2>1. AddAll(s, "init", works).queues = [s.queues EXCEPT ![i] = s.queues[i] \o works]
    BY <1>1, AddAllQueues
  <2> HIDE DEF i
  <2>2. i = 1
    BY <1>2 DEF i
  <2>3. QED
    BY <2>1, <2>2
<1>4. s.queues[1] \o works \in Seq(PageJobset)
  BY ConcatProperties DEF QueuesOf
<1>5. [s.queues EXCEPT ![1] = s.queues[1] \o works] \in QueuesOf(query)
  BY <1>4, QueueOfQuery
<1>6. QED
  BY <1>3, <1>5, Zenon

\* Nothing is left of the last query.
LEMMA SearchJobsCleared ==
  ASSUME NEW s \in States, NEW query, s.queues \in QueuesOf(query), NEW next
  PROVE  Clear(s, "search").queues \in QueuesOf(next)
<1>1. IndexOf(s, "search") = 4
  BY QueuesOfState, IndexOfLabels
<1>2. Clear(s, "search") = Requeued(s, 4, <<>>)
  BY <1>1 DEF Clear, Requeued
<1>3. <<>> \in Seq(Jobset) /\ <<>> \in Seq(SearchJobset(next))
  OBVIOUS
<1>4. Requeued(s, 4, <<>>).queues = [s.queues EXCEPT ![4] = <<>>]
  BY <1>3, QueueReplaced DEF States
<1>5. [s.queues EXCEPT ![4] = <<>>] \in QueuesOf(next)
  BY <1>3, QueueOfQuery
<1>6. QED
  BY <1>2, <1>4, <1>5, Zenon

\* A job comes from the queue that is for it.
LEMMA TakenOfQuery ==
  ASSUME NEW s \in Running, HasWork(s), NEW query, s.queues \in QueuesOf(query)
  PROVE  /\ Taken(s).queues \in QueuesOf(query)
         /\ NextWork(s) \in PageJobset \cup SearchJobset(query)
<1> DEFINE i == NextIndex(s)
<1>1. i \in 1..4 /\ s.queues[i] # <<>>
  BY NextQueueHasWork
<1>2. i \in {1, 4}
  BY <1>1 DEF QueuesOf
<1>3. Taken(s) = Requeued(s, i, Tail(s.queues[i])) /\ NextWork(s) = Head(s.queues[i])
  BY DEF Taken, Requeued, NextWork
<1> HIDE DEF i
<1>4. Tail(s.queues[i]) \in Seq(Jobset)
  BY <1>1, HeadTailProperties DEF Running, Queues
<1>5. Requeued(s, i, Tail(s.queues[i])).queues = [s.queues EXCEPT ![i] = Tail(s.queues[i])]
  BY <1>4, QueueReplaced
<1>6. CASE i = 1
  <2>1. Head(s.queues[1]) \in PageJobset /\ Tail(s.queues[1]) \in Seq(PageJobset)
    BY <1>1, <1>6, HeadTailProperties DEF QueuesOf
  <2>2. [s.queues EXCEPT ![1] = Tail(s.queues[1])] \in QueuesOf(query)
    BY <2>1, QueueOfQuery
  <2>3. QED
    BY <1>3, <1>5, <1>6, <2>1, <2>2, Zenon
<1>7. CASE i = 4
  <2>1. Head(s.queues[4]) \in SearchJobset(query) /\ Tail(s.queues[4]) \in Seq(SearchJobset(query))
    BY <1>1, <1>7, HeadTailProperties DEF QueuesOf
  <2>2. [s.queues EXCEPT ![4] = Tail(s.queues[4])] \in QueuesOf(query)
    BY <2>1, QueueOfQuery
  <2>3. QED
    BY <1>3, <1>5, <1>7, <2>1, <2>2, Zenon
<1>8. QED
  BY <1>2, <1>6, <1>7

LEMMA SameQueues ==
  ASSUME NEW s
  PROVE  /\ s \in Running => DoWork(s).queues = s.queues
         /\ s \in Running => Idle(s).queues = s.queues
BY DEF Running, DoWork, Idle

LEMMA StatesOfInv ==
  ASSUME NEW s \in Armed \cup Quiet
  PROVE  s \in States
BY QuietIsStopped DEF States

LEMMA ViewOfQuery ==
  ASSUME NEW query, NEW v \in ViewsOf(query)
  PROVE  /\ v.query = query
         /\ \A n \in Nat : [v EXCEPT !.maxJobs = n] \in ViewsOf(query)
         /\ \A b \in MemberBlocks(query) :
              [v EXCEPT !.members = Append(@, b)] \in ViewsOf(query)
         /\ \A b \in EntityBlocks(query) : \A m \in Nat, n \in Nat :
              [v EXCEPT !.entities = Append(@, b), !.maxJobs = m, !.shownJobs = n] \in ViewsOf(query)
<1>1. v.query = query
  BY DEF ViewsOf
<1>2. ASSUME NEW n \in Nat
      PROVE  [v EXCEPT !.maxJobs = n] \in ViewsOf(query)
  BY DEF ViewsOf
<1>3. ASSUME NEW b \in MemberBlocks(query)
      PROVE  [v EXCEPT !.members = Append(@, b)] \in ViewsOf(query)
  <2>1. Append(v.members, b) \in Seq(MemberBlocks(query))
    BY AppendProperties DEF ViewsOf
  <2>2. QED
    BY <2>1 DEF ViewsOf
<1>4. ASSUME NEW b \in EntityBlocks(query), NEW m \in Nat, NEW n \in Nat
      PROVE  [v EXCEPT !.entities = Append(@, b), !.maxJobs = m, !.shownJobs = n] \in ViewsOf(query)
  <2>1. Append(v.entities, b) \in Seq(EntityBlocks(query))
    BY AppendProperties DEF ViewsOf
  <2>2. QED
    BY <2>1 DEF ViewsOf
<1>5. QED
  BY <1>1, <1>2, <1>3, <1>4

LEMMA BlankOfQuery ==
  ASSUME NEW query, NEW n \in Nat
  PROVE  [Blank(query) EXCEPT !.shownJobs = n] \in ViewsOf(query) /\ Blank(query) \in ViewsOf(query)
<1>1. <<>> \in Seq(EntityBlocks(query)) /\ <<>> \in Seq(MemberBlocks(query))
  OBVIOUS
<1>2. QED
  BY <1>1 DEF Blank, ViewsOf

\* searchAll names another query only with an empty queue.
LEMMA SearchAllOfQuery ==
  ASSUME NEW s \in Armed \cup Quiet, NEW query, s.queues \in QueuesOf(query),
         NEW v \in ViewsOf(query), NEW text \in Query \cup {None}
  PROVE  /\ SearchAllJobs(s, text).queues \in QueuesOf(SearchAllView(v, text).query)
         /\ SearchAllView(v, text) \in ViewsOf(SearchAllView(v, text).query)
<1>1. s \in States
  BY StatesOfInv
<1>2. Clear(s, "search").queues \in QueuesOf(query) /\ Clear(s, "search").queues \in QueuesOf(text)
  BY <1>1, SearchJobsCleared
<1>3. CASE text = None
  <2>1. SearchAllView(v, text) \in ViewsOf(query)
    BY <1>3, ViewOfQuery DEF SearchAllView
  <2>2. SearchAllView(v, text).query = query
    BY <2>1, ViewOfQuery
  <2>3. SearchAllJobs(s, text) = Clear(s, "search")
    BY <1>3 DEF SearchAllJobs
  <2>4. QED
    BY <1>2, <2>1, <2>2, <2>3, Zenon
<1>4. CASE text # None
  <2>1. SearchAllView(v, text) \in ViewsOf(text)
    <3>1. v.shownJobs \in Nat
      BY DEF ViewsOf
    <3>2. QED
      BY <1>4, <3>1, BlankOfQuery DEF SearchAllView
  <2>2. SearchAllView(v, text).query = text
    BY <2>1, ViewOfQuery
  <2>3. PackageJobs(text) \in Seq(SearchJobset(text))
    <3>1. PackageJobs(text) \in Seq(Jobset)
      BY <1>4, JobsAreJobs
    <3>2. DOMAIN Packages = 1..Len(Packages) /\ Len(Packages) \in Nat
      BY SearchConstants
    <3>3. \A i \in DOMAIN Packages : Job("package", Packages[i], text) \in SearchJobset(text)
      BY <1>4 DEF Range, Packs, Job, Jobset, SearchJobset
    <3>4. CASE text \in Malformed
      BY <3>4 DEF PackageJobs
    <3>5. CASE text \notin Malformed
      BY <3>2, <3>3, <3>5 DEF PackageJobs
    <3>6. QED
      BY <3>4, <3>5
  <2>4. Clear(s, "search") \in States
    BY ClearGuarded, StatesOfInv
  <2>5. AddAll(Clear(s, "search"), "search", PackageJobs(text)).queues \in QueuesOf(text)
    BY <1>2, <2>3, <2>4, SearchJobsAdded
  <2>6. SearchAllJobs(s, text) = AddAll(Clear(s, "search"), "search", PackageJobs(text))
    BY <1>4 DEF SearchAllJobs
  <2>7. QED
    BY <2>1, <2>2, <2>5, <2>6, Zenon
<1>5. QED
  BY <1>3, <1>4

LEMMA InitOneQuery == Init => OneQuery
<1> SUFFICES ASSUME Init PROVE OneQuery
  OBVIOUS
<1>1. Labelled \in States
  BY LabelledQuiet, StatesOfInv
<1>2. Labelled.queues \in QueuesOf(None)
  <2>1. Labelled.queues \in NoJobs
    BY LabelledQuiet DEF Quiet
  <2>2. <<>> \in Seq(PageJobset) /\ <<>> \in Seq(SearchJobset(None)) /\ <<>> \in Seq(Jobset)
    OBVIOUS
  <2>3. Labelled.queues \in Queues
    BY <2>1, <2>2 DEF NoJobs, Queues
  <2>4. \A i \in 1..4 : Labelled.queues[i] = <<>>
    BY <2>1 DEF NoJobs
  <2>5. /\ Labelled.queues[1] = <<>> /\ Labelled.queues[2] = <<>>
        /\ Labelled.queues[3] = <<>> /\ Labelled.queues[4] = <<>>
    BY <2>4
  <2>6. Labelled.queues[1] \in Seq(PageJobset) /\ Labelled.queues[4] \in Seq(SearchJobset(None))
    BY <2>2, <2>5, Zenon
  <2>7. QED
    BY <2>3, <2>5, <2>6, Zenon DEF QueuesOf
<1>3. ConfigureJobs \in Seq(PageJobset)
  <2>1. \A i \in 1..3 : Job(<<"bindKeyup", "bindClear", "bindClose">>[i], None, None) \in PageJobset
    BY DEF Job, Jobset, PageJobset
  <2>2. QED
    BY <2>1 DEF ConfigureJobs
<1>4. Ready.queues \in QueuesOf(None)
  BY <1>1, <1>2, <1>3, PageJobsAdded DEF Ready
<1>5. Ready \in Armed \cup Quiet
  BY LabelledQuiet, JobsAreJobs, AddAllGuarded DEF Ready
<1>6. Blank(None) \in ViewsOf(None)
  BY BlankOfQuery
<1>7. input \in Query \cup {None} /\ view = SearchAllView(Blank(None), input)
  BY DEF Init
<1>8. /\ SearchAllJobs(Ready, input).queues \in QueuesOf(view.query)
      /\ view \in ViewsOf(view.query)
  BY <1>4, <1>5, <1>6, <1>7, SearchAllOfQuery
<1>9. CASE input = None
  <2>1. view \in ViewsOf(None)
    BY <1>6, <1>7, <1>9, ViewOfQuery DEF SearchAllView
  <2>2. view.query = None
    BY <2>1, ViewOfQuery
  <2>3. sched = Ready
    BY <1>9 DEF Init
  <2>4. QED
    BY <1>4, <1>8, <2>2, <2>3 DEF OneQuery
<1>10. CASE input # None
  <2>1. sched = SearchAllJobs(Ready, input)
    BY <1>10 DEF Init
  <2>2. QED
    BY <1>8, <2>1 DEF OneQuery
<1>11. QED
  BY <1>9, <1>10

LEMMA DueOfQuery ==
  ASSUME Inv, OneQuery, NEW fn, Due(fn)
  PROVE  /\ Rest \in Running /\ Rest.queues \in QueuesOf(view.query)
         /\ Work \in PageJobset \cup SearchJobset(view.query) /\ Work.fn = fn
<1>1. sched \in Armed
  BY TimerArmed DEF Due
<1>2. Fired(sched) \in Running /\ Fired(sched).queues = sched.queues
  BY <1>1, FiredRuns
<1>3. HasWork(Fired(sched)) /\ NextWork(Fired(sched)) = NextWork(sched)
  BY <1>2 DEF Due, HasWork, NextWork, NextIndex
<1>4. Fired(sched).queues \in QueuesOf(view.query)
  BY <1>2 DEF OneQuery
<1>5. QED
  BY <1>2, <1>3, <1>4, TakenRunning, TakenOfQuery DEF Rest, Work, Due

LEMMA TimerOneQuery ==
  ASSUME Inv, OneQuery, Timer
  PROVE  OneQuery'
<1>1. view \in ViewsOf(view.query)
  BY DEF OneQuery
<1>2. CASE RunPackage
  <2>1. /\ Rest \in Running /\ Rest.queues \in QueuesOf(view.query)
        /\ Work \in PageJobset \cup SearchJobset(view.query) /\ Work.fn = "package"
    BY <1>2, DueOfQuery DEF RunPackage
  <2> DEFINE members == Job("members", Work.pack, Work.query)
             results == Job("results", Work.pack, Work.query)
             one == Add(Rest, "search", members)
             two == Add(one, "search", results)
  <2>2. Work \in SearchJobset(view.query)
    BY <2>1 DEF PageJobset
  <2>3. members \in SearchJobset(view.query) /\ results \in SearchJobset(view.query)
    BY <2>2 DEF SearchJobset, Job, Jobset
  <2>4. sched' = DoWork(two) /\ view' = view
    BY <1>2 DEF RunPackage
  <2> HIDE DEF members, results
  <2>5. members \in Jobset /\ results \in Jobset
    BY <2>3 DEF SearchJobset
  <2>6. one \in Running /\ one.queues \in QueuesOf(view.query)
    <3>1. <<members>> \in Seq(SearchJobset(view.query))
      BY <2>3
    <3>2. Rest \in States
      BY <2>1 DEF States
    <3>3. QED
      BY <2>1, <2>5, <3>1, <3>2, AddGuarded, SearchJobsAdded DEF Add
  <2> HIDE DEF one
  <2>7. two \in Running /\ two.queues \in QueuesOf(view.query)
    <3>1. <<results>> \in Seq(SearchJobset(view.query))
      BY <2>3
    <3>2. one \in States
      BY <2>6 DEF States
    <3>3. QED
      BY <2>5, <2>6, <3>1, <3>2, AddGuarded, SearchJobsAdded DEF Add
  <2> HIDE DEF two
  <2>8. sched'.queues = two.queues
    BY <2>4, <2>7, SameQueues
  <2>9. QED
    BY <1>1, <2>4, <2>7, <2>8 DEF OneQuery
<1>3. CASE RunMembers
  <2>1. /\ Rest \in Running /\ Rest.queues \in QueuesOf(view.query)
        /\ Work \in PageJobset \cup SearchJobset(view.query) /\ Work.fn = "members"
    BY <1>3, DueOfQuery DEF RunMembers
  <2>2. Work.pack \in Packs /\ Work.query = view.query
    BY <2>1 DEF PageJobset, SearchJobset, Jobset, Packs
  <2>3. MemberBlock(Work.pack, Work.query) \in MemberBlocks(view.query)
    BY <2>2 DEF MemberBlocks
  <2>4. view' \in ViewsOf(view.query)
    BY <1>1, <1>3, <2>3, ViewOfQuery DEF RunMembers
  <2>5. view'.query = view.query
    BY <2>4, ViewOfQuery
  <2>6. sched'.queues = Rest.queues
    BY <1>3, <2>1, SameQueues DEF RunMembers
  <2>7. QED
    BY <2>1, <2>4, <2>5, <2>6 DEF OneQuery
<1>4. CASE RunResults
  <2>1. /\ Rest \in Running /\ Rest.queues \in QueuesOf(view.query)
        /\ Work \in PageJobset \cup SearchJobset(view.query) /\ Work.fn = "results"
    BY <1>4, DueOfQuery DEF RunResults
  <2>2. Work.pack \in Packs /\ Work.query = view.query
    BY <2>1 DEF PageJobset, SearchJobset, Jobset, Packs
  <2>3. EntityBlock(Work.pack, Work.query) \in EntityBlocks(view.query)
    BY <2>2 DEF EntityBlocks
  <2> DEFINE running == NumberOfJobs(Rest, "search")
             most == IF running > view.maxJobs THEN running ELSE view.maxJobs
  <2>4. running \in Nat
    <3>1. IndexOf(Rest, "search") = 4
      BY <2>1, QueuesOfState, IndexOfLabels DEF States
    <3>2. Rest.queues[4] \in Seq(SearchJobset(view.query))
      BY <2>1 DEF QueuesOf
    <3>3. running = Len(Rest.queues[4])
      BY <3>1 DEF NumberOfJobs, Jobs
    <3>4. QED
      BY <3>2, <3>3, LenProperties
  <2>5. most \in Nat
    BY <1>1, <2>4 DEF ViewsOf
  <2>6. view' = [view EXCEPT !.entities = Append(@, EntityBlock(Work.pack, Work.query)),
                             !.maxJobs = most, !.shownJobs = running]
    BY <1>4 DEF RunResults
  <2> HIDE DEF running, most
  <2>7. view' \in ViewsOf(view.query)
    BY <1>1, <2>3, <2>4, <2>5, <2>6, ViewOfQuery
  <2>8. view'.query = view.query
    BY <2>7, ViewOfQuery
  <2>9. sched'.queues = Rest.queues
    BY <1>4, <2>1, SameQueues DEF RunResults
  <2>10. QED
    BY <2>1, <2>7, <2>8, <2>9 DEF OneQuery
<1>5. CASE RunBinding \/ RunNavigation
  <2>1. Rest \in Running /\ Rest.queues \in QueuesOf(view.query)
    BY <1>5, DueOfQuery DEF RunBinding, RunNavigation
  <2>2. sched' = DoWork(Rest) /\ view' = view
    BY <1>5 DEF RunBinding, RunNavigation
  <2>3. sched'.queues = Rest.queues
    BY <2>1, <2>2, SameQueues
  <2>4. QED
    BY <1>1, <2>1, <2>2, <2>3 DEF OneQuery
<1>6. CASE RunNothing
  <2>1. sched \in Armed
    BY <1>6, TimerArmed DEF RunNothing
  <2>2. Fired(sched) \in Running /\ Fired(sched).queues = sched.queues
    BY <2>1, FiredRuns
  <2>3. sched' = Idle(Fired(sched)) /\ view' = view
    BY <1>6 DEF RunNothing
  <2>4. sched'.queues = sched.queues
    BY <2>2, <2>3, SameQueues
  <2>5. QED
    BY <2>3, <2>4 DEF OneQuery
<1>7. QED
  BY <1>2, <1>3, <1>4, <1>5, <1>6 DEF Timer

LEMMA NextOneQuery == Inv /\ OneQuery /\ [Next]_vars => OneQuery'
<1> SUFFICES ASSUME Inv, OneQuery, [Next]_vars PROVE OneQuery'
  OBVIOUS
<1>1. CASE Timer
  BY <1>1, TimerOneQuery
<1>2. ASSUME NEW text \in Query \cup {None}, SearchAll(text)
      PROVE  OneQuery'
  <2>1. sched \in Armed \cup Quiet
    BY DEF Inv
  <2>2. sched.queues \in QueuesOf(view.query) /\ view \in ViewsOf(view.query)
    BY DEF OneQuery
  <2>3. sched' = SearchAllJobs(sched, text) /\ view' = SearchAllView(view, text)
    BY <1>2 DEF SearchAll
  <2>4. /\ SearchAllJobs(sched, text).queues \in QueuesOf(SearchAllView(view, text).query)
        /\ SearchAllView(view, text) \in ViewsOf(SearchAllView(view, text).query)
    BY <2>1, <2>2, SearchAllOfQuery
  <2>5. QED
    BY <2>3, <2>4 DEF OneQuery
<1>3. CASE KeyupSearch
  BY <1>2, <1>3 DEF KeyupSearch, Inv
<1>4. CASE KeyupEscape
  BY <1>2, <1>4 DEF KeyupEscape
<1>5. CASE KeyupDown
  <2>1. sched \in States
    BY StatesOfInv DEF Inv
  <2>2. <<Job("navigate", None, None)>> \in Seq(PageJobset)
    BY DEF Job, Jobset, PageJobset
  <2>3. sched'.queues \in QueuesOf(view.query) /\ view' = view
    BY <1>5, <2>1, <2>2, PageJobsAdded DEF KeyupDown, Add, OneQuery
  <2>4. QED
    BY <2>3 DEF OneQuery
<1>6. CASE \E text \in Query \cup {None} : Input(text)
  BY <1>6 DEF OneQuery, Input
<1>7. CASE KeydownMove \/ KeydownUp \/ Focus
  BY <1>7 DEF OneQuery, KeydownMove, KeydownUp, Focus
<1>8. CASE KeydownEnter \/ KeydownEscape \/ ClickClear \/ ClickClose
  BY <1>8 DEF OneQuery, KeydownEnter, KeydownEscape, ClickClear, ClickClose
<1>9. CASE UNCHANGED vars
  BY <1>9 DEF OneQuery, vars
<1>10. QED
  BY <1>1, <1>3, <1>4, <1>5, <1>6, <1>7, <1>8, <1>9 DEF Next

LEMMA OneQueryShown == Inv /\ OneQuery => ResultsOfLastSearch
<1> SUFFICES ASSUME Inv, OneQuery PROVE ResultsOfLastSearch
  OBVIOUS
<1>1. Jobs(sched, "search") \in Seq(SearchJobset(view.query))
  <2>1. IndexOf(sched, "search") = 4
    BY StatesOfInv, QueuesOfState, IndexOfLabels DEF Inv
  <2>2. QED
    BY <2>1 DEF Jobs, OneQuery, QueuesOf
<1>2. \A job \in SearchJobset(view.query) : job.query = view.query
  BY DEF SearchJobset
<1>3. \A b \in EntityBlocks(view.query) \cup MemberBlocks(view.query) : b.query = view.query
  <2>1. \A pack, query, matching : Block(pack, query, matching).query = query
    BY Zenon DEF Block
  <2>2. QED
    BY <2>1 DEF EntityBlocks, MemberBlocks, EntityBlock, MemberBlock
<1>4. view.entities \in Seq(EntityBlocks(view.query)) /\ view.members \in Seq(MemberBlocks(view.query))
  BY DEF OneQuery, ViewsOf
<1>5. \A i \in DOMAIN Jobs(sched, "search") : Jobs(sched, "search")[i].query = view.query
  BY <1>1, <1>2, ElementOfSeq
<1>6. \A i \in DOMAIN view.entities : view.entities[i].query = view.query
  BY <1>3, <1>4, ElementOfSeq
<1>7. \A i \in DOMAIN view.members : view.members[i].query = view.query
  BY <1>3, <1>4, ElementOfSeq
<1>8. QED
  BY <1>5, <1>6, <1>7 DEF ResultsOfLastSearch

\* Whatever the user types between two jobs of a search, every result on the
\* page, and every job that will list one, is of the query the page names
\* (searchAll of index.js clears the queue before it names another).
THEOREM LastSearchOnly == Spec => []ResultsOfLastSearch
<1>1. Init => Inv /\ OneQuery
  BY InitInv, InitOneQuery
<1>2. Inv /\ OneQuery /\ [Next]_vars => (Inv /\ OneQuery)'
  BY NextInv, NextOneQuery
<1>3. Inv /\ OneQuery => ResultsOfLastSearch
  BY OneQueryShown
<1>4. QED
  BY <1>1, <1>2, <1>3, PTL DEF Spec

-----------------------------------------------------------------------------
(* Types.                                                                  *)

BoundSet == {"bindKeyup", "bindClear", "bindClose"}

UserTyped ==
  /\ focus \in BOOLEAN /\ clearShown \in BOOLEAN /\ panel \in BOOLEAN
  /\ bound \subseteq BoundSet
  /\ page \in {"open", "left"}
  /\ view.query \in Query \cup {None}

LEMMA InitTyped == Init => UserTyped
<1> SUFFICES ASSUME Init PROVE UserTyped
  OBVIOUS
<1>1. view.query \in Query \cup {None}
  <2>1. Blank(None) \in ViewsOf(None)
    BY BlankOfQuery
  <2>2. CASE input = None
    <3>1. view \in ViewsOf(None)
      BY <2>1, <2>2, ViewOfQuery DEF Init, SearchAllView
    <3>2. QED
      BY <3>1, ViewOfQuery
  <2>3. CASE input # None
    <3>1. view \in ViewsOf(input)
      BY <2>3, BlankOfQuery DEF Init, SearchAllView, Blank
    <3>2. input \in Query
      BY <2>3 DEF Init
    <3>3. QED
      BY <3>1, <3>2, ViewOfQuery
  <2>4. QED
    BY <2>2, <2>3
<1>2. QED
  BY <1>1 DEF Init, UserTyped

\* searchAll, for a text or none.
LEMMA SearchAllTyped ==
  ASSUME UserTyped, OneQuery, NEW text \in Query \cup {None}, SearchAll(text)
  PROVE  panel' \in BOOLEAN /\ view'.query \in Query \cup {None}
<1>1. panel' \in BOOLEAN
  BY DEF SearchAll
<1>2. view \in ViewsOf(view.query) /\ view.query \in Query \cup {None} /\ view.shownJobs \in Nat
  BY DEF OneQuery, UserTyped, ViewsOf
<1>3. CASE text = None
  <2>1. view' \in ViewsOf(view.query)
    BY <1>2, <1>3, ViewOfQuery DEF SearchAll, SearchAllView
  <2>2. QED
    BY <1>1, <1>2, <2>1, ViewOfQuery
<1>4. CASE text # None
  <2>1. view' \in ViewsOf(text)
    BY <1>2, <1>4, BlankOfQuery DEF SearchAll, SearchAllView
  <2>2. QED
    BY <1>1, <2>1, ViewOfQuery
<1>5. QED
  BY <1>3, <1>4

LEMMA NextTyped == Inv /\ OneQuery /\ UserTyped /\ [Next]_vars => UserTyped'
<1> SUFFICES ASSUME Inv, OneQuery, UserTyped, [Next]_vars PROVE UserTyped'
  OBVIOUS
<1>1. view \in ViewsOf(view.query)
  BY DEF OneQuery
<1>2. CASE RunPackage \/ RunNavigation \/ RunNothing
  BY <1>2 DEF UserTyped, RunPackage, RunNavigation, RunNothing
<1>3. CASE RunMembers
  <2>1. view'.query = view.query
    BY <1>1, <1>3 DEF RunMembers, ViewsOf
  <2>2. QED
    BY <1>3, <2>1 DEF UserTyped, RunMembers
<1>4. CASE RunResults
  <2>1. view'.query = view.query
    BY <1>1, <1>4 DEF RunResults, ViewsOf
  <2>2. QED
    BY <1>4, <2>1 DEF UserTyped, RunResults
<1>5. CASE RunBinding
  <2>1. Work.fn \in BoundSet
    BY <1>5, DueRuns DEF RunBinding, BoundSet
  <2>2. QED
    BY <1>5, <2>1 DEF UserTyped, RunBinding
<1>6. CASE KeydownMove \/ KeydownUp
  BY <1>6 DEF UserTyped, KeydownMove, KeydownUp
<1>7. CASE KeydownEnter \/ KeydownEscape \/ Focus
  BY <1>7 DEF UserTyped, KeydownEnter, KeydownEscape, Focus
<1>8. CASE \E text \in Query \cup {None} : Input(text)
  BY <1>8 DEF UserTyped, Input
<1>9. CASE KeyupSearch
  <2>1. panel' \in BOOLEAN /\ view'.query \in Query \cup {None}
    BY <1>9, SearchAllTyped DEF KeyupSearch, Inv
  <2>2. QED
    BY <1>9, <2>1 DEF UserTyped, KeyupSearch
<1>10. CASE KeyupEscape
  <2>1. panel' \in BOOLEAN /\ view'.query \in Query \cup {None}
    BY <1>10, SearchAllTyped DEF KeyupEscape
  <2>2. QED
    BY <1>10, <2>1 DEF UserTyped, KeyupEscape
<1>11. CASE KeyupDown \/ ClickClear \/ ClickClose
  BY <1>11 DEF UserTyped, KeyupDown, ClickClear, ClickClose
<1>12. CASE UNCHANGED vars
  BY <1>12 DEF UserTyped, vars
<1>13. QED
  BY <1>2, <1>3, <1>4, <1>5, <1>6, <1>7, <1>8, <1>9, <1>10, <1>11, <1>12 DEF Next, Timer

LEMMA FunctionIsSeq ==
  ASSUME NEW S, NEW n \in Nat, NEW f \in [1..n -> S]
  PROVE  f \in Seq(S)
BY SeqDef

LEMMA TypedShown == Inv /\ UserTyped => SearchTypeOK
<1> SUFFICES ASSUME Inv, UserTyped PROVE SearchTypeOK
  OBVIOUS
<1>1. sched \in States
  BY StatesOfInv DEF Inv
<1>2. sched.labels = Labelled.labels /\ sched.queues \in Queues
  BY <1>1, QueuesOfState
<1>3. [i \in DOMAIN sched.labels |-> sched.labels[i].name] = <<"init", "focus", "filter", "search">>
  <2>1. /\ DOMAIN sched.labels = 1..4
        /\ sched.labels[1].name = "init" /\ sched.labels[2].name = "focus"
        /\ sched.labels[3].name = "filter" /\ sched.labels[4].name = "search"
    BY <1>2, LabelsOfPage DEF Label
  <2>2. QED
    BY <2>1
<1>4. sched.queues \in Seq(Seq(Jobset)) /\ Len(sched.queues) = 4
  <2>1. sched.queues \in [1..4 -> Seq(Jobset)] /\ 4 \in Nat
    BY <1>2 DEF Queues
  <2>2. sched.queues \in Seq(Seq(Jobset))
    BY <2>1, FunctionIsSeq
  <2>3. QED
    BY <2>1, <2>2, LenProperties
<1>5. sched.timeout \in BOOLEAN /\ sched.timers \in Nat
  <2>1. sched.timeout \in {TRUE, FALSE}
    BY <1>1, Zenon DEF States, Armed, Running, Stopped
  <2>2. sched.timers \in {0, 1}
    BY <1>1, Zenon DEF States, Armed, Running, Stopped
  <2>3. sched.timeout \in BOOLEAN
    BY <2>1, Zenon
  <2>4. QED
    BY <2>2, <2>3
<1>6. {focus, clearShown, panel} \subseteq BOOLEAN
  BY DEF UserTyped
<1>7. QED
  BY <1>3, <1>4, <1>5, <1>6 DEF SearchTypeOK, UserTyped, BoundSet, Inv

\* The scheduler of the page keeps its four labels in the order of their
\* priorities, each with a queue of jobs, and the box, its buttons and the
\* handlers that are bound have their types.
THEOREM SearchTypeCorrect == Spec => []SearchTypeOK
<1>1. Init => Inv /\ OneQuery /\ UserTyped
  BY InitInv, InitOneQuery, InitTyped
<1>2. Inv /\ OneQuery /\ UserTyped /\ [Next]_vars => (Inv /\ OneQuery /\ UserTyped)'
  BY NextInv, NextOneQuery, NextTyped
<1>3. Inv /\ UserTyped => SearchTypeOK
  BY TypedShown
<1>4. QED
  BY <1>1, <1>2, <1>3, PTL DEF Spec

-----------------------------------------------------------------------------
(* A search that is complete.  Its jobs come in one order: the packages,   *)
(* and then, package by package, the members and the entities.  So while   *)
(* none was cleared the queue is the rest of that order, and the lists of  *)
(* the page are what ran of it.  A search that was cleared has hidden the  *)
(* results, and only a job of another shows them again; but under the name *)
(* of a malformed text they stay on the page, without a package.           *)

\* n packages are searched, after `found` of them that have run; members and
\* entities are listed for the first m and e.
SearchedBy(n, found, queue, v) ==
  LET m == Len(v.members)
      e == Len(v.entities)
  IN  /\ n > 0 /\ found \in 0..n
      /\ m = e \/ m = e + 1
      /\ m <= n
      /\ m > 0 => found = n
      /\ e = n => v.shownJobs = 0
      /\ Len(queue) = n + found - m - e
      /\ \A j \in (found + 1)..n : queue[j - found] = Job("package", Packages[j], v.query)
      /\ \A j \in (m + 1)..found :
           queue[n - found - m - e + 2 * j - 1] = Job("members", Packages[j], v.query)
      /\ \A j \in (e + 1)..found :
           queue[n - found - m - e + 2 * j] = Job("results", Packages[j], v.query)
      /\ \A j \in 1..m : v.members[j] = MemberBlock(Packages[j], v.query)
      /\ \A j \in 1..e : v.entities[j] = EntityBlock(Packages[j], v.query)

Progress ==
  \/ ~panel /\ sched.queues[4] = <<>>
  \/ /\ view.query \notin Malformed
     /\ \E found \in 0..Len(Packages) : SearchedBy(Len(Packages), found, sched.queues[4], view)
  \/ /\ view.query \in Malformed /\ Len(Packages) > 0
     /\ sched.queues[4] = <<>> /\ view.entities = <<>> /\ view.members = <<>>

\* The lists of a view.
Lists(v) == v.members \in Seq(MemberBlocks(v.query)) /\ v.entities \in Seq(EntityBlocks(v.query))

\* The job that comes next.
LEMMA NextJob ==
  ASSUME NEW n \in Nat, NEW found \in 0..n, NEW queue \in Seq(Jobset), queue # <<>>,
         NEW v, Lists(v), SearchedBy(n, found, queue, v)
  PROVE  \/ /\ found < n /\ Len(v.members) = 0 /\ Len(v.entities) = 0
            /\ Head(queue) = Job("package", Packages[found + 1], v.query)
         \/ /\ found = n /\ Len(v.members) = Len(v.entities) /\ Len(v.members) < n
            /\ Head(queue) = Job("members", Packages[Len(v.members) + 1], v.query)
         \/ /\ found = n /\ Len(v.members) = Len(v.entities) + 1
            /\ Head(queue) = Job("results", Packages[Len(v.entities) + 1], v.query)
<1> DEFINE m == Len(v.members)
           e == Len(v.entities)
<1>1. m \in Nat /\ e \in Nat
  BY LenProperties DEF Lists
<1>2. Head(queue) = queue[1]
  OBVIOUS
<1>3. Len(queue) \in Nat \ {0}
  BY EmptySeq
<1> HIDE DEF m, e
<1>4. CASE found < n
  <2>1. m = 0 /\ e = 0
    BY <1>1, <1>4 DEF SearchedBy, m, e
  <2>2. queue[1] = Job("package", Packages[found + 1], v.query)
    <3>1. found + 1 \in (found + 1)..n /\ found + 1 - found = 1
      BY <1>4
    <3>2. QED
      BY <3>1 DEF SearchedBy
  <2>3. QED
    BY <1>2, <1>4, <2>1, <2>2 DEF m, e
<1>5. CASE found = n /\ m = e
  <2>1. m < n
    BY <1>1, <1>3, <1>5 DEF SearchedBy, m, e
  <2>2. m + 1 \in (m + 1)..found /\ n - found - m - e + 2 * (m + 1) - 1 = 1
    BY <1>1, <1>5, <2>1
  <2>3. queue[1] = Job("members", Packages[m + 1], v.query)
    BY <2>2 DEF SearchedBy, m, e
  <2>4. QED
    BY <1>2, <1>5, <2>1, <2>3 DEF m, e
<1>6. CASE found = n /\ m = e + 1
  <2>1. m <= n
    BY DEF SearchedBy, m
  <2>2. e + 1 \in (e + 1)..found /\ n - found - m - e + 2 * (e + 1) = 1
    BY <1>1, <1>6, <2>1
  <2>3. queue[1] = Job("results", Packages[e + 1], v.query)
    BY <2>2 DEF SearchedBy, m, e
  <2>4. QED
    BY <1>2, <1>6, <2>3 DEF m, e
<1>7. m = e \/ m = e + 1
  BY DEF SearchedBy, m, e
<1>8. found < n \/ found = n
  OBVIOUS
<1>9. QED
  BY <1>4, <1>5, <1>6, <1>7, <1>8

\* The jobs of a package go behind all others.
LEMMA PackageSearched ==
  ASSUME NEW n \in Nat, NEW found \in 0..n, found < n, NEW queue \in Seq(Jobset), queue # <<>>,
         NEW v, Lists(v), SearchedBy(n, found, queue, v),
         Len(v.members) = 0, Len(v.entities) = 0,
         NEW members \in Jobset, members = Job("members", Packages[found + 1], v.query),
         NEW results \in Jobset, results = Job("results", Packages[found + 1], v.query)
  PROVE  SearchedBy(n, found + 1, (Tail(queue) \o <<members>>) \o <<results>>, v)
<1> DEFINE rest == Tail(queue)
           next == (rest \o <<members>>) \o <<results>>
<1>1. /\ rest \in Seq(Jobset) /\ Len(rest) = Len(queue) - 1
      /\ \A i \in 1..Len(rest) : rest[i] = queue[i + 1]
  BY HeadTailProperties
<1>2. Len(queue) = n + found
  BY DEF SearchedBy
<1> HIDE DEF rest
<1>3. /\ next \in Seq(Jobset) /\ Len(next) = n + found + 1
      /\ \A i \in 1..(n + found - 1) : next[i] = queue[i + 1]
      /\ next[n + found] = members /\ next[n + found + 1] = results
  BY <1>1, <1>2
<1> HIDE DEF next
<1>4. \A j \in (found + 1)..n : queue[j - found] = Job("package", Packages[j], v.query)
  BY DEF SearchedBy
<1>5. \A j \in 1..found : queue[n - found + 2 * j - 1] = Job("members", Packages[j], v.query)
  BY DEF SearchedBy
<1>6. \A j \in 1..found : queue[n - found + 2 * j] = Job("results", Packages[j], v.query)
  BY DEF SearchedBy
<1>7. ASSUME NEW j \in (found + 2)..n
      PROVE  next[j - (found + 1)] = Job("package", Packages[j], v.query)
  <2>1. j - (found + 1) \in 1..(n + found - 1) /\ j - (found + 1) + 1 = j - found
    BY <1>7
  <2>2. QED
    BY <1>3, <1>4, <2>1
<1>8. ASSUME NEW j \in 1..(found + 1)
      PROVE  next[n - (found + 1) + 2 * j - 1] = Job("members", Packages[j], v.query)
  <2>1. CASE j = found + 1
    <3>1. n - (found + 1) + 2 * j - 1 = n + found
      BY <2>1
    <3>2. QED
      BY <1>3, <2>1, <3>1
  <2>2. CASE j \in 1..found
    <3>1. /\ n - (found + 1) + 2 * j - 1 \in 1..(n + found - 1)
          /\ n - (found + 1) + 2 * j - 1 + 1 = n - found + 2 * j - 1
      BY <2>2
    <3>2. QED
      BY <1>3, <1>5, <2>2, <3>1
  <2>3. QED
    BY <2>1, <2>2
<1>9. ASSUME NEW j \in 1..(found + 1)
      PROVE  next[n - (found + 1) + 2 * j] = Job("results", Packages[j], v.query)
  <2>1. CASE j = found + 1
    <3>1. n - (found + 1) + 2 * j = n + found + 1
      BY <2>1
    <3>2. QED
      BY <1>3, <2>1, <3>1
  <2>2. CASE j \in 1..found
    <3>1. /\ n - (found + 1) + 2 * j \in 1..(n + found - 1)
          /\ n - (found + 1) + 2 * j + 1 = n - found + 2 * j
      BY <2>2
    <3>2. QED
      BY <1>3, <1>6, <2>2, <3>1
  <2>3. QED
    BY <2>1, <2>2
<1>10. n > 0 /\ found + 1 \in 0..n
  OBVIOUS
<1>11. SearchedBy(n, found + 1, next, v)
  <2>1. \A j \in (found + 1 + 1)..n : next[j - (found + 1)] = Job("package", Packages[j], v.query)
    BY <1>7
  <2>2. \A j \in (0 + 1)..(found + 1) :
          next[n - (found + 1) - 0 - 0 + 2 * j - 1] = Job("members", Packages[j], v.query)
    BY <1>8
  <2>3. \A j \in (0 + 1)..(found + 1) :
          next[n - (found + 1) - 0 - 0 + 2 * j] = Job("results", Packages[j], v.query)
    BY <1>9
  <2>4. QED
    BY <1>3, <1>10, <2>1, <2>2, <2>3 DEF SearchedBy
<1>12. QED
  BY <1>11 DEF next, rest

\* The members of a package are listed before its entities.
LEMMA MembersListed ==
  ASSUME NEW n \in Nat, NEW queue \in Seq(Jobset), queue # <<>>,
         NEW v, Lists(v), SearchedBy(n, n, queue, v),
         Len(v.members) = Len(v.entities), Len(v.members) < n,
         NEW w, w.query = v.query, w.entities = v.entities, w.shownJobs = v.shownJobs,
         w.members = Append(v.members, MemberBlock(Packages[Len(v.members) + 1], v.query))
  PROVE  SearchedBy(n, n, Tail(queue), w)
<1> DEFINE m == Len(v.members)
           rest == Tail(queue)
           block == MemberBlock(Packages[m + 1], v.query)
<1>1. m \in Nat /\ v.members \in Seq(MemberBlocks(v.query))
  BY LenProperties DEF Lists
<1>2. /\ rest \in Seq(Jobset) /\ Len(rest) = Len(queue) - 1
      /\ \A i \in 1..Len(rest) : rest[i] = queue[i + 1]
  BY HeadTailProperties
<1>3. Len(queue) = n + n - m - m
  BY DEF SearchedBy
<1> HIDE DEF rest, block
<1>4. /\ Len(w.members) = m + 1
      /\ \A i \in 1..m : w.members[i] = v.members[i]
      /\ w.members[m + 1] = block
  <2>1. w.members = Append(v.members, block)
    BY DEF block
  <2>2. QED
    BY <1>1, <2>1
<1>5. Len(w.entities) = m
  OBVIOUS
<1>6. \A j \in (m + 1)..n : queue[n - n - m - m + 2 * j - 1] = Job("members", Packages[j], v.query)
  BY DEF SearchedBy
<1>7. \A j \in (m + 1)..n : queue[n - n - m - m + 2 * j] = Job("results", Packages[j], v.query)
  BY DEF SearchedBy
<1>8. \A j \in 1..m : v.members[j] = MemberBlock(Packages[j], v.query)
  BY DEF SearchedBy
<1>9. \A j \in 1..m : v.entities[j] = EntityBlock(Packages[j], v.query)
  BY DEF SearchedBy
<1> HIDE DEF m
<1>10. ASSUME NEW j \in (m + 1 + 1)..n
       PROVE  rest[n - n - (m + 1) - m + 2 * j - 1] = Job("members", Packages[j], w.query)
  <2>1. /\ n - n - (m + 1) - m + 2 * j - 1 \in 1..Len(rest)
        /\ n - n - (m + 1) - m + 2 * j - 1 + 1 = n - n - m - m + 2 * j - 1
    BY <1>1, <1>2, <1>3, <1>10
  <2>2. j \in (m + 1)..n
    BY <1>1, <1>10
  <2>3. QED
    BY <1>1, <1>2, <1>6, <2>1, <2>2
<1>11. ASSUME NEW j \in (m + 1)..n
       PROVE  rest[n - n - (m + 1) - m + 2 * j] = Job("results", Packages[j], w.query)
  <2>1. /\ n - n - (m + 1) - m + 2 * j \in 1..Len(rest)
        /\ n - n - (m + 1) - m + 2 * j + 1 = n - n - m - m + 2 * j
    BY <1>1, <1>2, <1>3, <1>11
  <2>2. QED
    BY <1>1, <1>2, <1>7, <1>11, <2>1
<1>12. ASSUME NEW j \in 1..(m + 1)
       PROVE  w.members[j] = MemberBlock(Packages[j], w.query)
  <2>1. CASE j \in 1..m
    BY <1>4, <1>8, <2>1
  <2>2. CASE j = m + 1
    <3>1. block = MemberBlock(Packages[m + 1], w.query)
      BY DEF block
    <3>2. QED
      BY <1>4, <2>2, <3>1
  <2>3. j \in 1..m \/ j = m + 1
    BY <1>1, <1>12
  <2>4. QED
    BY <2>1, <2>2, <2>3
<1>13. \A j \in 1..m : w.entities[j] = EntityBlock(Packages[j], w.query)
  BY <1>9
<1>14. /\ n > 0 /\ n \in 0..n /\ m + 1 <= n
       /\ Len(rest) = n + n - (m + 1) - m
       /\ m # n
  BY <1>1, <1>2, <1>3 DEF m
<1>15. \A j \in (n + 1)..n : rest[j - n] = Job("package", Packages[j], w.query)
  OBVIOUS
<1>16. SearchedBy(n, n, rest, w)
  BY <1>1, <1>4, <1>5, <1>10, <1>11, <1>12, <1>13, <1>14, <1>15 DEF SearchedBy
<1>17. QED
  BY <1>16 DEF rest

\* The last entities leave nothing to do, and a progress bar that is full.
LEMMA EntitiesListed ==
  ASSUME NEW n \in Nat, NEW queue \in Seq(Jobset), queue # <<>>,
         NEW v, Lists(v), SearchedBy(n, n, queue, v), Len(v.members) = Len(v.entities) + 1,
         NEW w, w.query = v.query, w.members = v.members, w.shownJobs = Len(Tail(queue)),
         w.entities = Append(v.entities, EntityBlock(Packages[Len(v.entities) + 1], v.query))
  PROVE  SearchedBy(n, n, Tail(queue), w)
<1> DEFINE e == Len(v.entities)
           rest == Tail(queue)
           block == EntityBlock(Packages[e + 1], v.query)
<1>1. e \in Nat /\ v.entities \in Seq(EntityBlocks(v.query))
  BY LenProperties DEF Lists
<1>2. /\ rest \in Seq(Jobset) /\ Len(rest) = Len(queue) - 1
      /\ \A i \in 1..Len(rest) : rest[i] = queue[i + 1]
  BY HeadTailProperties
<1>3. Len(queue) = n + n - (e + 1) - e
  BY DEF SearchedBy
<1>4. w.shownJobs = Len(rest)
  OBVIOUS
<1> HIDE DEF rest, block
<1>5. /\ Len(w.entities) = e + 1
      /\ \A i \in 1..e : w.entities[i] = v.entities[i]
      /\ w.entities[e + 1] = block
  <2>1. w.entities = Append(v.entities, block)
    BY DEF block
  <2>2. QED
    BY <1>1, <2>1
<1>6. Len(w.members) = e + 1
  OBVIOUS
<1>7. \A j \in (e + 1 + 1)..n :
        queue[n - n - (e + 1) - e + 2 * j - 1] = Job("members", Packages[j], v.query)
  BY DEF SearchedBy
<1>8. \A j \in (e + 1)..n : queue[n - n - (e + 1) - e + 2 * j] = Job("results", Packages[j], v.query)
  BY DEF SearchedBy
<1>9. \A j \in 1..(e + 1) : w.members[j] = MemberBlock(Packages[j], w.query)
  BY DEF SearchedBy
<1>10. \A j \in 1..e : v.entities[j] = EntityBlock(Packages[j], v.query)
  BY DEF SearchedBy
<1>11. e + 1 <= n /\ n > 0
  BY DEF SearchedBy
<1> HIDE DEF e
<1>12. ASSUME NEW j \in (e + 1 + 1)..n
       PROVE  rest[n - n - (e + 1) - (e + 1) + 2 * j - 1] = Job("members", Packages[j], w.query)
  <2>1. /\ n - n - (e + 1) - (e + 1) + 2 * j - 1 \in 1..Len(rest)
        /\ n - n - (e + 1) - (e + 1) + 2 * j - 1 + 1 = n - n - (e + 1) - e + 2 * j - 1
    BY <1>1, <1>2, <1>3, <1>12
  <2>2. QED
    BY <1>1, <1>2, <1>7, <1>12, <2>1
<1>13. ASSUME NEW j \in (e + 1 + 1)..n
       PROVE  rest[n - n - (e + 1) - (e + 1) + 2 * j] = Job("results", Packages[j], w.query)
  <2>1. /\ n - n - (e + 1) - (e + 1) + 2 * j \in 1..Len(rest)
        /\ n - n - (e + 1) - (e + 1) + 2 * j + 1 = n - n - (e + 1) - e + 2 * j
    BY <1>1, <1>2, <1>3, <1>13
  <2>2. j \in (e + 1)..n
    BY <1>1, <1>13
  <2>3. QED
    BY <1>1, <1>2, <1>8, <2>1, <2>2
<1>14. ASSUME NEW j \in 1..(e + 1)
       PROVE  w.entities[j] = EntityBlock(Packages[j], w.query)
  <2>1. CASE j \in 1..e
    BY <1>5, <1>10, <2>1
  <2>2. CASE j = e + 1
    <3>1. block = EntityBlock(Packages[e + 1], w.query)
      BY DEF block
    <3>2. QED
      BY <1>5, <2>2, <3>1
  <2>3. j \in 1..e \/ j = e + 1
    BY <1>1, <1>14
  <2>4. QED
    BY <2>1, <2>2, <2>3
<1>15. /\ n \in 0..n
       /\ Len(rest) = n + n - (e + 1) - (e + 1)
       /\ e + 1 = n => w.shownJobs = 0
  <2>1. Len(rest) = n + n - (e + 1) - (e + 1)
    BY <1>1, <1>2, <1>3
  <2>2. ASSUME e + 1 = n PROVE Len(rest) = 0
    BY <1>1, <2>1, <2>2
  <2>3. e + 1 = n => w.shownJobs = 0
    BY <1>4, <2>2
  <2>4. QED
    BY <2>1, <2>3
<1>16. \A j \in (n + 1)..n : rest[j - n] = Job("package", Packages[j], w.query)
  OBVIOUS
<1>17. SearchedBy(n, n, rest, w)
  BY <1>1, <1>5, <1>6, <1>9, <1>11, <1>12, <1>13, <1>14, <1>15, <1>16 DEF SearchedBy
<1>18. QED
  BY <1>17 DEF rest

LEMMA FourthReplaced ==
  ASSUME NEW queues \in [1..4 -> Seq(Jobset)], NEW q
  PROVE  [queues EXCEPT ![4] = q][4] = q
OBVIOUS

\* The head of the search queue is taken for a search job, and for no other.
LEMMA TakenFromQueue ==
  ASSUME NEW s \in Running, HasWork(s), NEW query, s.queues \in QueuesOf(query)
  PROVE  \/ /\ NextWork(s).fn \in {"package", "members", "results"}
            /\ s.queues[4] # <<>> /\ NextWork(s) = Head(s.queues[4])
            /\ Taken(s).queues[4] = Tail(s.queues[4])
         \/ /\ NextWork(s).fn \notin {"package", "members", "results"}
            /\ Taken(s).queues[4] = s.queues[4]
<1> DEFINE i == NextIndex(s)
<1>1. i \in 1..4 /\ s.queues[i] # <<>>
  BY NextQueueHasWork
<1>2. i \in {1, 4}
  BY <1>1 DEF QueuesOf
<1>3. Taken(s) = Requeued(s, i, Tail(s.queues[i])) /\ NextWork(s) = Head(s.queues[i])
  BY DEF Taken, Requeued, NextWork
<1> HIDE DEF i
<1>4. Tail(s.queues[i]) \in Seq(Jobset)
  BY <1>1, HeadTailProperties DEF Running, Queues
<1>5. Requeued(s, i, Tail(s.queues[i])).queues = [s.queues EXCEPT ![i] = Tail(s.queues[i])]
  BY <1>4, QueueReplaced
<1>6. s.queues \in [1..4 -> Seq(Jobset)]
  BY DEF QueuesOf, Queues
<1>7. CASE i = 1
  <2>1. Head(s.queues[1]) \in PageJobset
    BY <1>1, <1>7, HeadTailProperties DEF QueuesOf
  <2>2. Head(s.queues[1]).fn \notin {"package", "members", "results"}
    BY <2>1 DEF PageJobset
  <2>3. Taken(s).queues[4] = s.queues[4]
    BY <1>3, <1>5, <1>6, <1>7
  <2>4. QED
    BY <1>3, <1>7, <2>2, <2>3
<1>8. CASE i = 4
  <2>1. Head(s.queues[4]) \in SearchJobset(query)
    BY <1>1, <1>8, HeadTailProperties DEF QueuesOf
  <2>2. Head(s.queues[4]).fn \in {"package", "members", "results"}
    BY <2>1 DEF SearchJobset
  <2>3. Taken(s).queues = [s.queues EXCEPT ![4] = Tail(s.queues[4])]
    BY <1>3, <1>5, <1>8, Zenon
  <2>4. Taken(s).queues[4] = Tail(s.queues[4])
    BY <1>6, <2>3, FourthReplaced
  <2>5. QED
    BY <1>1, <1>3, <1>8, <2>2, <2>4
<1>9. QED
  BY <1>2, <1>7, <1>8

LEMMA DueOfQueue ==
  ASSUME Inv, OneQuery, NEW fn, Due(fn)
  PROVE  \/ /\ fn \in {"package", "members", "results"}
            /\ sched.queues[4] # <<>> /\ Work = Head(sched.queues[4])
            /\ Rest.queues[4] = Tail(sched.queues[4])
         \/ /\ fn \notin {"package", "members", "results"}
            /\ Rest.queues[4] = sched.queues[4]
<1>1. sched \in Armed
  BY TimerArmed DEF Due
<1>2. Fired(sched) \in Running /\ Fired(sched).queues = sched.queues
  BY <1>1, FiredRuns
<1>3. HasWork(Fired(sched)) /\ NextWork(Fired(sched)) = NextWork(sched)
  BY <1>2 DEF Due, HasWork, NextWork, NextIndex
<1>4. Fired(sched).queues \in QueuesOf(view.query)
  BY <1>2 DEF OneQuery
<1>5. NextWork(sched).fn = fn
  BY DEF Due
<1>6. QED
  BY <1>2, <1>3, <1>4, <1>5, TakenFromQueue DEF Rest, Work

\* What is added to the search queue goes behind the other jobs.
LEMMA SearchJobsBehind ==
  ASSUME NEW s \in States, NEW works \in Seq(Jobset)
  PROVE  AddAll(s, "search", works).queues[4] = s.queues[4] \o works
<1>1. \A name : AddAll(s, name, works).queues =
                  [s.queues EXCEPT ![IndexOf(s, name)] = s.queues[IndexOf(s, name)] \o works]
  BY AddAllQueues
<1>2. IndexOf(s, "search") = 4
  BY QueuesOfState, IndexOfLabels
<1>3. s.queues \in [1..4 -> Seq(Jobset)]
  BY QueuesOfState DEF Queues
<1>4. AddAll(s, "search", works).queues = [s.queues EXCEPT ![4] = s.queues[4] \o works]
  BY <1>1, <1>2
<1>5. QED
  BY <1>3, <1>4, FourthReplaced

LEMMA SearchJobBehind ==
  ASSUME NEW s \in States, NEW work \in Jobset
  PROVE  Add(s, "search", work).queues[4] = s.queues[4] \o <<work>>
<1>1. <<work>> \in Seq(Jobset)
  OBVIOUS
<1>2. QED
  BY <1>1, SearchJobsBehind DEF Add

\* A search of all packages begins with a page that lists nothing; that of a
\* malformed text ends there.
LEMMA SearchStarts ==
  ASSUME NEW s \in Armed \cup Quiet, NEW text \in Query, text # None,
         NEW v, NEW shown \in BOOLEAN, Len(Packages) = 0 => ~shown
  PROVE  LET queue == SearchAllJobs(s, text).queues[4]
             w == SearchAllView(v, text)
         IN  \/ ~shown /\ queue = <<>>
             \/ /\ w.query \notin Malformed
                /\ \E found \in 0..Len(Packages) : SearchedBy(Len(Packages), found, queue, w)
             \/ /\ w.query \in Malformed /\ Len(Packages) > 0
                /\ queue = <<>> /\ w.entities = <<>> /\ w.members = <<>>
<1> DEFINE queue == SearchAllJobs(s, text).queues[4]
           w == SearchAllView(v, text)
           n == Len(Packages)
<1>1. n \in Nat /\ DOMAIN Packages = 1..n
  BY SearchConstants
<1>2. queue = PackageJobs(text)
  <2> DEFINE cleared == Clear(s, "search")
  <2>1. cleared \in States
    BY ClearGuarded, StatesOfInv
  <2>2. IndexOf(s, "search") = 4
    BY StatesOfInv, QueuesOfState, IndexOfLabels
  <2>3. cleared.queues[4] = <<>>
    <3>1. s \in States /\ s.queues \in [1..4 -> Seq(Jobset)]
      BY StatesOfInv, QueuesOfState DEF Queues
    <3>2. cleared = Requeued(s, 4, <<>>)
      BY <2>2 DEF Clear, Requeued
    <3>3. <<>> \in Seq(Jobset)
      OBVIOUS
    <3>4. Requeued(s, 4, <<>>).queues = [s.queues EXCEPT ![4] = <<>>]
      BY <3>1, <3>3, QueueReplaced DEF States
    <3>5. QED
      BY <3>1, <3>2, <3>4, FourthReplaced
  <2>4. PackageJobs(text) \in Seq(Jobset)
    BY JobsAreJobs
  <2>5. SearchAllJobs(s, text) = AddAll(cleared, "search", PackageJobs(text))
    BY DEF SearchAllJobs
  <2> HIDE DEF cleared
  <2>6. SearchAllJobs(s, text).queues[4] = <<>> \o PackageJobs(text)
    BY <2>1, <2>3, <2>4, <2>5, SearchJobsBehind
  <2>7. QED
    BY <2>4, <2>6, ConcatEmptySeq
<1>3. ASSUME text \notin Malformed
      PROVE  Len(queue) = n /\ \A j \in 1..n : queue[j] = Job("package", Packages[j], text)
  BY <1>1, <1>2, <1>3 DEF PackageJobs
<1>4. w.query = text /\ w.members = <<>> /\ w.entities = <<>>
  BY DEF SearchAllView, Blank
<1>5. queue \in Seq(Jobset)
  BY <1>2, JobsAreJobs
<1>6. text \in Malformed => queue = <<>>
  BY <1>2 DEF PackageJobs
<1> HIDE DEF queue, w, n
<1>7. CASE n = 0
  <2>1. queue = <<>>
    BY <1>3, <1>5, <1>6, <1>7, EmptySeq
  <2>2. ~shown
    BY <1>7 DEF n
  <2>3. QED
    BY <2>1, <2>2 DEF queue
<1>8. CASE n # 0 /\ text \in Malformed
  BY <1>1, <1>4, <1>6, <1>8 DEF n, queue, w
<1>9. CASE n # 0 /\ text \notin Malformed
  <2>1. Len(w.members) = 0 /\ Len(w.entities) = 0
    BY <1>4
  <2>2. \A j \in (0 + 1)..n : queue[j - 0] = Job("package", Packages[j], w.query)
    BY <1>1, <1>3, <1>4, <1>9
  <2>3. SearchedBy(n, 0, queue, w)
    BY <1>1, <1>3, <1>9, <2>1, <2>2 DEF SearchedBy
  <2>4. 0 \in 0..n
    BY <1>1
  <2>5. QED
    BY <1>4, <1>9, <2>3, <2>4 DEF n, queue, w
<1>10. QED
  BY <1>7, <1>8, <1>9 DEF queue, w

\* Jobs of the page leave the search queue as it is.
LEMMA PageJobsElsewhere ==
  ASSUME NEW s \in States, NEW works \in Seq(Jobset)
  PROVE  AddAll(s, "init", works).queues[4] = s.queues[4]
<1>1. IndexOf(s, "init") = 1
  BY QueuesOfState, IndexOfLabels
<1>2. s.queues \in [1..4 -> Seq(Jobset)]
  BY QueuesOfState DEF Queues
<1>3. \A name : AddAll(s, name, works).queues =
                  [s.queues EXCEPT ![IndexOf(s, name)] = s.queues[IndexOf(s, name)] \o works]
  BY AddAllQueues
<1>4. AddAll(s, "init", works).queues = [s.queues EXCEPT ![1] = s.queues[1] \o works]
  BY <1>1, <1>3
<1>5. [s.queues EXCEPT ![1] = s.queues[1] \o works][4] = s.queues[4]
  BY <1>2
<1>6. QED
  BY <1>4, <1>5

\* searchAll of no text.
LEMMA SearchCleared ==
  ASSUME NEW s \in Armed \cup Quiet
  PROVE  SearchAllJobs(s, None).queues[4] = <<>>
<1>1. s \in States /\ s.queues \in [1..4 -> Seq(Jobset)]
  BY StatesOfInv, QueuesOfState DEF Queues
<1>2. SearchAllJobs(s, None) = Requeued(s, 4, <<>>)
  BY <1>1, QueuesOfState, IndexOfLabels DEF SearchAllJobs, Clear, Requeued
<1>3. <<>> \in Seq(Jobset)
  OBVIOUS
<1>4. Requeued(s, 4, <<>>).queues = [s.queues EXCEPT ![4] = <<>>]
  BY <1>1, <1>3, QueueReplaced DEF States
<1>5. QED
  BY <1>1, <1>2, <1>4, FourthReplaced

LEMMA ViewLists ==
  ASSUME Inv, OneQuery
  PROVE  Lists(view) /\ sched.queues[4] \in Seq(Jobset) /\ Len(Packages) \in Nat
<1>1. Lists(view)
  BY DEF OneQuery, ViewsOf, Lists
<1>2. sched.queues[4] \in Seq(Jobset)
  BY DEF OneQuery, QueuesOf, Queues
<1>3. QED
  BY <1>1, <1>2, SearchConstants

LEMMA InitProgress == Init => Progress
<1> SUFFICES ASSUME Init PROVE Progress
  OBVIOUS
<1>1. ~panel /\ input \in Query \cup {None} /\ view = SearchAllView(Blank(None), input)
  BY DEF Init
<1>2. Ready \in Armed \cup Quiet
  BY LabelledQuiet, JobsAreJobs, AddAllGuarded DEF Ready
<1>3. CASE input = None
  <2>1. Labelled \in States /\ Labelled.queues[4] = <<>>
    BY LabelledQuiet, StatesOfInv, LabelsOfPage
  <2>2. Ready.queues[4] = <<>>
    BY <2>1, JobsAreJobs, PageJobsElsewhere DEF Ready
  <2>3. sched = Ready
    BY <1>3 DEF Init
  <2>4. QED
    BY <1>1, <2>2, <2>3 DEF Progress
<1>4. CASE input # None
  <2>1. sched = SearchAllJobs(Ready, input) /\ input \in Query /\ panel \in BOOLEAN
    BY <1>1, <1>4 DEF Init
  <2>2. QED
    BY <1>1, <1>2, <1>4, <2>1, SearchStarts DEF Progress
<1>5. QED
  BY <1>3, <1>4

LEMMA SearchAllProgress ==
  ASSUME Inv, UserTyped, Progress, NEW text \in Query \cup {None}, SearchAll(text)
  PROVE  Progress'
<1>1. sched \in Armed \cup Quiet /\ panel \in BOOLEAN
  BY DEF Inv, UserTyped
<1>2. /\ sched' = SearchAllJobs(sched, text) /\ view' = SearchAllView(view, text)
      /\ panel' = (panel /\ text # None)
  BY DEF SearchAll
<1>3. CASE text = None
  <2>1. sched'.queues[4] = <<>>
    BY <1>1, <1>2, <1>3, SearchCleared
  <2>2. ~panel'
    BY <1>2, <1>3
  <2>3. QED
    BY <2>1, <2>2 DEF Progress
<1>4. CASE text # None
  <2>1. Len(Packages) = 0 => ~panel
    <3>1. \A found : SearchedBy(Len(Packages), found, sched.queues[4], view) => Len(Packages) > 0
      BY DEF SearchedBy
    <3>2. QED
      BY <3>1, SearchConstants DEF Progress
  <2>2. panel' = panel
    BY <1>1, <1>2, <1>4
  <2>3. text \in Query
    BY <1>4
  <2>4. PICK q, w, shown : q = sched'.queues[4] /\ w = view' /\ shown = panel'
    OBVIOUS
  <2>5. \/ ~shown /\ q = <<>>
        \/ /\ w.query \notin Malformed
           /\ \E found \in 0..Len(Packages) : SearchedBy(Len(Packages), found, q, w)
        \/ /\ w.query \in Malformed /\ Len(Packages) > 0
           /\ q = <<>> /\ w.entities = <<>> /\ w.members = <<>>
    BY <1>1, <1>2, <1>4, <2>1, <2>2, <2>3, <2>4, SearchStarts
  <2>6. QED
    BY <2>4, <2>5 DEF Progress
<1>5. QED
  BY <1>3, <1>4

LEMMA TimerProgress ==
  ASSUME Inv, OneQuery, Progress, Timer
  PROVE  Progress'
<1> DEFINE n == Len(Packages)
           queue == sched.queues[4]
<1>1. Lists(view) /\ queue \in Seq(Jobset) /\ n \in Nat
  BY ViewLists
<1>2. ASSUME queue # <<>>
      PROVE  /\ view.query \notin Malformed
             /\ \E found \in 0..n : SearchedBy(n, found, queue, view)
  BY <1>2 DEF Progress
<1>3. ASSUME queue # <<>>,
             NEW q, NEW w, q = sched'.queues[4], w = view', w.query = view.query,
             NEW found \in 0..n, SearchedBy(n, found, q, w)
      PROVE  Progress'
  BY <1>2, <1>3 DEF Progress
<1> HIDE DEF n, queue
<1>4. CASE RunPackage
  <2>1. /\ Rest \in Running /\ Rest.queues \in QueuesOf(view.query)
        /\ Work \in PageJobset \cup SearchJobset(view.query) /\ Work.fn = "package"
    BY <1>4, DueOfQuery DEF RunPackage
  <2>2. queue # <<>> /\ Work = Head(queue) /\ Rest.queues[4] = Tail(queue)
    BY <1>4, DueOfQueue DEF RunPackage, queue
  <2>3. PICK found \in 0..n : SearchedBy(n, found, queue, view)
    BY <1>2, <2>2
  <2>4. /\ found < n /\ Len(view.members) = 0 /\ Len(view.entities) = 0
        /\ Head(queue) = Job("package", Packages[found + 1], view.query)
    <3>1. \A pack : Job("members", pack, view.query).fn = "members"
      BY DEF Job
    <3>2. \A pack : Job("results", pack, view.query).fn = "results"
      BY DEF Job
    <3>3. QED
      BY <1>1, <2>1, <2>2, <2>3, <3>1, <3>2, NextJob
  <2> DEFINE members == Job("members", Work.pack, Work.query)
             results == Job("results", Work.pack, Work.query)
             one == Add(Rest, "search", members)
             two == Add(one, "search", results)
  <2>5. Work.pack = Packages[found + 1] /\ Work.query = view.query
    BY <2>2, <2>4 DEF Job
  <2>6. sched' = DoWork(two) /\ view' = view
    BY <1>4 DEF RunPackage
  <2>7. members \in Jobset /\ results \in Jobset
    BY <2>1 DEF PageJobset, SearchJobset, Job, Jobset
  <2>8. /\ members = Job("members", Packages[found + 1], view.query)
        /\ results = Job("results", Packages[found + 1], view.query)
    BY <2>5
  <2> HIDE DEF members, results
  <2>9. one \in Running /\ Rest \in States /\ one \in States
    BY <2>1, <2>7, AddGuarded DEF States
  <2>10. one.queues[4] = Tail(queue) \o <<members>>
    BY <2>2, <2>7, <2>9, SearchJobBehind
  <2> HIDE DEF one
  <2>11. two \in Running
    BY <2>7, <2>9, AddGuarded
  <2>12. two.queues[4] = (Tail(queue) \o <<members>>) \o <<results>>
    BY <2>7, <2>9, <2>10, SearchJobBehind
  <2> HIDE DEF two
  <2>13. sched'.queues = two.queues
    BY <2>6, <2>11, SameQueues
  <2>14. SearchedBy(n, found + 1, (Tail(queue) \o <<members>>) \o <<results>>, view)
    BY <1>1, <2>2, <2>3, <2>4, <2>7, <2>8, PackageSearched
  <2>15. found + 1 \in 0..n
    BY <1>1, <2>4
  <2>16. QED
    BY <1>3, <2>2, <2>6, <2>12, <2>13, <2>14, <2>15
<1>5. CASE RunMembers
  <2>1. Rest \in Running /\ Work.fn = "members"
    BY <1>5, DueOfQuery DEF RunMembers
  <2>2. queue # <<>> /\ Work = Head(queue) /\ Rest.queues[4] = Tail(queue)
    BY <1>5, DueOfQueue DEF RunMembers, queue
  <2>3. PICK found \in 0..n : SearchedBy(n, found, queue, view)
    BY <1>2, <2>2
  <2>4. /\ found = n /\ Len(view.members) = Len(view.entities) /\ Len(view.members) < n
        /\ Head(queue) = Job("members", Packages[Len(view.members) + 1], view.query)
    <3>1. \A pack : Job("package", pack, view.query).fn = "package"
      BY DEF Job
    <3>2. \A pack : Job("results", pack, view.query).fn = "results"
      BY DEF Job
    <3>3. QED
      BY <1>1, <2>1, <2>2, <2>3, <3>1, <3>2, NextJob
  <2>5. Work.pack = Packages[Len(view.members) + 1] /\ Work.query = view.query
    BY <2>2, <2>4 DEF Job
  <2>6. sched'.queues[4] = Tail(queue)
    BY <1>5, <2>1, <2>2, SameQueues DEF RunMembers
  <2>7. PICK w : w = view'
    OBVIOUS
  <2>8. /\ w.query = view.query /\ w.entities = view.entities /\ w.shownJobs = view.shownJobs
        /\ w.members = Append(view.members,
                              MemberBlock(Packages[Len(view.members) + 1], view.query))
    <3>1. w = [view EXCEPT !.members = Append(view.members, MemberBlock(Work.pack, Work.query))]
      BY <1>5, <2>7 DEF RunMembers
    <3>2. QED
      BY <2>5, <3>1 DEF OneQuery, ViewsOf
  <2>9. SearchedBy(n, n, Tail(queue), w)
    BY <1>1, <2>2, <2>3, <2>4, <2>8, MembersListed
  <2>10. n \in 0..n
    BY <1>1
  <2>11. QED
    BY <1>3, <2>2, <2>6, <2>7, <2>8, <2>9, <2>10
<1>6. CASE RunResults
  <2>1. /\ Rest \in Running /\ Rest.queues \in QueuesOf(view.query)
        /\ Work.fn = "results"
    BY <1>6, DueOfQuery DEF RunResults
  <2>2. queue # <<>> /\ Work = Head(queue) /\ Rest.queues[4] = Tail(queue)
    BY <1>6, DueOfQueue DEF RunResults, queue
  <2>3. PICK found \in 0..n : SearchedBy(n, found, queue, view)
    BY <1>2, <2>2
  <2>4. /\ found = n /\ Len(view.members) = Len(view.entities) + 1
        /\ Head(queue) = Job("results", Packages[Len(view.entities) + 1], view.query)
    <3>1. \A pack : Job("package", pack, view.query).fn = "package"
      BY DEF Job
    <3>2. \A pack : Job("members", pack, view.query).fn = "members"
      BY DEF Job
    <3>3. QED
      BY <1>1, <2>1, <2>2, <2>3, <3>1, <3>2, NextJob
  <2>5. Work.pack = Packages[Len(view.entities) + 1] /\ Work.query = view.query
    BY <2>2, <2>4 DEF Job
  <2>6. sched'.queues[4] = Tail(queue)
    BY <1>6, <2>1, <2>2, SameQueues DEF RunResults
  <2>7. NumberOfJobs(Rest, "search") = Len(Tail(queue))
    <3>1. IndexOf(Rest, "search") = 4
      BY <2>1, QueuesOfState, IndexOfLabels DEF States
    <3>2. QED
      BY <2>2, <3>1 DEF NumberOfJobs, Jobs
  <2>8. PICK w : w = view'
    OBVIOUS
  <2>9. /\ w.query = view.query /\ w.members = view.members /\ w.shownJobs = Len(Tail(queue))
        /\ w.entities = Append(view.entities,
                               EntityBlock(Packages[Len(view.entities) + 1], view.query))
    <3>1. PICK most : w = [view EXCEPT !.entities = Append(view.entities, EntityBlock(Work.pack, Work.query)),
                                       !.maxJobs = most,
                                       !.shownJobs = NumberOfJobs(Rest, "search")]
      BY <1>6, <2>8 DEF RunResults
    <3>2. QED
      BY <2>5, <2>7, <3>1 DEF OneQuery, ViewsOf
  <2>10. SearchedBy(n, n, Tail(queue), w)
    BY <1>1, <2>2, <2>3, <2>4, <2>9, EntitiesListed
  <2>11. n \in 0..n
    BY <1>1
  <2>12. QED
    BY <1>3, <2>2, <2>6, <2>8, <2>9, <2>10, <2>11
<1>7. CASE RunBinding \/ RunNavigation
  <2>1. PICK fn : Due(fn) /\ fn \notin {"package", "members", "results"}
    BY <1>7 DEF RunBinding, RunNavigation
  <2>2. Rest \in Running /\ Rest.queues[4] = sched.queues[4]
    BY <2>1, DueOfQuery, DueOfQueue
  <2>3. sched' = DoWork(Rest) /\ view' = view /\ panel' = panel
    BY <1>7 DEF RunBinding, RunNavigation
  <2>4. sched'.queues = Rest.queues
    BY <2>2, <2>3, SameQueues
  <2>5. QED
    BY <2>2, <2>3, <2>4 DEF Progress
<1>8. CASE RunNothing
  <2>1. sched \in Armed
    BY <1>8, TimerArmed DEF RunNothing
  <2>2. Fired(sched) \in Running /\ Fired(sched).queues = sched.queues
    BY <2>1, FiredRuns
  <2>3. sched' = Idle(Fired(sched)) /\ view' = view /\ panel' = panel
    BY <1>8 DEF RunNothing
  <2>4. sched'.queues = sched.queues
    BY <2>2, <2>3, SameQueues
  <2>5. QED
    BY <2>3, <2>4 DEF Progress
<1>9. QED
  BY <1>4, <1>5, <1>6, <1>7, <1>8 DEF Timer

LEMMA NextProgress == Inv /\ OneQuery /\ UserTyped /\ Progress /\ [Next]_vars => Progress'
<1> SUFFICES ASSUME Inv, OneQuery, UserTyped, Progress, [Next]_vars PROVE Progress'
  OBVIOUS
<1>1. CASE Timer
  BY <1>1, TimerProgress
<1>2. CASE KeyupSearch
  BY <1>2, SearchAllProgress DEF KeyupSearch, Inv
<1>3. CASE KeyupEscape
  BY <1>3, SearchAllProgress DEF KeyupEscape
<1>4. CASE KeyupDown
  <2>1. sched \in States
    BY StatesOfInv DEF Inv
  <2>2. <<Job("navigate", None, None)>> \in Seq(Jobset)
    BY JobsAreJobs
  <2>3. sched'.queues[4] = sched.queues[4] /\ view' = view /\ panel' = panel
    BY <1>4, <2>1, <2>2, PageJobsElsewhere DEF KeyupDown, Add
  <2>4. QED
    BY <2>3 DEF Progress
<1>5. CASE \E text \in Query \cup {None} : Input(text)
  BY <1>5 DEF Progress, Input
<1>6. CASE KeydownMove \/ KeydownUp \/ Focus
  BY <1>6 DEF Progress, KeydownMove, KeydownUp, Focus
<1>7. CASE KeydownEnter
  BY <1>7 DEF Progress, KeydownEnter
<1>8. CASE KeydownEscape \/ ClickClear \/ ClickClose
  BY <1>8 DEF Progress, KeydownEscape, ClickClear, ClickClose
<1>9. CASE UNCHANGED vars
  BY <1>9 DEF Progress, vars
<1>10. QED
  BY <1>1, <1>2, <1>3, <1>4, <1>5, <1>6, <1>7, <1>8, <1>9 DEF Next

LEMMA ProgressComplete == Inv /\ OneQuery /\ Progress => SearchComplete
<1> SUFFICES ASSUME Inv, OneQuery, Progress, panel, Jobs(sched, "search") = <<>>
             PROVE  SearchComplete
  BY DEF SearchComplete
<1>0. CASE view.query \in Malformed
  BY <1>0 DEF SearchComplete, Progress
<1> SUFFICES ASSUME view.query \notin Malformed
             PROVE  /\ view.shownJobs = 0
                    /\ view.entities = [i \in DOMAIN Packages |-> EntityBlock(Packages[i], view.query)]
                    /\ view.members = [i \in DOMAIN Packages |-> MemberBlock(Packages[i], view.query)]
  BY <1>0 DEF SearchComplete
<1> DEFINE n == Len(Packages)
           m == Len(view.members)
           e == Len(view.entities)
<1>1. sched.queues[4] = <<>>
  BY StatesOfInv, QueuesOfState, IndexOfLabels DEF Inv, Jobs
<1>2. PICK found \in 0..n : SearchedBy(n, found, sched.queues[4], view)
  BY DEF Progress
<1>3. Lists(view) /\ n \in Nat /\ DOMAIN Packages = 1..n
  BY ViewLists, SearchConstants
<1>4. /\ m \in Nat /\ DOMAIN view.members = 1..m /\ view.members \in [1..m -> MemberBlocks(view.query)]
      /\ e \in Nat /\ DOMAIN view.entities = 1..e /\ view.entities \in [1..e -> EntityBlocks(view.query)]
  BY <1>3, LenProperties DEF Lists
<1>5. m = n /\ e = n
  <2>1. Len(sched.queues[4]) = 0
    BY <1>1
  <2>2. /\ n > 0 /\ found \in 0..n
        /\ m <= n /\ (m > 0 => found = n)
        /\ 0 = n + found - m - e
    BY <1>2, <2>1 DEF SearchedBy
  <2>3. m = e \/ m = e + 1
    BY <1>2 DEF SearchedBy
  <2> HIDE DEF n, m, e
  <2>4. QED
    BY <1>3, <1>4, <2>2, <2>3
<1>6. view.shownJobs = 0
  BY <1>2, <1>5 DEF SearchedBy
<1>7. \A j \in 1..n : view.members[j] = MemberBlock(Packages[j], view.query)
  BY <1>2, <1>5 DEF SearchedBy
<1>8. \A j \in 1..n : view.entities[j] = EntityBlock(Packages[j], view.query)
  BY <1>2, <1>5 DEF SearchedBy
<1> HIDE DEF n, m, e
<1>9. view.members = [i \in DOMAIN Packages |-> MemberBlock(Packages[i], view.query)]
  BY <1>3, <1>4, <1>5, <1>7
<1>10. view.entities = [i \in DOMAIN Packages |-> EntityBlock(Packages[i], view.query)]
  BY <1>3, <1>4, <1>5, <1>8
<1>11. QED
  BY <1>6, <1>9, <1>10

\* However the user types into a search, hides its results or clears it, what
\* is shown when no job is left is the whole answer to the text it names, or no
\* package at all if that text makes no regular expression (searchAll,
\* compilePattern and handleSearchedPackage of index.js).
THEOREM SearchesComplete == Spec => []SearchComplete
<1>1. Init => Inv /\ OneQuery /\ UserTyped /\ Progress
  BY InitInv, InitOneQuery, InitTyped, InitProgress
<1>2. Inv /\ OneQuery /\ UserTyped /\ Progress /\ [Next]_vars => (Inv /\ OneQuery /\ UserTyped /\ Progress)'
  BY NextInv, NextOneQuery, NextTyped, NextProgress
<1>3. Inv /\ OneQuery /\ Progress => SearchComplete
  BY ProgressComplete
<1>4. QED
  BY <1>1, <1>2, <1>3, PTL DEF Spec

-----------------------------------------------------------------------------
(* The keys of the user.  An iterator has sequences of items on its two    *)
(* sides, which lists of the page are put together from by recursion.      *)

\* Induction, for a set of numbers.
LEMMA NatStep ==
  ASSUME NEW G, 0 \in G, \A k \in Nat : k \in G => k + 1 \in G
  PROVE  Nat \subseteq G
<1> DEFINE Bad == Nat \ G
<1>1. SUFFICES ASSUME Bad # {} PROVE FALSE
  OBVIOUS
<1>2. \E x \in Bad : \A y \in Bad : ~ (<<y, x>> \in OpToRel(<, Nat))
  BY <1>1, NatLessThanWellFounded, WFMin
<1>3. PICK x \in Bad : \A y \in Bad : ~ (y < x)
  BY <1>2 DEF OpToRel
<1>4. x - 1 \in Nat /\ x - 1 < x /\ x - 1 + 1 = x
  BY <1>3
<1>5. x - 1 \in G
  BY <1>3, <1>4
<1>6. QED
  BY <1>3, <1>4, <1>5

Solves(g, n, base, step) == g[0] = base /\ \A i \in 1..n : g[i] = step[i][g[i - 1]]

\* A recursion from a base by n steps has a solution.
LEMMA Recursion ==
  ASSUME NEW S, NEW n \in Nat, NEW base \in S, NEW step \in [1..n -> [S -> S]]
  PROVE  \E g \in [0..n -> S] : Solves(g, n, base, step)
<1> DEFINE upTo(g, k) == g[0] = base /\ \A i \in 1..k : g[i] = step[i][g[i - 1]]
           G == {k \in Nat : k <= n => \E g \in [0..k -> S] : upTo(g, k)}
<1>1. 0 \in G
  <2>1. [j \in 0..0 |-> base] \in [0..0 -> S] /\ upTo([j \in 0..0 |-> base], 0)
    OBVIOUS
  <2>2. QED
    BY <2>1
<1>2. ASSUME NEW k \in Nat, k \in G PROVE k + 1 \in G
  <2>1. SUFFICES ASSUME k + 1 <= n PROVE \E g \in [0..(k + 1) -> S] : upTo(g, k + 1)
    OBVIOUS
  <2>2. PICK g \in [0..k -> S] : upTo(g, k)
    BY <1>2, <2>1
  <2> DEFINE h == [j \in 0..(k + 1) |-> IF j <= k THEN g[j] ELSE step[k + 1][g[k]]]
  <2>3. step[k + 1][g[k]] \in S
    BY <2>1, <2>2
  <2>4. h \in [0..(k + 1) -> S]
    BY <2>2, <2>3
  <2>5. h[0] = base
    BY <2>2
  <2>6. ASSUME NEW i \in 1..(k + 1) PROVE h[i] = step[i][h[i - 1]]
    <3>1. CASE i <= k
      BY <2>2, <2>6, <3>1
    <3>2. CASE i = k + 1
      BY <2>2, <3>2
    <3>3. QED
      BY <2>6, <3>1, <3>2
  <2> HIDE DEF h
  <2>7. QED
    BY <2>4, <2>5, <2>6
<1>3. Nat \subseteq G
  <2> HIDE DEF G
  <2>1. QED
    BY <1>1, <1>2, NatStep
<1>4. QED
  BY <1>3 DEF Solves

LEMMA MatchedIsSeq ==
  ASSUME NEW S, NEW entities \in Seq(S), NEW matching
  PROVE  Matched(entities, matching) \in Seq(S)
<1> DEFINE n == Len(entities)
           IsUpTo(f) ==
             f = [i \in 0..n |-> IF i = 0 THEN <<>>
                                 ELSE IF entities[i] \in matching THEN Append(f[i - 1], entities[i])
                                 ELSE f[i - 1]]
           chosen == CHOOSE f : IsUpTo(f)
           step == [i \in 1..n |-> [s \in Seq(S) |->
                      IF entities[i] \in matching THEN Append(s, entities[i]) ELSE s]]
           G == {k \in Nat : k <= n => chosen[k] \in Seq(S)}
<1>1. n \in Nat /\ \A i \in 1..n : entities[i] \in S
  BY LenProperties, ElementOfSeq
<1>2. <<>> \in Seq(S) /\ \A s \in Seq(S) : \A i \in 1..n : Append(s, entities[i]) \in Seq(S)
  BY <1>1, AppendProperties
<1>3. step \in [1..n -> [Seq(S) -> Seq(S)]]
  BY <1>2
<1> HIDE DEF n
<1>4. PICK g \in [0..n -> Seq(S)] : g[0] = <<>> /\ \A i \in 1..n : g[i] = step[i][g[i - 1]]
  <2> DEFINE empty == <<>>
             T == Seq(S)
  <2>1. empty \in T /\ n \in Nat
    BY <1>1, <1>2
  <2>2. step \in [1..n -> [T -> T]]
    BY <1>3
  <2> HIDE DEF step, empty, T
  <2>3. \E g \in [0..n -> T] : Solves(g, n, empty, step)
    BY <2>1, <2>2, Recursion
  <2>4. QED
    BY <2>3 DEF empty, T, Solves
<1>5. IsUpTo(g)
  <2>1. ASSUME NEW i \in 1..n
        PROVE  g[i] = IF entities[i] \in matching THEN Append(g[i - 1], entities[i]) ELSE g[i - 1]
    <3>1. i - 1 \in 0..n
      BY <1>1
    <3>2. g[i - 1] \in Seq(S)
      BY <1>4, <3>1
    <3>3. QED
      BY <1>4, <3>2
  <2>2. \A i \in 0..n : i = 0 \/ i \in 1..n
    BY <1>1
  <2>3. \A i \in 0..n : g[i] = IF i = 0 THEN <<>>
                               ELSE IF entities[i] \in matching THEN Append(g[i - 1], entities[i])
                               ELSE g[i - 1]
    BY <1>4, <2>1, <2>2
  <2>4. QED
    BY <1>4, <2>3
<1>6. IsUpTo(chosen)
  BY <1>5
<1> HIDE DEF chosen
<1>7. 0 \in G
  BY <1>1, <1>2, <1>6
<1>8. ASSUME NEW k \in Nat, k \in G PROVE k + 1 \in G
  <2>1. SUFFICES ASSUME k + 1 <= n PROVE chosen[k + 1] \in Seq(S)
    OBVIOUS
  <2>2. k + 1 \in 1..n /\ k + 1 # 0 /\ k + 1 - 1 = k
    BY <1>1, <2>1
  <2>3. chosen[k] \in Seq(S)
    BY <1>1, <1>8, <2>1
  <2>4. chosen[k + 1] = IF entities[k + 1] \in matching THEN Append(chosen[k], entities[k + 1])
                                                        ELSE chosen[k]
    <3>1. \A i \in 0..n : chosen[i] =
            IF i = 0 THEN <<>>
            ELSE IF entities[i] \in matching THEN Append(chosen[i - 1], entities[i])
            ELSE chosen[i - 1]
      BY <1>6
    <3>2. k + 1 \in 0..n
      BY <1>1, <2>2
    <3>3. QED
      BY <2>2, <3>1, <3>2
  <2>5. QED
    BY <1>2, <2>2, <2>3, <2>4
<1>9. Nat \subseteq G
  <2> HIDE DEF G
  <2>1. QED
    BY <1>7, <1>8, NatStep
<1>10. chosen[n] \in Seq(S)
  BY <1>1, <1>9
<1>11. Matched(entities, matching) = chosen[n]
  BY DEF Matched, chosen, n
<1>12. QED
  BY <1>10, <1>11

LEMMA FlattenIsSeq ==
  ASSUME NEW S, NEW seqs \in Seq(Seq(S))
  PROVE  FlattenSeq(seqs) \in Seq(S)
<1> DEFINE n == Len(seqs)
           IsFlat(f) == f = [i \in 1..n |-> IF i = 1 THEN seqs[i] ELSE f[i - 1] \o seqs[i]]
           chosen == CHOOSE f : IsFlat(f)
           step == [i \in 1..n |-> [s \in Seq(S) |-> s \o seqs[i]]]
           G == {k \in Nat : k + 1 <= n => chosen[k + 1] \in Seq(S)}
<1>1. n \in Nat /\ \A i \in 1..n : seqs[i] \in Seq(S)
  BY LenProperties, ElementOfSeq
<1>2. <<>> \in Seq(S) /\ \A s \in Seq(S) : \A i \in 1..n : s \o seqs[i] \in Seq(S)
  BY <1>1, ConcatProperties
<1>3. step \in [1..n -> [Seq(S) -> Seq(S)]]
  BY <1>2
<1> HIDE DEF n
<1>4. PICK g \in [0..n -> Seq(S)] : g[0] = <<>> /\ \A i \in 1..n : g[i] = step[i][g[i - 1]]
  <2> DEFINE empty == <<>>
             T == Seq(S)
  <2>1. empty \in T /\ n \in Nat
    BY <1>1, <1>2
  <2>2. step \in [1..n -> [T -> T]]
    BY <1>3
  <2> HIDE DEF step, empty, T
  <2>3. \E g \in [0..n -> T] : Solves(g, n, empty, step)
    BY <2>1, <2>2, Recursion
  <2>4. QED
    BY <2>3 DEF empty, T, Solves
<1> DEFINE h == [i \in 1..n |-> g[i]]
<1>5. IsFlat(h)
  <2>1. ASSUME NEW i \in 1..n
        PROVE  h[i] = IF i = 1 THEN seqs[i] ELSE h[i - 1] \o seqs[i]
    <3>1. i - 1 \in 0..n
      BY <1>1
    <3>2. g[i - 1] \in Seq(S)
      BY <1>4, <3>1
    <3>3. g[i] = g[i - 1] \o seqs[i]
      BY <1>4, <3>2
    <3>4. CASE i = 1
      <4>1. i - 1 = 0
        BY <3>4
      <4>2. g[i - 1] = <<>>
        BY <1>4, <4>1
      <4>3. g[i] = <<>> \o seqs[i]
        BY <3>3, <4>2
      <4>4. seqs[i] \in Seq(S)
        BY <1>1
      <4>5. g[i] = seqs[i]
        BY <4>3, <4>4, ConcatEmptySeq
      <4>6. QED
        BY <3>4, <4>5
    <3>5. CASE i # 1
      <4>1. i - 1 \in 1..n
        BY <1>1, <3>5
      <4>2. QED
        BY <3>3, <3>5, <4>1
    <3>6. QED
      BY <3>4, <3>5
  <2>2. QED
    BY <2>1
<1>6. IsFlat(chosen)
  <2> HIDE DEF h
  <2>1. QED
    BY <1>5
<1> HIDE DEF chosen
<1>7. 0 \in G
  BY <1>1, <1>2, <1>6
<1>8. ASSUME NEW k \in Nat, k \in G PROVE k + 1 \in G
  <2>1. SUFFICES ASSUME k + 1 + 1 <= n PROVE chosen[k + 1 + 1] \in Seq(S)
    OBVIOUS
  <2>2. k + 1 + 1 \in 1..n /\ k + 1 + 1 # 1 /\ k + 1 + 1 - 1 = k + 1
    BY <1>1, <2>1
  <2>3. chosen[k + 1] \in Seq(S)
    BY <1>1, <1>8, <2>1
  <2>4. chosen[k + 1 + 1] = chosen[k + 1] \o seqs[k + 1 + 1]
    <3>1. \A i \in 1..n : chosen[i] = IF i = 1 THEN seqs[i] ELSE chosen[i - 1] \o seqs[i]
      BY <1>6
    <3>2. PICK i : i = k + 1 + 1
      OBVIOUS
    <3>3. i \in 1..n /\ i # 1 /\ i - 1 = k + 1
      BY <2>2, <3>2
    <3>4. chosen[i] = chosen[k + 1] \o seqs[i]
      BY <3>1, <3>3
    <3>5. QED
      BY <3>2, <3>4
  <2>5. QED
    BY <1>2, <2>2, <2>3, <2>4
<1>9. Nat \subseteq G
  <2> HIDE DEF G
  <2>1. QED
    BY <1>7, <1>8, NatStep
<1>10. CASE n = 0
  <2>1. FlattenSeq(seqs) = seqs
    BY <1>10 DEF FlattenSeq, n
  <2>2. seqs = <<>>
    BY <1>10, EmptySeq DEF n
  <2>3. QED
    BY <1>2, <2>1, <2>2
<1>11. CASE n # 0
  <2>1. n - 1 \in Nat /\ n - 1 + 1 = n
    BY <1>1, <1>11
  <2>2. chosen[n] \in Seq(S)
    BY <1>9, <2>1
  <2>3. FlattenSeq(seqs) = chosen[n]
    BY <1>11 DEF FlattenSeq, chosen, n
  <2>4. QED
    BY <2>2, <2>3
<1>12. QED
  BY <1>10, <1>11

AnyEntity == UNION {Range(Entities[p]) : p \in DOMAIN Entities}

LEMMA BlockItems ==
  ASSUME NEW pack \in Packs, NEW query, NEW matching
  PROVE  Block(pack, query, matching).items \in Seq(AnyEntity)
<1>1. pack \in DOMAIN Entities
  BY SearchConstants, ElementOfSeq DEF Packs, Range
<1>2. Entities[pack] \in Seq(Range(Entities[pack])) /\ Range(Entities[pack]) \subseteq AnyEntity
  BY <1>1, SearchConstants DEF AnyEntity
<1>3. Matched(Entities[pack], matching[query]) \in Seq(Range(Entities[pack]))
  BY <1>2, MatchedIsSeq
<1>4. Matched(Entities[pack], matching[query]) \in Seq(AnyEntity)
  BY <1>2, <1>3, SeqMonotonic
<1>5. QED
  BY <1>4 DEF Block

LEMMA ItemsAreItems ==
  ASSUME NEW B, \A b \in B : b.items \in Seq(AnyEntity), NEW blocks \in Seq(B)
  PROVE  ItemsOf(blocks) \in Seq(AnyEntity)
<1> DEFINE lists == [i \in DOMAIN blocks |-> blocks[i].items]
<1>1. DOMAIN blocks = 1..Len(blocks) /\ Len(blocks) \in Nat
  BY LenProperties
<1>2. \A i \in DOMAIN blocks : blocks[i].items \in Seq(AnyEntity)
  BY <1>1, ElementOfSeq
<1>3. lists \in [1..Len(blocks) -> Seq(AnyEntity)]
  BY <1>1, <1>2
<1> HIDE DEF lists
<1>4. lists \in Seq(Seq(AnyEntity))
  BY <1>1, <1>3, FunctionIsSeq
<1>5. FlattenSeq(lists) \in Seq(AnyEntity)
  BY <1>4, FlattenIsSeq
<1>6. QED
  BY <1>5 DEF ItemsOf, lists

LEMMA ViewItems ==
  ASSUME OneQuery
  PROVE  ItemsOf(view.entities) \in Seq(AnyEntity) /\ ItemsOf(view.members) \in Seq(AnyEntity)
<1>1. view.entities \in Seq(EntityBlocks(view.query)) /\ view.members \in Seq(MemberBlocks(view.query))
  BY DEF OneQuery, ViewsOf
<1>2. \A b \in EntityBlocks(view.query) : b.items \in Seq(AnyEntity)
  BY BlockItems DEF EntityBlocks, EntityBlock
<1>3. \A b \in MemberBlocks(view.query) : b.items \in Seq(AnyEntity)
  BY BlockItems DEF MemberBlocks, MemberBlock
<1>4. QED
  BY <1>1, <1>2, <1>3, ItemsAreItems

LEMMA Smaller ==
  ASSUME NEW a \in Int, NEW b \in Int
  PROVE  Min({a, b}) = IF a <= b THEN a ELSE b
BY DEF Min

LEMMA Larger ==
  ASSUME NEW a \in Int, NEW b \in Int
  PROVE  Max({a, b}) = IF a <= b THEN b ELSE a
BY DEF Max

\* An iterator is on a side that has items, if one has any, and on one of them.
Iterators ==
  [litems : Seq(AnyEntity), ritems : Seq(AnyEntity), onLeft : BOOLEAN, index : Int,
   old : AnyEntity \cup {None}]

Sided(it) ==
  /\ it \in Iterators
  /\ it.onLeft = TRUE => Len(it.litems) > 0
  /\ it.onLeft = FALSE /\ Len(it.ritems) = 0 => Len(it.litems) = 0

Placed(it) ==
  /\ Sided(it)
  /\ Length(it) = 0 => it.index = -1
  /\ Length(it) > 0 => it.index \in 0..(Length(it) - 1)

LEMMA Lengths ==
  ASSUME NEW it \in Iterators
  PROVE  /\ Len(it.litems) \in Nat /\ Len(it.ritems) \in Nat /\ it.index \in Int
         /\ it.litems = <<>> <=> Len(it.litems) = 0
         /\ it.ritems = <<>> <=> Len(it.ritems) = 0
         /\ \/ it.onLeft = TRUE /\ Length(it) = Len(it.litems)
            \/ it.onLeft = FALSE /\ Length(it) = Len(it.ritems)
<1>1. it.litems \in Seq(AnyEntity) /\ it.ritems \in Seq(AnyEntity) /\ it.index \in Int
  BY DEF Iterators
<1>2. /\ it.litems = <<>> <=> Len(it.litems) = 0
      /\ it.ritems = <<>> <=> Len(it.ritems) = 0
      /\ Len(it.litems) \in Nat /\ Len(it.ritems) \in Nat
  BY <1>1, EmptySeq, LenProperties
<1>3. it.onLeft = TRUE \/ it.onLeft = FALSE
  BY Zenon DEF Iterators
<1>4. it.onLeft = TRUE => Length(it) = Len(it.litems)
  BY Zenon DEF Length
<1>5. it.onLeft = FALSE => Length(it) = Len(it.ritems)
  BY Zenon DEF Length
<1>6. QED
  BY <1>1, <1>2, <1>3, <1>4, <1>5, Zenon

LEMMA ToFields ==
  ASSUME NEW it \in Iterators, NEW k \in Int
  PROVE  /\ To(it, k) \in Iterators
         /\ To(it, k).litems = it.litems /\ To(it, k).ritems = it.ritems
         /\ To(it, k).onLeft = it.onLeft /\ To(it, k).index = k
         /\ Length(To(it, k)) = Length(it)
<1> DEFINE item == ItemAt(it, k)
<1>1. item \in AnyEntity \cup {None}
  <2> DEFINE items == IF it.onLeft THEN it.litems ELSE it.ritems
  <2>1. items \in Seq(AnyEntity)
    BY Zenon DEF Iterators
  <2>2. item = IF k + 1 \in DOMAIN items THEN items[k + 1] ELSE None
    BY DEF ItemAt
  <2> HIDE DEF items, item
  <2>3. k + 1 \in DOMAIN items => items[k + 1] \in AnyEntity
    BY <2>1, LenProperties, ElementOfSeq
  <2>4. QED
    BY <2>2, <2>3
<1>2. To(it, k) = [it EXCEPT !.index = k, !.old = item]
  BY DEF To
<1> HIDE DEF item
<1>3. /\ [it EXCEPT !.index = k, !.old = item] \in Iterators
      /\ [it EXCEPT !.index = k, !.old = item].litems = it.litems
      /\ [it EXCEPT !.index = k, !.old = item].ritems = it.ritems
      /\ [it EXCEPT !.index = k, !.old = item].onLeft = it.onLeft
      /\ [it EXCEPT !.index = k, !.old = item].index = k
  BY <1>1, Zenon DEF Iterators
<1>4. QED
  BY <1>2, <1>3, Zenon DEF Length

LEMMA TurnFields ==
  ASSUME NEW it \in Iterators, NEW left \in BOOLEAN
  PROVE  LET there == [it EXCEPT !.onLeft = left] IN
         /\ there \in Iterators
         /\ there.litems = it.litems /\ there.ritems = it.ritems
         /\ there.onLeft = left /\ there.index = it.index
BY Zenon DEF Iterators

\* Down: an item further, if there is one.
LEMMA NextPlaced ==
  ASSUME NEW it, Sided(it), it.index \in (-1)..(Length(it) - 1)
  PROVE  Placed(NextItem(it))
<1>1. it \in Iterators
  BY DEF Sided
<1> DEFINE k == IF Length(it) - 1 <= it.index + 1 THEN Length(it) - 1 ELSE it.index + 1
<1>2. Length(it) \in Nat /\ it.index \in Int
  BY <1>1, Lengths
<1>3. NextItem(it) = To(it, k) /\ k \in Int
  BY <1>2, Smaller DEF NextItem
<1>4. /\ Length(it) = 0 => k = -1
      /\ Length(it) > 0 => k \in 0..(Length(it) - 1)
  BY <1>2
<1> HIDE DEF k
<1>5. Sided(To(it, k))
  BY <1>1, <1>3, ToFields DEF Sided
<1>6. To(it, k).index = k /\ Length(To(it, k)) = Length(it)
  BY <1>1, <1>3, ToFields
<1>7. Placed(To(it, k))
  BY <1>4, <1>5, <1>6 DEF Placed
<1>8. QED
  BY <1>3, <1>7

\* Up: an item back, or past the first.
LEMMA PrevPlaced ==
  ASSUME NEW it, Placed(it)
  PROVE  PrevItem(it).index = -1 \/ Placed(PrevItem(it))
<1>1. it \in Iterators
  BY DEF Placed, Sided
<1> DEFINE k == IF -1 <= it.index - 1 THEN it.index - 1 ELSE -1
<1>2. Length(it) \in Nat /\ it.index \in Int
  BY <1>1, Lengths
<1>3. PrevItem(it) = To(it, k) /\ k \in Int
  BY <1>2, Larger DEF PrevItem
<1>4. k = -1 \/ k \in 0..(Length(it) - 1)
  BY <1>2 DEF Placed
<1>5. PrevItem(it).index = k
  BY <1>1, <1>3, ToFields
<1> HIDE DEF k
<1>6. CASE k = -1
  BY <1>5, <1>6
<1>7. CASE k \in 0..(Length(it) - 1)
  <2>1. Sided(To(it, k))
    BY <1>1, <1>3, ToFields DEF Placed, Sided
  <2>2. Length(it) # 0
    BY <1>2, <1>7
  <2>3. To(it, k).index = k /\ Length(To(it, k)) = Length(it)
    BY <1>1, <1>3, ToFields
  <2>4. Placed(To(it, k))
    BY <1>7, <2>1, <2>2, <2>3 DEF Placed
  <2>5. QED
    BY <1>3, <2>4
<1>8. QED
  BY <1>4, <1>6, <1>7

LEMMA StaysPlaced ==
  ASSUME NEW it, Placed(it)
  PROVE  Placed(To(it, it.index))
<1>1. it \in Iterators /\ it.index \in Int
  BY Lengths DEF Placed, Sided
<1>2. QED
  BY <1>1, ToFields DEF Placed, Sided

LEMMA HasItems ==
  ASSUME NEW it, Placed(it), Len(it.litems) > 0 \/ Len(it.ritems) > 0
  PROVE  Length(it) \in Nat /\ it.index \in 0..(Length(it) - 1)
<1>1. it \in Iterators
  BY DEF Placed, Sided
<1>2. /\ Len(it.litems) \in Nat /\ Len(it.ritems) \in Nat
      /\ \/ it.onLeft = TRUE /\ Length(it) = Len(it.litems)
         \/ it.onLeft = FALSE /\ Length(it) = Len(it.ritems)
  BY <1>1, Lengths
<1>3. CASE it.onLeft = TRUE /\ Length(it) = Len(it.litems)
  <2>1. Len(it.litems) > 0
    BY <1>3, Zenon DEF Placed, Sided
  <2>2. QED
    BY <1>2, <1>3, <2>1 DEF Placed
<1>4. CASE it.onLeft = FALSE /\ Length(it) = Len(it.ritems)
  <2>1. Len(it.ritems) = 0 => Len(it.litems) = 0
    BY <1>4, Zenon DEF Placed, Sided
  <2>2. Len(it.ritems) > 0
    BY <1>2, <2>1
  <2>3. QED
    BY <1>2, <1>4, <2>2 DEF Placed
<1>5. QED
  BY <1>2, <1>3, <1>4, Zenon

\* The other side has items: the same one, or the last.
LEMMA TurnedPlaced ==
  ASSUME NEW it, Placed(it), NEW there \in Iterators,
         there.litems = it.litems, there.ritems = it.ritems,
         Length(there) > 0,
         \/ there.onLeft = TRUE /\ Len(it.litems) > 0
         \/ there.onLeft = FALSE /\ Len(it.ritems) > 0
  PROVE  Placed(To(there, Min({it.index, Length(there) - 1})))
<1> DEFINE k == IF it.index <= Length(there) - 1 THEN it.index ELSE Length(there) - 1
<1>1. it.index \in Int /\ it.index >= 0
  <2>1. Len(it.litems) > 0 \/ Len(it.ritems) > 0
    BY Zenon
  <2>2. Length(it) \in Nat /\ it.index \in 0..(Length(it) - 1)
    BY <2>1, HasItems
  <2>3. QED
    BY <2>2
<1>2. Length(there) \in Nat
  BY Lengths
<1>3. Min({it.index, Length(there) - 1}) = k
  BY <1>1, <1>2, Smaller
<1>4. k \in Int /\ k \in 0..(Length(there) - 1)
  BY <1>1, <1>2
<1> HIDE DEF k
<1>5. PICK r : r = To(there, k)
  OBVIOUS
<1>6. /\ r \in Iterators
      /\ r.litems = it.litems /\ r.ritems = it.ritems
      /\ r.onLeft = there.onLeft /\ r.index = k
      /\ Length(r) = Length(there)
  BY <1>4, <1>5, ToFields
<1>7. Sided(r)
  <2>1. CASE there.onLeft = TRUE /\ Len(it.litems) > 0
    <3>1. r.onLeft = TRUE /\ Len(r.litems) > 0 /\ ~ (r.onLeft = FALSE)
      BY <1>6, <2>1, Zenon
    <3>2. QED
      BY <1>6, <3>1, Zenon DEF Sided
  <2>2. CASE there.onLeft = FALSE /\ Len(it.ritems) > 0
    <3>1. r.onLeft = FALSE /\ ~ (r.onLeft = TRUE)
      BY <1>6, <2>2, Zenon
    <3>2. Len(it.ritems) # 0
      BY <2>2
    <3>3. Len(r.ritems) # 0
      BY <1>6, <3>2, Zenon
    <3>4. QED
      BY <1>6, <3>1, <3>3, Zenon DEF Sided
  <2>3. QED
    BY <2>1, <2>2, Zenon
<1>8. Length(r) # 0 /\ r.index \in 0..(Length(r) - 1)
  BY <1>2, <1>4, <1>6
<1>9. Placed(r)
  BY <1>7, <1>8 DEF Placed
<1>10. QED
  BY <1>3, <1>5, <1>9, Zenon

\* Left and right.
LEMMA RightPlaced ==
  ASSUME NEW it, Placed(it)
  PROVE  Placed(RightItem(it))
<1>1. it \in Iterators
  BY DEF Placed, Sided
<1>2. CASE it.ritems = <<>>
  BY <1>2, StaysPlaced DEF RightItem
<1>3. CASE it.ritems # <<>>
  <2> DEFINE there == [it EXCEPT !.onLeft = FALSE]
  <2>1. /\ there \in Iterators /\ there.litems = it.litems /\ there.ritems = it.ritems
        /\ there.onLeft = FALSE
    BY <1>1, TurnFields, Zenon
  <2>2. RightItem(it) = To(there, Min({it.index, Length(there) - 1}))
    BY <1>3 DEF RightItem
  <2> HIDE DEF there
  <2>3. Length(there) = Len(it.ritems)
    BY <2>1, Zenon DEF Length
  <2>4. Len(it.ritems) > 0
    BY <1>1, <1>3, Lengths
  <2>5. Length(there) > 0
    BY <2>3, <2>4
  <2>6. Placed(To(there, Min({it.index, Length(there) - 1})))
    BY <2>1, <2>4, <2>5, TurnedPlaced, Zenon
  <2>7. QED
    BY <2>2, <2>6, Zenon
<1>4. QED
  BY <1>2, <1>3

LEMMA LeftPlaced ==
  ASSUME NEW it, Placed(it)
  PROVE  Placed(LeftItem(it))
<1>1. it \in Iterators
  BY DEF Placed, Sided
<1>2. CASE it.litems = <<>>
  BY <1>2, StaysPlaced DEF LeftItem
<1>3. CASE it.litems # <<>>
  <2> DEFINE there == [it EXCEPT !.onLeft = TRUE]
  <2>1. /\ there \in Iterators /\ there.litems = it.litems /\ there.ritems = it.ritems
        /\ there.onLeft = TRUE
    BY <1>1, TurnFields, Zenon
  <2>2. LeftItem(it) = To(there, Min({it.index, Length(there) - 1}))
    BY <1>3 DEF LeftItem
  <2> HIDE DEF there
  <2>3. Length(there) = Len(it.litems)
    BY <2>1, Zenon DEF Length
  <2>4. Len(it.litems) > 0
    BY <1>1, <1>3, Lengths
  <2>5. Length(there) > 0
    BY <2>3, <2>4
  <2>6. Placed(To(there, Min({it.index, Length(there) - 1})))
    BY <2>1, <2>4, <2>5, TurnedPlaced, Zenon
  <2>7. QED
    BY <2>2, <2>6, Zenon
<1>4. QED
  BY <1>2, <1>3

PlacedIterators == {it \in Iterators : Placed(it)}

Selected == nav \in Seq(PlacedIterators)

LEMMA InitSelected == Init => Selected
<1>1. <<>> \in Seq(PlacedIterators)
  OBVIOUS
<1>2. QED
  BY <1>1 DEF Init, Selected

LEMMA NextSelected == OneQuery /\ Selected /\ [Next]_vars => Selected'
<1> SUFFICES ASSUME OneQuery, Selected, [Next]_vars PROVE Selected'
  OBVIOUS
<1> DEFINE n == Len(nav)
<1>1. nav \in Seq(PlacedIterators) /\ n \in Nat /\ DOMAIN nav = 1..n
  BY LenProperties DEF Selected
<1>2. \A i \in 1..n : nav[i] \in PlacedIterators /\ Placed(nav[i])
  BY <1>1, ElementOfSeq DEF PlacedIterators
<1>3. \A it : Placed(it) => it \in PlacedIterators
  BY DEF Placed, Sided, PlacedIterators
<1>4. ASSUME nav' = nav PROVE Selected'
  BY <1>1, <1>4 DEF Selected
<1>5. CASE RunNavigation
  <2> DEFINE it == EntityIterator(ItemsOf(view.entities), ItemsOf(view.members))
  <2>1. ItemsOf(view.entities) \in Seq(AnyEntity) /\ ItemsOf(view.members) \in Seq(AnyEntity)
    BY ViewItems
  <2>2. it \in Iterators /\ it.index = -1
    BY <2>1 DEF EntityIterator, Iterators
  <2>3. it.litems = <<>> => it.onLeft = FALSE
    BY Zenon DEF EntityIterator
  <2>4. it.litems # <<>> => it.onLeft = TRUE
    BY Zenon DEF EntityIterator
  <2>5. nav' = Append(nav, NextItem(it))
    BY <1>5 DEF RunNavigation
  <2> HIDE DEF it
  <2>6. Sided(it)
    <3>1. it.litems = <<>> <=> Len(it.litems) = 0
      BY <2>2, Lengths
    <3>2. Len(it.litems) \in Nat
      BY <2>2, Lengths
    <3>3. CASE it.litems = <<>>
      <4>1. ~ (it.onLeft = TRUE)
        BY <2>3, <3>3, Zenon
      <4>2. QED
        BY <2>2, <3>1, <3>3, <4>1, Zenon DEF Sided
    <3>4. CASE it.litems # <<>>
      <4>1. ~ (it.onLeft = FALSE)
        BY <2>4, <3>4, Zenon
      <4>2. Len(it.litems) > 0
        BY <3>1, <3>2, <3>4
      <4>3. QED
        BY <2>2, <4>1, <4>2, Zenon DEF Sided
    <3>5. QED
      BY <3>3, <3>4
  <2>7. it.index \in (-1)..(Length(it) - 1)
    <3>1. Length(it) \in Nat
      BY <2>2, Lengths
    <3>2. QED
      BY <2>2, <3>1
  <2>8. NextItem(it) \in PlacedIterators
    BY <1>3, <2>6, <2>7, NextPlaced
  <2>9. QED
    BY <1>1, <2>5, <2>8, AppendProperties DEF Selected
<1>6. CASE KeydownMove
  <2>1. ASSUME NEW i \in 1..n PROVE NextItem(nav[i]) \in PlacedIterators
    <3>1. nav[i] \in Iterators /\ Placed(nav[i]) /\ Sided(nav[i])
      BY <1>2 DEF Placed, Sided
    <3>2. Length(nav[i]) \in Nat /\ nav[i].index \in Int
      BY <3>1, Lengths
    <3>3. nav[i].index \in (-1)..(Length(nav[i]) - 1)
      BY <3>1, <3>2 DEF Placed
    <3>4. QED
      BY <1>3, <3>1, <3>3, NextPlaced
  <2>2. CASE nav' = [i \in DOMAIN nav |-> NextItem(nav[i])]
    <3>1. nav' \in [1..n -> PlacedIterators]
      BY <1>1, <2>1, <2>2
    <3>2. QED
      BY <1>1, <3>1, FunctionIsSeq DEF Selected
  <2>3. ASSUME NEW left \in BOOLEAN, Sideways(left) PROVE Selected'
    <3>1. \A i \in 1..n : RightItem(nav[i]) \in PlacedIterators /\ LeftItem(nav[i]) \in PlacedIterators
      BY <1>2, <1>3, RightPlaced, LeftPlaced
    <3>2. PICK called : nav' = [i \in DOMAIN nav |->
                                  IF i \notin called THEN nav[i]
                                  ELSE IF left THEN LeftItem(nav[i]) ELSE RightItem(nav[i])]
      BY <2>3 DEF Sideways
    <3>3. nav' \in [1..n -> PlacedIterators]
      BY <1>1, <1>2, <3>1, <3>2
    <3>4. QED
      BY <1>1, <3>3, FunctionIsSeq DEF Selected
  <2>4. QED
    BY <1>6, <2>2, <2>3 DEF KeydownMove
<1>7. CASE KeydownUp
  <2> DEFINE moved == [i \in DOMAIN nav |-> PrevItem(nav[i])]
             top == \E i \in DOMAIN moved : moved[i].index = -1
  <2>1. nav' = IF top THEN <<>> ELSE moved
    BY <1>7 DEF KeydownUp
  <2>2. CASE top
    <3>1. nav' = <<>>
      BY <2>1, <2>2
    <3>2. QED
      BY <3>1 DEF Selected
  <2>3. CASE ~top
    <3>1. \A i \in 1..n : PrevItem(nav[i]).index # -1
      BY <1>1, <2>3
    <3>2. \A i \in 1..n : PrevItem(nav[i]) \in PlacedIterators
      BY <1>2, <1>3, <3>1, PrevPlaced
    <3>3. nav' \in [1..n -> PlacedIterators]
      BY <1>1, <2>1, <2>3, <3>2
    <3>4. QED
      BY <1>1, <3>3, FunctionIsSeq DEF Selected
  <2>4. QED
    BY <2>2, <2>3
<1>8. CASE KeyupDown
  BY <1>8 DEF KeyupDown, Selected
<1>9. CASE RunPackage \/ RunMembers \/ RunResults \/ RunBinding \/ RunNothing
  BY <1>4, <1>9 DEF RunPackage, RunMembers, RunResults, RunBinding, RunNothing
<1>10. CASE KeydownEnter \/ KeydownEscape \/ Focus
  BY <1>4, <1>10 DEF KeydownEnter, KeydownEscape, Focus
<1>11. CASE \E text \in Query \cup {None} : Input(text)
  BY <1>4, <1>11 DEF Input
<1>12. CASE KeyupSearch \/ KeyupEscape \/ ClickClear \/ ClickClose
  BY <1>4, <1>12 DEF KeyupSearch, KeyupEscape, ClickClear, ClickClose
<1>13. CASE UNCHANGED vars
  BY <1>4, <1>13 DEF vars
<1>14. QED
  BY <1>5, <1>6, <1>7, <1>8, <1>9, <1>10, <1>11, <1>12, <1>13 DEF Next, Timer

LEMMA SelectedInBounds == Selected => SelectionInBounds
<1> SUFFICES ASSUME Selected, NEW i \in DOMAIN nav
             PROVE  IF nav[i].litems \o nav[i].ritems = <<>>
                    THEN nav[i].index = -1
                    ELSE nav[i].index \in 0..(Length(nav[i]) - 1)
  BY DEF SelectionInBounds
<1> DEFINE it == nav[i]
<1>1. it \in Iterators /\ Placed(it)
  <2>1. nav[i] \in PlacedIterators
    BY LenProperties, ElementOfSeq DEF Selected
  <2>2. QED
    BY <2>1 DEF PlacedIterators
<1> HIDE DEF it
<1>2. it.litems \in Seq(AnyEntity) /\ it.ritems \in Seq(AnyEntity)
  BY <1>1 DEF Iterators
<1>3. it.litems \o it.ritems = <<>> <=> it.litems = <<>> /\ it.ritems = <<>>
  BY <1>2, ConcatEqualIffEmpty
<1>4. /\ Len(it.litems) \in Nat /\ Len(it.ritems) \in Nat
      /\ it.litems = <<>> <=> Len(it.litems) = 0
      /\ it.ritems = <<>> <=> Len(it.ritems) = 0
      /\ \/ it.onLeft = TRUE /\ Length(it) = Len(it.litems)
         \/ it.onLeft = FALSE /\ Length(it) = Len(it.ritems)
  BY <1>1, Lengths
<1>5. CASE it.litems = <<>> /\ it.ritems = <<>>
  <2>1. Len(it.litems) = 0 /\ Len(it.ritems) = 0
    BY <1>4, <1>5
  <2>2. Length(it) = 0
    BY <1>4, <2>1, Zenon
  <2>3. it.index = -1
    BY <1>1, <2>2 DEF Placed
  <2>4. QED
    BY <1>3, <1>5, <2>3 DEF it
<1>6. CASE ~ (it.litems = <<>> /\ it.ritems = <<>>)
  <2>1. Len(it.litems) > 0 \/ Len(it.ritems) > 0
    BY <1>4, <1>6
  <2>2. it.index \in 0..(Length(it) - 1)
    BY <1>1, <2>1, HasItems
  <2>3. QED
    BY <1>3, <1>6, <2>2 DEF it
<1>7. QED
  BY <1>5, <1>6

\* The keys keep to an item of the side they are on, if the page at the time
\* of the job had any: the other side may be the shorter or the empty one
\* (EntityIterator of index.js).
THEOREM SelectionStays == Spec => []SelectionInBounds
<1>1. Init => Inv /\ OneQuery /\ Selected
  BY InitInv, InitOneQuery, InitSelected
<1>2. Inv /\ OneQuery /\ Selected /\ [Next]_vars => (Inv /\ OneQuery /\ Selected)'
  BY NextInv, NextOneQuery, NextSelected
<1>3. Selected => SelectionInBounds
  BY SelectedInBounds
<1>4. QED
  BY <1>1, <1>2, <1>3, PTL DEF Spec

=============================================================================
