----------------------------- MODULE Scheduler ------------------------------
(***************************************************************************)
(* The job scheduler of the scaladoc pages (scheduler.js): labelled queues *)
(* in the order of their priorities, and one browser timer that takes the  *)
(* first job of the first queue that has one.  The scheduler is a record   *)
(*   labels   the labels, each with its name and priority                  *)
(*   queues   the queue of each label, at the same index                   *)
(*   timeout  whether scheduler.timeout is defined: it keeps the id of a   *)
(*            timer that has fired while that timer's job runs             *)
(*   timers   how many of its timers the browser still has to fire         *)
(* and its methods are operators on that record.  Jobs are left to the     *)
(* module that uses it: it runs a job between Taken and DoWork.            *)
(***************************************************************************)
EXTENDS Integers, Sequences, SequencesExt, FiniteSets

NewScheduler == [labels |-> <<>>, queues |-> <<>>, timeout |-> FALSE, timers |-> 0]

\* A faulty variant: the comparison is the wrong way round.
BeforeReversed(s, priority) ==
  Cardinality({i \in DOMAIN s.labels : \A j \in 1..i : s.labels[j].priority > priority})

\* splice: insert at a 0-based index.  A label goes after those of its priority.
Before(s, priority) ==
  Cardinality({i \in DOMAIN s.labels : \A j \in 1..i : s.labels[j].priority <= priority})

AddLabel(s, name, priority) ==
  LET idx == Before(s, priority) + 1
  IN  [s EXCEPT !.labels = InsertAt(@, idx, [name |-> name, priority |-> priority]),
                !.queues = InsertAt(@, idx, <<>>)]

Has(s, name) == \E i \in DOMAIN s.labels : s.labels[i].name = name

IndexOf(s, name) ==
  CHOOSE i \in DOMAIN s.labels :
    /\ s.labels[i].name = name
    /\ \A j \in 1..(i - 1) : s.labels[j].name # name

Jobs(s, name) == s.queues[IndexOf(s, name)]
NumberOfJobs(s, name) == Len(Jobs(s, name))

HasWork(s) == \E i \in DOMAIN s.queues : s.queues[i] # <<>>

NextIndex(s) ==
  CHOOSE i \in DOMAIN s.queues :
    s.queues[i] # <<>> /\ \A j \in 1..(i - 1) : s.queues[j] = <<>>

NextWork(s) == Head(s.queues[NextIndex(s)])
Taken(s) == [s EXCEPT !.queues[NextIndex(s)] = Tail(@)]

\* The inner doWork of add: another timer.
DoWork(s) == [s EXCEPT !.timeout = TRUE, !.timers = @ + 1]

\* A faulty variant: every add makes a timer.
AddAllAlwaysArms(s, name, works) ==
  LET queued == [s EXCEPT !.queues[IndexOf(s, name)] = @ \o works]
  IN  IF works = <<>> THEN queued ELSE DoWork(queued)

\* A loop of add calls with the same label; add is the loop of one job.
AddAll(s, name, works) ==
  LET queued == [s EXCEPT !.queues[IndexOf(s, name)] = @ \o works]
  IN  IF works = <<>> \/ s.timeout THEN queued ELSE DoWork(queued)

Add(s, name, work) == AddAll(s, name, <<work>>)

Clear(s, name) == [s EXCEPT !.queues[IndexOf(s, name)] = <<>>]

\* The callback of a timer, up to the job it runs.
Fired(s) == [s EXCEPT !.timers = @ - 1]
\* A faulty variant: the id of the last timer is kept.
IdleKeepsId(s) == s

Idle(s) == [s EXCEPT !.timeout = FALSE]

=============================================================================
