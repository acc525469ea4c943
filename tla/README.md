# A TLA+ verification project for canal 1.1.5

The repository is a collection of notes and vendored software around Java
programming. The program in it that has logic of its own in source form is
**canal 1.1.5** (`src/jar/canal-canal-1.1.5`), a server that reads the binlog of
MySQL like a replica, keeps the events in memory and serves them to clients in
batches which they acknowledge, with a console in the browser (`admin/admin-ui`)
to administer its servers. Beside it, kafka-manager comes with the scripts of
its documentation, whose search page has a job scheduler of its own
(`src/jar/kafka-manager-2.0.0.2/share/doc/api/lib`). This directory holds TLA+
modules of canal's core, of the console and of the search page, TLC
configurations that check them, and proofs that TLAPS checks. Paths below are
relative to `src/jar/canal-canal-1.1.5`, or to that `lib` for the search page.

## 1. The system

```
 MySQL ─binlog─> EventParser ─lists─> EventSink ──put──> EventStore <─get/ack/rollback─ CanalServer <── client
                  (dump loop,         (retry; group        (ring of                       │
                 transaction buffer)    barrier)            events)                  MetaManager ──> meta.dat / ZooKeeper
                      ^                                                                   │
                      └────────────── start position = cursor of the client ──────────────┘
```

A *destination* is one such pipeline (a `CanalInstance`). One server runs many;
with ZooKeeper one of several servers runs a given destination.

| Component | State | Operations | Hard part | What makes it correct | Modelled in |
|---|---|---|---|---|---|
| Event store (`store/.../MemoryEventStoreWithBuffer`) | ring of slots; put, get and ack cursors; three memory counters; one lock, two conditions | `put`, `tryPut`, `get`, `tryGet`, `ack` (by position or sequence), `rollback`, `getFirstPosition`, `start`, `stop` | wrap-around, acks that come late, two limits (slots and bytes), signals that wake one thread | nothing unacked is overwritten or lost; a waiter whose condition holds is woken; to one caller it is a queue that replays | `MemoryEventStore`, `BlockingEventStore`, `AtLeastOnceQueue` |
| Meta manager in memory (`meta/.../MemoryMetaManager`) | subscription, cursor, unacked batches and next batch id of a client | subscribe, unsubscribe, cursor, add, remove, clear batches | batches must be acked in order | only the oldest batch can be removed | `MemoryMetaManager` |
| File meta manager (`FileMixedMetaManager`) | the same, `meta.dat`, a set of pending cursor updates, one executor thread | timer flush, flush after subscribe, flush at stop, load | a snapshot written later than it was taken; a crash within a write | neither memory nor file is ahead of the acks | `FileMixedMetaManager` |
| Embedded server (`server/.../CanalServerWithEmbedded`) | running destinations; uses store and meta manager | `subscribe`, `unsubscribe`, `get`, `getWithoutAck`, `ack`, `rollback`, `rollback(batchId)` | `get` and `rollback` hold the instance's monitor, `ack` and `subscribe` do not | batch ids in the order of the data; released means acked; cursor behind acks | `CanalServerWithEmbedded` |
| Netty handler (`SessionHandler`) | none of its own | one request at a time per connection | the reply is read after the monitor is left | complete replies | in `CanalServerWithEmbedded` |
| Event parser (`parse/.../AbstractEventParser`, `EventTransactionBuffer`, log position managers) | parser thread, transaction buffer, last position | dump, flush, retry, start position | restart in the middle of a transaction with part of it stored | nothing is skipped, order is kept | `EventParser` |
| Sink (`sink/.../EntryEventSink`) | counters | filter, retry `tryPut` | store full | list is stored or the dump starts over | in `EventParser` |
| Group sink (`GroupEventSink`, `TimelineBarrier`, `TimelineTransactionBarrier`) | queue of time stamps, threshold, transaction state, thread-local flags | `await`, `clear`, `interrupt` per event | lock-free changes next to locked ones; one parser's reset while another is inside | transactions stay whole, no parser is overtaken while it waits, no deadlock | `GroupEventSink` |
| Instance (`AbstractCanalInstance`) | its parts | start and stop in order | a crash keeps only the file | at least once from binlog to client | `CanalDestination` |
| Server HA (`ServerRunningMonitor`), client (`ClusterCanalConnector`, `ClientRunningMonitor`) | ephemeral node, mutex, active data | create, watch, release | session loss between two steps, stale events | one active server per destination | planned |
| ZooKeeper/period/mixed meta managers | as the file one, over ZooKeeper | | | | not modelled |
| MQ starter, connectors, client adapter | worker loop, switch, ETL lock | get, send, ack or rollback | an exception between get and ack | every message is sent before its ack | not modelled |
| MySQL driver, GTID sets, binlog decoder | intervals per server id; bytes | `parse`, `combine`, `update` | intervals out of order | set semantics | GTID sets planned |
| Admin console: session (`admin-ui/src/permission.js`, `store/modules/user.js`, `utils/request.js`, login, `UserInfo`, `Navbar`; `UserController`) | a token in the cookie of the browser and in the store of each tab; the server's login cache | login, logout, navigation guard, re-login box, account page | tabs share the cookie but not the store; answers come late, after another navigation or another tab's logout | the cookie belongs to a tab; a button spins only for a call; redirects end | `AdminSession` |
| Admin console: pages (`admin-ui/src/views/canalServer`) | list, dialog, details, form, question of a page; calls in flight | fetch, create, update, delete, switch, save, load | an answer that finds another dialog, address or page than the one that asked; another administrator | masks end, creations are new, one owner per configuration | `AdminConsole` |
| Admin console: services (`admin-web/.../service/impl`) | clusters, servers, configurations, instances | one service per call | checks and updates of several tables | as the pages | `AdminBackend` |
| Scaladoc search (`index.js`, `scheduler.js`) | labelled job queues, one browser timer; the results on the page | add, clear; search, navigate by keys, clear, close | jobs of an old search between the keys of a new one; a job that adds jobs | one timer while there is work; results of one query, complete at the end | `Scheduler`, `SearchIndex` |
| Scaladoc template and diagrams (`template.js`, `diagrams.js`) | the classes of the page's elements | filter members, show and scale diagrams | each handler runs to its end | | not modelled |
| Parallel parser, table meta, filters, layout of the console, deployer, prometheus, protocol, examples | | | | | not modelled (see `PROJECT.json`) |

Console, services and canal servers:

```
 tab 1 ─ pages ─┐  calls, served once, delivered in any order   ┌─ tables (AdminBackend)
   store.token  ├──────────────> services of the admin server ──┤
 tab 2 ─ pages ─┘                  login cache (loginUsers)     └─ commands to canal servers
       └── one cookie for all tabs
```

Kafka and Jenkins, and the rest of kafka-manager, are present as distributions
and scripts only; the rest of the repository is notes.

## 2. Plan

Order: what can lose data first, then what only delays it.

1. `MemoryEventStore` with the abstract queue it implements, `BlockingEventStore`
   on top of it, and the proofs about the store. *Done, with proofs.*
2. `MemoryMetaManager` and `CanalServerWithEmbedded` over the store: the races
   between requests. *Done, with proofs.*
3. `EventParser`, `FileMixedMetaManager` and their composition with store and
   client in `CanalDestination`: faults from end to end. *Done, with proofs.*
4. `GroupEventSink`: the barrier between the parsers of a group. *Done, with
   proofs.*
5. `Scheduler` and `SearchIndex`: the search page, whose jobs interleave with
   the keys of the user. *Done, with proofs.*
6. `AdminSession`: several tabs, one cookie, one login cache. *Done, with proofs.*
7. `AdminBackend` and `AdminConsole`: the pages and their calls against tables
   that others change too. *Done, with proofs.*
8. `ServerRunningMonitor`: the running node in ZooKeeper, several servers, lost
   sessions, delayed takeovers; with it the cluster client's repeated calls.
   One passing run: at most one server holds the node and believes so while its
   session lives, and some server takes over in the end.
9. GTID sets (`UUIDSet.combine`, `MysqlGTIDSet.update`) as functions against
   sets of numbers; the switch and retry loop of the client adapter; the member
   filter of `template.js` as a function of query, visibility and hidden owners.

Every safety property of a passing run has its theorem (section 6). Theorems
still worth having: that `AtLeastOnceQueue` itself never forgets what it has not
confirmed, so that the refinements carry it to the store without looking into
the ring; that `CanalDestination` implements such a queue of data events from
binlog to client; and those of the parts 8 and 9 once they are modelled, above
all that two servers never both believe in their node.

## 3. Modules and code

`MemoryEventStore` — one action per locked operation of the store: `Put`, `Get`,
`CleanUntil`, `Rollback`, `Start`, `Stop`, with `checkFreeSlotAt`,
`checkUnGetSlotAt`, `getFirstPosition` as operators. An event is its binlog
position with an entry kind and a length. A slot keeps whether its entry is
still attached, since an ack in MEMSIZE mode drops entries. `log` and `fetched`
are history. `int` products wrap at `IntBound`. `Spec` allows acks in any order,
`SerialSpec` is the discipline of a single caller.

`BlockingEventStore` — the waiting forms: threads, the two condition queues with
one wake-up per signal, time-outs, interrupts and the retrying sink.

`AtLeastOnceQueue` — what a store promises one caller: append, hand out in
order, confirm a handed-out prefix, replay, clear. `MemoryEventStore` maps the
unacked slots to `pending` and the distance of the cursors to `sent`.

`MemoryMetaManager` — the client's record; each operation is one synchronized
method.

`CanalServerWithEmbedded` — EXTENDS both. A connection's request is a sequence
of steps, one per call into store or meta manager; `Enter` and `Return` are the
instance's monitor, which only get and rollback take. The reply step reads the
lazily transformed events.

`EventParser` — EXTENDS the store: run loop, `EventTransactionBuffer.add` as the
steps put and flush, the sink, the recorded position (whose search skips the
first entry of a list, as the code does).

`FileMixedMetaManager` — EXTENDS `MemoryMetaManager`: pending task, submitted
flushes, a flush as snapshot, truncation and write.

`CanalDestination` — EXTENDS parser and file meta manager and adds a client that
subscribes, gets, acks and rolls back one request at a time, and stop, crash and
start of the instance.

`GroupEventSink` — the threads of the parsers in `doSink`: lock and count,
minimum and `isPermit` under the same lock, store, and the three steps of
`clear` that run without it. The set `submitted` stands for the queue of time
stamps, in which each parser has at most one.

`Scheduler` — the scheduler of `scheduler.js` as a record, its methods as
operators: queues in the order of their labels' priorities, the id of the timer
and the timers that the browser still has to fire. The id outlives its timer
while the job of that timer runs; that is what keeps an `add` within a job from
making a second one.

`SearchIndex` — EXTENDS `Scheduler`. One action per kind of job (`RunPackage`,
`RunMembers`, `RunResults`, the three bindings and the navigation), one for the
timer that finds nothing, and one per key or click. A job's closure is a record
of its function, package and query. The regular expression that
`compilePattern` makes of a query is a relation between queries and entities; of
the texts in `Malformed`, such as `{1}`, it makes none, and `searchAll` ends
there, with the old queue cleared and the page emptied and renamed.
`nav` holds an iterator for each keydown handler, since pressing the down arrow
twice binds two of them.

`AdminSession` — tabs, cookie, login cache. A call is sent, served and delivered
in three steps. `Navigate` is the guard of `permission.js` with what vue-router
makes of its outcome: a newer navigation makes the guard's `next()` stale, but
not its `next(path)`. The last conjunct of each answer, `Spins`, is the button
of the login page.

`AdminBackend` — each service as a set of outcomes, a database and an answer.

`AdminConsole` — EXTENDS it. `view` and `ui` are the route and the `data()` of
the page's component. What a confirmed question sends is the row it was asked
for, but form and server of the dialog as they are then (`Confirmed`); an answer
runs on the component that asked, and reads its state at that moment
(`DeliverConfig` takes the owner from the current address). `Go` is the change
of a page: another path makes another component, another query does not.

`MemoryEventStoreProofs`, `BlockingEventStoreProofs`, `CanalServerProofs`,
`CanalDestinationProofs`, `GroupEventSinkProofs`, `SearchIndexProofs`,
`AdminSessionProofs` and `AdminConsoleProofs` hold the theorems of section 6. The
second to the fourth extend `MemoryEventStoreProofs`, whose lemmas about the ring
they use.

`MC*` modules give the constants their values. Definitions introduced as "a
faulty variant" are plausible bugs; each property is refuted on one of them
(`mutants` in `PROJECT.json`), and none is part of a specification.

## 4. Runs

| Run | What it checks | Bounds |
|---|---|---|
| `StoreMem` | types, cursor order, retention of unacked events, memory account; acks in any order, also after a rollback; DDL isolation | ring 4, lists up to 2, 5 events between start and stop, weights 1, 2, 3, unit 2 |
| `StoreWaiting` | no lost wake-up, the first event can always be fetched, "enough" is enough, refinement of the queue (so gets never run behind acks), every get and put returns | one producer, one consumer, all call forms, 1 interrupt or rollback |
| `ServerConcurrent` | monitor, batch order, released only what was acked, cursor behind acks, and every store step is one of the store's own specification (`UsesStore`) | two connections, every request, 5 events with a GTID begin, 3 batch ids |
| `DestinationCrash` | types, nothing lost, no gap, cursors behind acks, the first position kept, everything acked in the end | binlog BEGIN ROW ROW END DDL, transaction buffer 2, ring 4, 2 faults |
| `GroupSink` | without faults transactions whole, the barrier's state right and no barrier exception; streams kept, nobody overtaken, progress with faults | two databases, split transactions, an END alone, a DDL, a stream that starts at an END; 1 fault, 2 dumps each |
| `DocSearch` | types and order of labels, one timer while there is work, results of one query, complete when the queue is empty (empty for a malformed text), selection on an item, every search ends | two packages with two entities and one, two queries and a malformed one, 3 searches (one from the address), 2 navigations |
| `AdminTabs` | types, cookie owned by a tab, login button, redirects end | two tabs, two tokens, two pages, 2 calls in flight, 4 moves of the users, expiry and failures at any time |
| `AdminPages` | types, masks only while fetching, creations new and updates of what exists, one owner per configuration | a cluster with a server and an instance, a server alone; 2 calls in flight, 3 moves of the user, 1 of another administrator, 1 lost call |

The bounds reach the cases that matter: a ring of 4 with 5 or 6 events wraps
around, lists of 2 straddle the end of the ring, and the weights make each of
the two limits the binding one. With two connections every pair of steps of two
requests is interleaved; canal serves one client at a time, so a third adds
only more of the same client's requests. Two faults in `DestinationCrash` let a
second one hit the recovery from the first. A transaction buffer of 2 splits the
transaction of 4 entries in the middle, BEGIN and ROW from ROW and END; a dump
that starts again at the END it recorded, or at a cursor within the transaction,
flushes the END alone. In `GroupSink` two
parsers meet in every pair of barrier states. The fault in one parser makes the
other's dump break as well; `MaxDump` ends this exchange, which the code only
slows down by sleeping between dumps, so `Progress` stops at that bound.

In `DocSearch` the second query matches members only and the first both, so
either side of the results may be the shorter or the empty one; three searches
cut a search that has itself cut one, and let the malformed text be typed into
results that are shown. In `AdminTabs` four moves are enough for a
login in each tab, a logout and a request with the token of the past, and two
calls for an answer that another overtakes; `AdminSessionProofs` covers any
number. In `AdminPages` two calls in flight are the smallest number that can
answer in the wrong order; three moves open a dialog, change it and send it, or
ask for a row, confirm, and leave. `StopFromOtherServer` needs the page of the
servers and the dialog of their instances only, and its configuration leaves the
rest out.

### Disagreements with the documentation

Each is a run that ends in a counterexample; `findings` quotes the lines.

* `ServerAckRollbackRace`: `ack` takes no monitor; between its two halves a
  rollback of another connection puts the get cursor behind the ack cursor, and
  the next get reads a released slot.
* `StoreFirstPosition` (`FirstPositionIsLastAcked`): a put may take the slot of
  the last acked event, which `getFirstPosition` reads. When the ring is full of
  unacked events it returns the newest one instead of the last acked.
* `GroupMixed`: the reset of the barrier by one parser's broken dump lets others
  into a transaction in progress.
* `StopFromOtherServer` (`ClusterStopOnlyReleases`): the list of instances of a
  cluster's server is answered into the dialog of another server; a stop there
  goes to that server, and switches the instance off for the whole cluster.

Six more effects were met while modelling and are no run: a tab of the console
whose store has an old token, or none, asks for the user with that one although
the cookie is a newer login, and the failure removes the cookie, and with it the
login of the other tabs (`HomeIfLoggedIn` of `AdminSession` states the contrary
and is false); `get` with automatic ack returns a lazy view whose last entry the ack has already removed in MEMSIZE
mode; `updateCursor` of the file meta manager queues its task before it stores
the value, so the timer in between writes the old cursor; `rollback(batchId)`
leaves later batches, whose ack releases events nobody acked; in MEMSIZE
mode a get without timeout for more memory than the slots hold waits for a put
that waits for a slot; and a text such as `{1}` makes `compilePattern` of the
search page throw, which leaves results that were shown on the page with that
text above empty lists and a progress bar of the search before
(`SearchComplete` has a case for it). The properties of the passing runs are stated, and their
configurations chosen, so that none of them hides behind these.

`OrderlyReleases`, `BatchOrder` and `CursorWasAcked` therefore hold "as long as no
rollback of one batch has left later ones behind", and `ServerConcurrent` uses
ITEMSIZE mode and a ring larger than the stream.

The position that `StoreFirstPosition` finds becomes the cursor of a client that
subscribes without one. Usually there is no such client once something is
acked, since an ack stores a cursor; but a batch has an ack point only if it
holds a BEGIN, an END or a DDL, and a batch of a GTIDBEGIN alone
has none. A binlog of GTID events, batches of one and a full ring let the cursor
of `CanalDestination` pass unacked data, and a restart lose it. The binlog of
`DestinationCrash` has no GTID event; there `FirstPositionKept` says that the
case does not arise, and the theorems of section 6 name it as a hypothesis
where they do not prove it.

`StoreWaiting` has no DDL isolation, since an isolated DDL is not charged to the fetched memory
and `EnoughMeansEnough` does not survive that.

## 5. Fairness

* `BlockingSpec`: weak fairness of each thread's turn (the lock is released
  after a bounded number of steps), of the expiry of a running time-out, and of
  the loops of parser and client, which call again when a call has returned.
  Strong fairness of the client's ack: a client that keeps working acks a batch
  although gets and rollbacks disable the ack for moments.
* `DestinationSpec`: weak fairness of each thread (parser, executor, client) and
  of start and stop. None of faults, rollbacks or crashes.
* `Spec` of `SearchIndex`: weak fairness of the timer: a browser fires one that
  has been set. The user owes nothing.
* `Spec` of `AdminSession` and `AdminConsole`: weak fairness of serving and of
  delivering each call: axios gives every call an answer or a time-out, and its
  promise settles. Users, other administrators and failures owe nothing.
* `GroupSpec`: weak fairness of each parser's thread; `signalAll` and the lock
  need no more, because no step of another thread disables one for ever.

Deadlock is not checked where a system with a finite binlog or log bound comes
to rest (`CHECK_DEADLOCK FALSE`); there liveness properties say that it does so
only when the work is done.

## 6. Proofs

Every safety property that a passing run checks is a theorem: for all values of
the constants that satisfy the modules' assumptions, and the hypotheses named
here. What a hypothesis leaves out is said with it.

### The store

`MemoryEventStoreProofs`, for every ring size, set of events, batch mode, weights
and batch sizes:

* `TypeCorrect`, `CursorsOrdered`, `UnackedNeverLost`: `Spec => []TypeOK`,
  `[]CursorOrder`, `[]UnackedRetained`
* `MemoryAccounted`: `Spec => []MemAccounting`, if `RingFits`
* `SerialGetAheadOfAck`, `SerialImplementsQueue`: `SerialSpec => []GetAheadOfAck`,
  `SerialSpec => ImplementsQueue`
* `SerialFirstFetchable`: `SerialSpec => []FirstAlwaysFetchable`, if `BatchesFit`
* `SerialEnough`: `SerialSpec => []EnoughMeansEnough`, if `RingFits`, `BatchesFit`
  and there is no DDL isolation

The inductive invariant is `Inv == TypeOK /\ CursorOrder /\ UnackedRetained`.
None of the three is inductive alone: that a put spares the unacked slots needs
`CursorOrder` (the window between either cursor and the put cursor is at most
the ring), and that an ack releases only what lies before it needs the log to
agree with the slots. The arithmetic core is `IndexDistinct`: two sequences less
than a ring apart have different slots. Each operation has a lemma
(`PutInv`, `GetInv`, `CleanToInv`, ...), and `NextInv` joins them. For a single
caller `SerialInv` adds `GetAheadOfAck`; without the discipline it is false, as
the late acks of `StoreMem` show. `SerialImplementsQueue` is proved step by step
from `UnackedIsLog`: under `Inv` the unacked slots are a suffix of the log, so a
put appends to them, an ack drops a prefix and the rest leaves them alone.

The account of memory is a sum over a set of slots, which the community modules
define by folding. The module first shows that this fold is a sum at all, by
induction over the subsets of a finite set (`SubsetInduction`), which the
library's well-foundedness of the strict subset order gives without an operator
as a parameter. Then a put adds to the sum what it charges and an ack takes off
what it credits.

`RingFits` says that the size of the ring in bytes, and `BatchesFit` that each
batch size in bytes, fits into an `int`; beyond that the code's products overflow,
a put is never accepted, a limit is negative and the first event cannot be
fetched (a hazard in `PROJECT.json`). An isolated DDL ends a get before its size
is added to the fetched memory, so with DDL isolation "enough" is not enough.

`BlockingEventStoreProofs`, if `OneProducer`, the sink thread of a destination:

* `WakeupsNotLost`: `BlockingSpec => []NoLostWakeup`
* `ThreadsAreSerial`: `BlockingSpec => SerialSpec`
* `ThreadsImplementQueue`, `ThreadsGetAheadOfAck`, `ThreadsFirstFetchable`,
  `ThreadsEnough`: what the single caller has, under the same hypotheses

A signal wakes one thread, so with two waiters of which only the second can go
on a wake-up could be lost. The invariant therefore says that there are never
two: the producer alone waits for room, and of the getters only the one inside
the instance's monitor waits for data (`QueuesOK`). That the threads are one
caller to the store is then a refinement, and the rest follows from it.

### Server and destination

`CanalServerProofs`, for any number of connections and any stream:

* `ServerTypeCorrect`, `BatchesInOrder`, `ReleasesInOrder`:
  `ServerSpec => []ServerTypeOK`, `[]BatchOrder`, `[]OrderlyReleases`
* `ServerUsesStore`: `ServerSpec => UsesStore`
* `CursorBehindAcks`: `ServerSpec /\ []AckedSlotKept => []CursorWasAcked`

`ServerUsesStore` carries every theorem about the store's `Spec` to the server:
whatever the connections interleave, an ack names the end of a range that a get
returned (`RangesOK`). The order needs `OrderInv`: until a rollback of one batch
leaves later ones behind, the acked sequences, the unacked batches and the batch
that a get has fetched but not added follow each other without a gap. The
monitor gives that there is at most one such batch; an ack, which is outside,
only moves a batch from the unacked to the acked ones. `AckedSlotKept` says that no
put has taken the slot of the last acked event. The code does not keep it, and
`StoreFirstPosition` shows what comes of it, so the theorem is about the
behaviours in which the ring is never full of unacked events.

`CanalDestinationProofs`, for every binlog, ring, transaction buffer and number
of faults:

* `DestinationTypeCorrect`: `DestinationSpec => []DestinationTypeOK`
* `NothingEverLost`, `NeverAGap`, `CursorsNeverAhead`:
  `DestinationSpec /\ []FirstPositionKept => []NothingLost`, `[]NoGap`,
  `[]CursorsBehindAcks`
* `FirstPositionStays`: `DestinationSpec => []FirstPositionKept`, if `WholeTransactions`
* `AtLeastOnce`: `DestinationSpec => [](NothingLost /\ NoGap /\ CursorsBehindAcks)`,
  if `WholeTransactions`

The invariant says where an event with data can be: all that the dump has passed
is acked, in the log, in the transaction buffer or about to be put there; and
the recorded log position, the cursors in memory, in the file and in a
half-written snapshot, and the ack point of the range the client holds precede
nothing but what is acked or in the log. A crash takes away ring, buffer and
memory, and leaves the file's cursor, of which the invariant has just that to
say. What is missing is the client that subscribes without a cursor and is given
the position of an event that has taken the last acked one's slot:
`FirstPositionKept`. For a binlog of whole transactions without GTID events and a
transaction buffer of two entries or more it is proved: the first batch then has
an ack point, because no dump or client starts within a transaction and a BEGIN
is never put into a buffer that holds rows; so as soon as the store has an ack
the client has a cursor.

### Group sink

`GroupEventSinkProofs`, for any number of parsers, lists and faults:

* `GroupTypeCorrect`, `NothingOvertakes`, `StreamsStay`: `GroupSpec => []GroupTypeOK`,
  `NoOvertaking`, `[]StreamsKept`
* `TransactionsUnmixed`: `GroupSpec => []UnmixedWithoutFaults`

That nobody who waits is overtaken rests on the threshold being at most the time
stamp of each that waits, also right after a reset. The
streams need that a list taken is in the store, or with a thread that has not
finished it, through all broken dumps. Until a first fault (`CalmInv`) one parser
at most keeps the barrier; it is in its transaction, flag and state say so, and the
last list stored is open only if it is its own. `ListsAssumption` is what
`EventTransactionBuffer.add` makes of a binlog: an END ends its list, an open
list has rows and begins or continues a transaction.

### Search page

`SearchIndexProofs`, for any packages, entities, queries and bounds:

* `SearchTypeCorrect`, `WorkAlwaysHasTimer`, `LastSearchOnly`, `SearchesComplete`,
  `SelectionStays`: `Spec => []SearchTypeOK`, `[]WorkHasTimer`,
  `[]ResultsOfLastSearch`, `[]SearchComplete`, `[]SelectionInBounds`

Between two jobs the scheduler is `Armed` (id kept, one timer) or `Quiet` (no
id, no timer, no job); within a step it passes through `Running`, where the timer
has fired and the id is still kept. Lemmas on the operators say how each moves
between these sets (`DoWorkArms`, `FiredRuns`, `AddAllGuarded`, `IdleQuiet`), and
the actions follow. The second theorem needs to know which queue is which:
`LabelsOfPage` computes the labels from their priorities, the invariant
`OneQuery` says that the search queue holds nothing but search jobs of one query
and the other queues hold no search job, and `SearchAllOfQuery` that the queue is
emptied before the page names another query.

Completeness needs more: the jobs of a search come in one order, the packages
and then members and results by turns, and invariant `Progress` says that what
is listed and what is queued are the two parts of it, unless the search was
cleared and shows nothing, or the text is malformed and nothing is listed or
queued. `SearchesComplete` says no more of a malformed text than that. The iterators of the keys are placed on an item of a
side that has any (`Placed`). The lists they walk are concatenated and filtered
recursively; that the results are sequences is shown by well-founded induction
on the naturals (`Recursion`, `NatStep`).

### Console

`AdminSessionProofs`, for any tabs, tokens, pages and calls in flight:

* `SessionTypeCorrect`, `CookieAlwaysHasOwner`, `SpinningHasLogin`:
  `Spec => []SessionTypeOK`, `[]CookieHasOwner`, `[]LoadingHasLogin`

Every step that writes the cookie writes the store of one tab with it, and every
step that writes a store alone (a reload) copies the cookie. The types need the
routes: a tab with a call that is not the guard's, or with an open box, shows a
page, which is what a redirect after the answer is made of. A button spins on the
login page only, while its login is live; leaving the page ends both.

`AdminConsoleProofs`, for any clusters, servers, configurations, pages and calls
in flight:

* `ConfigAlwaysOwnedOnce`, `ConsoleTypeCorrect`, `MasksEnd`, `CreationsStayNew`:
  `Spec => []ConfigOwnedOnce`, `[]ConsoleTypeOK`, `[]MaskHasFetch`,
  `[]CreationsAreNew`

`ConsoleConstants` asks that the initial database is typed, that its rows have
identities given out and its configurations one owner, and that no identity is
both a server's and a cluster's. A service keeps one owner only if the form it
gets names one, so that invariant is about the table, the form on the page and
the form of every `saveConfig` on its way, which may be saved when the row has
changed or gone. That answers find a page with something to fetch is the other
half (`AddOK`: the page of a new instance has no call of any other page).
The invariant of the other three, `TypedInv`, follows an identity from the table
to an answer, a row, a dialog and a call; the set of identities given out only
grows, so each of them stays one that was given out. A masked list has a fetch of
its own page running. There is a lemma for each service and one for the user, the
server and the answers.

### Model-checked only

All liveness (`GetsReturn`, `PutsReturn`, `AllAcked`, `Progress`, `SearchEnds`,
`NavigationSettles`): fairness is beyond the prover. The runs that end in a
violation are counterexamples of TLC.


## 7. Left out

Abstractions inside the modelled parts: metrics and profiling counters; message
formats; the positions of journal files (an event is its position); several
clients of one destination; heart beats; the parallel parser; search for a start
position by time; master/standby switching except as an interrupt of a waiting
parser; the wait for a full store in the group sink. `tryPut` in a loop with
back-off is a guard. `getLatestPosition` and the scavenge mode are called by
nothing.

Console: the texts of configurations and the names of rows; pagination; the lists
of options, which may be old when one is chosen; the log pages; the adapter
configuration; the polling services between admin and canal servers. A service is
one step, although the code runs its statements without a transaction around
them (listed as a hazard). Components are loaded at once instead of lazily. The
name and avatar that stay in the store after a logout are the flag `name`; the checks of a form, such as
that of the user name, come before the step that sends it. Calls in flight are bounded
by `Slot`; a user's action that would need another one waits.

Search page: the rendering, which entities the regular expression of a query
accepts and which texts have none (constants of the model), the touch
layout and the scroll position. A promise of a job settles before the next timer. `Enter` leaves the page also when the
link it follows is of an older search. `template.js` filters members in one
handler per click and `diagrams.js` shows diagrams, neither with anything that
runs between; they are left out. The layout of the console, its icons and
`404.vue` are presentation.

Components that are not modelled are listed in `PROJECT.json` with the
reason.
