# TLA+ models of ES-Runtime

ES-Runtime is a JavaScript runtime on V8 for servers. The guest program is
single threaded; around it the runtime owns an event loop, provider threads for
I/O, worker threads, and a layer of *durable workers* whose state survives the
process. This directory models the parts of it in which the order of steps
decides whether the program is right, checks the models with TLC on small
instances and proves the main safety properties with TLAPS for every instance.

Paths below are relative to `src/`.

## The system

| Part | State | Operations | Hard because |
|---|---|---|---|
| Timer schedule (`crates/runtime/src/timer.rs`) | a heap of deadlines with lazy deletion | schedule, take_due, prune_cleared, next_deadline_ms | entries outlive the timers they were made for |
| Op dispatch (`crates/engine/src/op.rs`) | active timers, new timers, pending async ops, rejection tables | what the guest calls: set/clear/ref a timer, start an op | called from inside every phase of the loop |
| Tick and driver (`crates/runtime/src/lib.rs`, `crates/default-providers/src/driver.rs`) | the clock of the last tick, what holds the loop open, the waker's permit | tick's five phases, process_dynamic_imports, park | other threads complete ops between a poll and the park |
| Unhandled rejections (`op.rs`, `prelude/globals.js`, `driver.rs`) | pending reports, reported hashes, pending retractions | V8's callback, the drain in phase 4, the listeners | listeners run in the middle of the drain |
| Module registry (`crates/engine/src/module.rs`, `lib.rs`) | compiled modules, recorded imports, failed and evaluated modules, imports under way | build a graph, link, evaluate, settle | graphs share modules, loads fail half way, awaits end later |
| Durable state (`runtime_modules/workers.js`) | values in memory, dirty keys, the flush in flight and the queued one, the transaction | get/set/delete, sync, flush, transaction, call | a result may not leave before its writes; two statement chains; retries; crashes |
| Durable alarms (`workers.js`) | an alarm in the file, in memory and in the catalog's index; a retry count | set, unset, sweep, run, retry, give up, open, start, evict | three copies, no common transaction, crashes between writes; a mailbox that is reached while `start()` is awaited |
| Durable calls (`workers.js`) | mailboxes, wait-for graph, live workers, openings and closings under way | call, retry, materialize, evict, close | deadlock across requests; eviction between lookup and use |
| Durable catalog and shutdown (`workers.js`) | the shared connection, queued statements, the group being committed; the workers that are closing; the flag of shutdown | open, group commit, retry, sweep, close, shutdown | each caller of a group must hear what became of its own statement; shutdown awaits while workers are being opened and closed, and may be called again |
| Durable shards, sockets, collections (`workers.js`) | shards with heartbeats, owned sockets | route, watchdog, hibernate | termination races with late answers |
| Worker threads (`default-providers/src/worker.rs`) | the registry of agents, their children, the flag and the interrupt of each | spawn, terminate a subtree, close, end, retire | threads that spawn, end and wait for each other under one lock taken again and again |
| Message ports (`default-providers/src/ports.rs`, `prelude/channel.js`) | the queue of a port, its lock, its notify; the pump of each object | post, receive, transfer, close | a transfer while a receive is under way |
| SQL pool (`runtime_modules/db.js`) | idle and borrowed resources, waiters | acquire, release, validate, create, close | limits across awaits; whom to wake |
| MongoDB pool and topology (`crates/runtime/src/mongodb`) | idle connections, count, waiters and generation of a pool; what is known of its server | checkout, open, check in, clear, cancel, check, close | two counts of generations; cancelled waiters; errors of connections from before a clear |
| HTTP server (`default-providers/src/system_http.rs`, `http.js`, `cli-common/src/shutdown.rs`) | slots, the request channel and its receiver, pending responses, live connections, the drain | accept, next_requests, respond, close, shutdown_all, wait_idle | close while the receiver is checked out; the end of the last connection beside the wait for it |
| Client packages (`packages/*`) | connection, reconnection plan | commands, reconnect | what was in flight when the connection broke |
| Streams, fetch, files, processes, sockets, codecs, crypto, command lines | | | mostly one request at a time, libraries, or text |

The guest and the loop share `OpState`; provider threads reach the loop only
through the waker. The driver calls `tick`, then `process_dynamic_imports`
(which is the module registry's host), then parks. Rejections are drained
inside `tick`. Durable workers are JavaScript on top of the loop: their
statements are async ops, their mailbox and gates are promises, and the
scheduler is a timer.

What makes each part correct:

* loop: no timer is lost or scheduled twice, no wake-up is lost, the driver
  sleeps exactly until the next timer, everything ready settles, and the program
  ends only when nothing could still run;
* rejections: every rejection without a handler is heard once, none with one is
  reported, and a retraction follows every late handler and nothing else;
* modules: a graph is loaded whole, an import resolves only when its whole graph
  has run, failed modules are known as failed, every import settles;
* durable state: no result leaves before what it reflects is in the file, no
  write is forgotten, every call is answered;
* alarms: the index is never later than the file, an alarm under way survives a
  crash, a due alarm runs, a handler's own time is kept, as long as `start()` and the
  mailbox keep out of each other's way;
* calls: every circle of waiting calls is refused, a worker's file has one writer,
  a worker has started before it is called, every call is answered;
* catalog: a worker is live only when its row has committed, a group commit tells
  each caller the truth, and shutdown leaves nothing open that it could have seen;
* pools: the limit holds, no place is lost, whoever waits is woken, and nothing of
  an old generation or a closed pool is handed out;
* worker threads: no agent is out of reach, who is told to end ends, and no thread
  waits for one that was not told;
* ports: events keep the order of the posts, and a transferred port is read on;
* HTTP: counts are exact, a refused request never ran, every request is answered,
  and a drain puts every response on its socket.

## The modules

### TimerQueue, EventLoop, TimerContract

`TimerQueue` has the heap as a set of entries ordered by deadline and id;
`TakeDue`, `PruneCleared` and `NextDeadline` are the methods of the same names.

`EventLoop` is a program counter over the loop's phases. `pc` runs from
`entry` (the entry module's body) through `top`, `fire`/`callback` (phase 1, one
due timer at a time), `settle` (phase 2), `micro` (phase 3), `hooks` (phases 4
and 5), then `driver`, `imports`, `batch`, `link`
(`process_dynamic_imports`) and `decide`, where `drive_while` quits, ticks again
or parks. The guest is the environment: in every phase that runs JavaScript it
may set, clear or unreference timers, start ops, import, compile WebAssembly and
take or drop handles. Provider threads (`OpReady`), V8's threads
(`WasmFinish`), termination and the clock interleave with every step. Left out:
argument marshalling, tracing spans and the count that only esdev asks for.

`TimerContract` is what the loop promises about timers, without a heap, a batch, a
table or phases: a timer is asked for, taken up with a deadline, fired and, if it
repeats, armed again. Only what is due fires, in the order of the deadlines and
then of the ids; a turn fires nothing that was armed in it; clearing a timer ends
it wherever it is, in the batch under way and in its own callback too. `EventLoop`
implements it under the mapping `Contract`: the guest sees an entry only while its
timer is in the table.

The waker is `notified`, the permit of tokio's `Notify`: `OpReady` sets it from
another thread, `Wake` consumes it.

### Rejections

The promise-reject callback (`Reject`, `Attach`), the drain at the start of
phase 4 (`Drain`), the retractions and announcements one by one (`Retract`,
`Announce`, `ListenerReturns`), and the driver's choice to tick again or to stop,
in which rejections do not count as work. `ListenerActs` says
what listeners may do in between, `Collisions` makes all identity hashes equal.

### ModuleGraph

`build_graph` walks a frontier (`Walk`, `WalkFails`), the engine instantiates
(`Instantiate`), evaluates depth first (`Descend`, `Run`, `Throw`) and settles
the imports in link order (`SettleOk`, `SettleFailed`). V8's linking and
evaluation of cyclic and asynchronous modules is external, written from how the
engine uses it. What a graph reaches (`Reach`) is the least closed set of modules
rather than a search, so that it can be reasoned about: the recorded imports, the
modules to link and the modules that wait for an await are all taken with it.
`MCGuest` holds the graph that is checked.

### DurableState, DurableWorker

One worker: versions in memory and in the file, the dirty keys, the flush in
flight and the one queued behind it, a transaction with a chain of its own, and
calls that start, read and write, return or throw, and wait at the gate. A value
is its version number, so "newer" is `>`. A failed or busy statement, a
rollback and a crash may happen at every statement. `raced` records that a
transaction was called while something was not yet in the file; the guarantees
of the gate (`GateHolds`, `PromiseKept`) are for behaviours before that.

`DurableWorker` is what a worker promises, without flushes, chains, dirty keys or
retries: now and then the state of memory sets out for the file and lands there
whole or not at all; a transaction begins where the file is and commits or takes
back all it did, with nothing else landing meanwhile; a result is handed out when
the file is as new as what the call could have read, and refused only if something
that set out has failed. `DurableState` implements it under the mapping `Worker`,
where what a rollback took back counts as not made, though the code leaves it in
memory.

### DurableAlarm

One worker and the scheduler. `file`, `mem` and `idx` are the three copies of
the alarm. Two things go on in the worker, each with a list of the writes it has
begun and awaits (`SetAlarm`: the index if that makes it earlier, the file, the
index exactly): it is opened and its `start()` runs (`boot`, `starts`), and its
mailbox runs one entry at a time (`turn`, `todo`), a call, the scheduler's turn,
or `stop()` at the end. `materialize` puts the worker into `live` before it
awaits `start()` and returns it from there without a look at `starting`, so a
call or a turn begins while `start()` is at its own writes: `Enterable` asks
only that the worker is there and the mailbox free, and the writes of the two
lists interleave. `SweepDue` finds the worker, its turn runs the handler
(`TurnRuns`) or corrects the index (`TurnCorrects`), and settles, retries or
gives up. Writes, `start()` and the process may fail between any two steps.

`#alarm` changes in the step behind the write to the file. The model changes both
at once (`Commit`): between the two only memory is stale, and whoever reads it
there acts as if he had read just before the write committed, which the model
lets him do.

When `start()` throws, `materialize` lets go of the worker and closes its file,
but an entry of its mailbox, or a sweep that has found it, goes on with it
(`orphan`): it can still write the index, not the file. One such worker at a time
is modelled.

`crossed` records that `start()` got in the way of an entry: it had an alarm
operation under way beside one of the entry or beside an alarm turn, or it threw
with the worker in somebody's hands (`Crossing`). `broken` records that a write
of an alarm turn failed. The properties end there; `alarm_lost` and `alarm_start`
show that what is said of the index must.

### DurableCalls

Several workers of one agent and the calls among them. A call is made by outside
code, by a running method or by a `start()` (`MakeCall`), waits for its caller's
writes (`gate`), is refused or recorded in the wait-for graph `waits` (`Leave`),
waits for its worker to be opened (`opening`), is given an instance (`found`),
joins its mailbox (`Enqueue`), runs when it is first there, and is answered after
its own gate (`Release`). `m` is how far the materialization of each worker is:
catalog, an eviction under way, the sweep of idle workers, the file, `start()`.
Every time a worker is opened is an instance of its own, so that "the worker was
closed and opened again in between" can be said. A method, `start()`, `stop()`,
a file or a commit may fail at every step, and a refused call is tried again
once. Which idle workers a sweep takes depends on times and limits, and is any
choice here.

### DurableCatalog

The connection that all workers being opened share (`Ask`, `RegistryOpens`,
`RegistryFails`), the queue of statements in front of it (`OnCatalog`, `TakeBatch`,
`RunSingle`, `RunGrouped`, `GroupCommits`, `CommitFails`, with the retry of a busy
one), and the workers. `stand` is how far the opening of each is (`BeginOpening` to
`GoLive`): it first waits for the close of its own last instance and then sweeps
an idle worker (`SweepIdle`), both awaited. `instance` is what the instance does:
a close takes it out of `live`, runs `stop()` and the last flush, and writes its
row (`TouchRow`), and whoever awaits the eviction goes on (`EvictEnds`), or fails if
`stop()` threw. `shutdown()` runs from `Shutdown` to `Cleanup`: it takes a list of
what is live (`TakeLive`) and closes one after the other (`EvictNext`). It has no
guard against being called again: `phase` is of each call, and the second one's
`Cleanup` drops the flag and the registry under the first. A later entry of a
list whose worker was closed and opened again meanwhile (`stale`) takes the new
instance out of `live` without closing it, as `evict` does.

A connection is its number. `early` is what was being opened when a shutdown
began, which the code does not wait for; `stray` holds the connections that were
being opened then, or that a shutdown left open when it failed; `overlapped`
records that two shutdowns were under way at once. `start()` and the mailbox are
in `DurableCalls`.

### MongoPool, BoundedPool

One server. A command goes from `new` through the queue or an open to `using`
and `done`; its steps are what the op does between two awaits: `Checkout` is one
round of the loop in `checkout`, `GiveBack` a check-in with the wake-up and the
clear that follow without an await. The topology counts generations in `gens`,
the pool in `generation`; `Judge` decides by the first, `Clear` raises the
second. The monitor's checks answer or fail at any moment. `BoundedPool` is what
the pool promises a client: served, queued only when `Max` are served, or gone;
`ImplementsBounded` maps the places of commands to it.

### SqlPool

Class `Pool`: an action is a piece of JavaScript without an await, so `Wake` runs
the `acquire()` of the waiter up to its first one. `Look` is the loop of
`acquire`, in which the resource under validation is in no table. `hidden`
records that a caller took a place in that gap.

### WorkerThreads

The registry with the child lists, each thread's stage in `run_worker`, the
`closing` flag and whether its isolate was interrupted (`killed`). What is done
under the registry's lock is one action; `Reap` tells everything below an agent
that ends, `Joined` waits for their threads. `strays` are agents started by one
that had been taken out of the registry already.

### MessagePorts

The queue of one end and the objects that hold it one after the other, each with
a pump (`reader`). The receive op is polled for the first time (`Poll`), waits
for the lock (`GetLock`), and then for a message or the notify (`GetsMessage`,
`GetsNull`); `Resume` is the pump behind the await.

### HttpServer

The acceptor with its permits and the limit per address, connections, the
request channel, `next_requests` in the four steps between which another thread
may close the server (`TakeReceiver`, `FetchControl`, `Park`, then `Hear`,
`Receive` or `Exhausted`), handlers, `stop`, and the process: the signal,
`shutdown_all`, the drive's end and the three steps of `wait_idle`. A request is
named by its connection.

### MCGuest, MCDurable, MCProviders

Parts that share no state are checked in one run: the first state picks one of
them, and only that one moves, with its own fairness. `MCGuest` has the imports,
the rejections and the alarm; `MCDurable` the calls between durable workers and
their catalog, the latter in two instances; `MCProviders` the two pools, the
worker threads, the ports and the HTTP server.

Definitions whose comment begins with "Fault" are wrong variants of the one they
precede. They are part of no specification; putting one in place of the
definition must violate the property it is paired with in `PROJECT.json`, which
shows that the property can fail.

## The runs

| Run | Shows |
|---|---|
| `timers` | two timers created, cleared, unreferenced and fired at any point: none lost (`NoTimerLost`), the driver parks exactly until the next active one (`ParksUntilNextTimer`), each fires (`TimersFire`), and the loop implements `TimerContract` (`TimersKept`) |
| `work` | two ops (one unreferenced, limit of one), an import, a compile and a timer: no wake-up is lost (`NoLostWake`), what is ready settles (`ReadyOpsSettle`), the program ends only when nothing could still run (`EndsQuiet`) |
| `durable` | two calls, a key, two failures, crashes, transactions opened at any moment: until a transaction is called over unwritten changes, results wait for the file and no write is forgotten (`GateHolds`) and the worker implements `DurableWorker` (`PromiseKept`); every call is answered (`Answered`), so the two chains never wait for each other |
| `stale_flush` (violation) | a write that is not awaited before `transaction()` lands after the COMMIT with the older value |
| `guest` | Imports, two into a cycle sharing a module with the entry, with awaits, throwing bodies and failing loads: failures are recorded (`GraphInv`), what resolves has run whole (`ResolvesEvaluated`), every import settles (`ImportsSettle`), and until a load fails, no graph is linked with a part missing (`CoversUnlessFailed`). Rejections, three rejected and handled in any order: each without a handler is heard (`NoneForgotten`), a late handler retracts the report (`LateHandlerRetracts`), and nothing else is retracted (`RetractsOnlyReports`). An alarm, with `start()`, calls, `stop()`, handlers, evictions and a failure: the index is never late (`EarlyNeverLate`), an alarm under way is not lost (`RunsAgain`), the handler's own time is kept (`AskedTimeKept`), a due alarm runs (`AlarmRuns`), each until `start()` gets in the way of an entry |
| `alarm_lost` (violation) | a failing write in the alarm turn makes memory and file disagree, and the next sweep removes the index entry |
| `alarm_start` (violation) | nothing fails, but a call comes while `start()` sets the alarm, and deletes it: the index is emptied after the file has the time of `start()` |
| `calls` | Calls, three among two workers that are evicted and opened again, anything failing: the graph is exact and no calls wait in a circle (`WaitInv`), one writer (`InstancesInv`), every call is answered (`Answered`). Catalog: no worker is live before its row (`LiveHasRow`), nothing that a shutdown could see outlives it (`ShutdownComplete`), statements and shutdowns end (`CatalogAnswers`) |
| `early_call` (violation) | a call made while `start()` is awaited runs before it has finished |
| `shutdown_leaves` (violation) | a worker being opened sweeps an idle one out of `live`; `shutdown()` then takes an empty list and resolves while that one is still closing |
| `providers` | MongoDB pool: it implements `BoundedPool` (`ImplementsBounded`), a lost connection clears it (`LossClears`), a free place has a command on its way to it (`NobodyStranded`). SQL pool: `SqlInv` (a resource has one owner; nobody waits beside a free place; a closed pool keeps nothing; the limit holds unless a validation hid a resource), and who waits is served (`WaitersServed`). Worker threads: `AgentInv` (whoever was not told to end can be reached; child lists hold entries only), and who is told to end does and leaves the registry (`AllEnd`). Ports: `PortInv` (order; a transfer loses one message at most), and a started port is read to its end (`PortDrained`). HTTP: the counts of connections are exact (`SlotsExact`), a refused request never ran (`RefusedNeverRan`), the last connection wakes the drain (`WakesWhenIdle`), requests and whoever stops the server are answered (`ServerAnswers`) |
| `lost_message` (violation) | a receive that was called and not yet polled when its port is transferred takes a message with it |

Invariants that are proved for every value of the constants and say less than
those above (the type invariants, `ScheduledOnce`, `ReportsOnlyUnhandled`,
`MemoryTrue`, `CountExact`, `IdleCurrent`, `GenerationGap`, `NothingKept`,
`DrainedClean`, `OneConnection`) are stated in the modules, not in the runs. An
`...Inv` in a run is the conjunction of the named parts defined above it, the
type invariant of its module among them; where TLC reports it violated, the
state shows which part.

The six violations are disagreements between the code and what its own
comments or documentation say; `PROJECT.json` quotes both sides under
`findings`.

### Bounds

* `EventLoop`: two timers with delays 0 and 2 and a clock up to 3 give every
  order of equal, earlier and later deadlines, re-arming and clearing inside a
  batch. Two ops with a limit of one meet the limit, and one of them holding
  nothing open separates "ready" from "alive". Timers and ops are checked in two
  runs because their product says nothing that the parts do not: they meet only
  in `HasPendingWork` and the park, and a zero-delay timer is in both. A sleep
  that would end after the last instant ends there.
* `Rejections`: three promises let a listener run between two others; each is
  rejected once.
* `ModuleGraph`: five modules are the least for a cycle, a shared dependency and
  a module outside both; two imports overlap in every way.
* `DurableState`: two versions tell an old value from a new one, two calls make
  one wait for another's flush. A flush that carries nothing may be asked for
  once or twice (`MaxFlushes`). Two failures let one happen in the recovery from
  another. One key is enough for the gate, since keys meet only in the sets that a
  flush takes whole. That the file is never a mixture of two states says something
  of several keys only: that is what the proof is for, which holds for any number.
* `DurableAlarm`: the times 0 and 2 within a clock of 2 include the first instant
  and the horizon, and a retry from the first lies between them; one retry gives
  success, retry and giving up. One failure of any kind happens at any point:
  `alarm_lost` has the times 0, 1 and 3 and a clock of 3, `alarm_start` the times 1
  and 2 and no failure at all. What the proofs show holds for any number.

* `DurableCalls`: with three calls two requests can close a circle of two workers
  while a third call sweeps or retries; two instances per worker let a worker be
  evicted and opened again; a mailbox of two can be full. A sweep takes one
  worker at most: see the limits below. The system may stop, when all calls are
  answered, so deadlock is not an error there: `Answered` is what excludes
  workers waiting for each other.

* `MongoPool`: a limit of one makes two of three commands compete for every
  place; one can be cancelled, one is sent to the server whatever is known of it,
  and two failures start two new generations, so that a connection can be from
  before the last clear and the one before it.
* `SqlPool`: with a maximum of one, four callers are a holder, a validation, one
  that slips past it and one that waits. At most three resources exist at a time.
* `WorkerThreads`: three agents are a chain or a fork; ids are used once. The
  limit of the registry is three, so it is met only when all are there.
* `MessagePorts`: three objects are two transfers, four messages let two be
  swallowed and two arrive.
* `HttpServer`: of three clients two share an address that may have one
  connection, and one of these comes first (`InOrderOfArrival`: they are alike);
  two slots, a channel of one and batches of one, two requests: every limit is met
  and every queue is full in some state.
* `DurableCatalog`, in two instances. Three workers, one connection, one shutdown and
  one statement that finds the database busy: a group of two is queued behind a
  statement under way, and a worker is swept while another is opened. Two workers
  opened twice in all, two connections and two shutdowns: they overlap, a
  connection is opened behind one, and a list entry is stale. That a new instance
  has taken the place of a stale entry needs a third opening and is left to the
  proofs, which are for any number. Constraining both (`Bounded` in `MCDurable`)
  keeps the run small.

### Fairness

* `EventLoop`: the driver's loop and the clock are weakly fair: callbacks
  return, and time passes. Provider threads are not assumed to finish; the
  liveness properties start from what is already ready.
* `Rejections`: the loop is weakly fair.
* `ModuleGraph`: the host is weakly fair; an await that can end infinitely often
  ends (strong fairness), as it may only do so in microtask checkpoints, which
  come and go.
* `DurableState`: statements end, microtasks run, a transaction's body returns.
  Methods themselves need not return: `Answered` is about calls that did.
* `DurableAlarm`: the runtime's own steps and the scheduler's polling are weakly
  fair. That code returns and that the turn gets its place are strongly fair:
  the mailbox is first in, first out, so calls and evictions cannot get ahead of
  the turn for ever, and a crash disables both for a while only. The writes of
  `start()` and of an entry each end. The fair steps are those of `AlarmNext`, which
  note `crossed` (`Noted`).

* `DurableCalls`: the runtime goes on, and code returns or throws once the calls
  it made are answered; code is not assumed to make calls.

* `MongoPool`: woken tasks are polled; connects, exchanges and closes end, well or
  not, since each has a timeout. Selection and the monitor owe nothing.
* `SqlPool`: validations and creates end, and who holds a resource releases it.
* `WorkerThreads`: a thread with something to do runs, and a drive looks at its flag
  again at the latest after the fallback park. Nothing makes an entry module
  settle, nor guest code end on its own: `AllEnd` leaves out the deaf.
* `MessagePorts`: agents poll their ops. Nobody has to start a port.
* `HttpServer`: binds end, tasks are polled, handlers respond, the drive goes on
  (`ServerGoesOn`). Clients and the grace owe nothing.
* `DurableCatalog`: statements, opens and stops end (`Ongoing`).

In these two one weak fairness is for all of those steps together: as everything
is bounded, no step can be passed over for ever.

## What is proved

For every value of the constants that the named assumptions allow, with all
proofs checked by TLAPS:

* `EventLoopProofs`: `TypeCorrect`; `TimersAccounted` (`NoTimerLost` and
  `ScheduledOnce`) by `TimerInv`, which adds that ids are never reused, that a
  timer which fires once has left the table before its callback runs, and that
  the batch is empty outside phase 1: without these a cleared id could come back
  under an entry that was left behind. `WakeNeverLost` by `WakeInv`: from the
  moment a tick has polled until the next begins, a ready op implies a permit.
  `ParksSound` (`ParksUntilNextTimer`) by `ParkInv`, for any listeners that set no
  timer in tick's phases 4 and 5: from the checkpoint on, every entry of the
  schedule has an active one at or before it, which is what `prune_cleared` leaves
  and what the park needs. `EndsQuietly` (`EndsQuiet`) by `QuietInv`, for listeners
  that queue no reaction there: after the checkpoint only a module that was just
  linked can have queued one, and then an import keeps the loop going. Both
  hypotheses are necessary (see the limits). `TimersRefined` (`Spec => TimersKept`)
  without hypotheses: each step maps to one of `TimerContract` or is not seen.
  What `prune_cleared` drops was not seen before (`DrainedLive`); that ids are in one
  place only makes the front of the batch the first of all that is scheduled; and
  `OrderInv` (the batch is due, the schedule is not due before now) is what puts
  the batch before what a callback arms while it is fired.
* `RejectionsProofs`: `RejectionsType` without assumptions on listeners or
  hashes; `RetractionsSound` for distinct hashes and any listener
  (`RejectionInv`); `RejectionsHeard` and `ReportsSound` for distinct hashes and
  listeners that only claim (`QuietInv`: each unhandled rejection is in exactly
  the places from which it is still to be reported).
* `DurableStateProofs`: `StateTyped`; `GateSound` (`GateHolds`) for any keys, calls,
  failures and crashes, until a transaction is called over unwritten changes.
  `GateInv` says for each waiting call and key where the version it saw is on its way to the file: there already,
  dirty with a flush to come, or carried by the flush it waits for, or that this
  flush has failed, in which case the call is not answered with a result.
  `WorkerRefined` (`PromiseKept`, for as long): every step is one of
  `DurableWorker` or is not seen. A flush that starts carries exactly what
  memory has and the file has not (`CleanKey`), so it completes the file to a state
  of memory, whatever other keys are written meanwhile; `CarryInv` adds that what
  a rollback took back is on its way to nowhere, and that after a failed flush
  something is dirty until the next one begins, without which a call could be
  refused for a flush that failed before it returned.
* `DurableAlarmProofs`: `AlarmTyped`, for everything the module has, overlaps and
  orphans included; `NeverLate`, `AtLeastOnce`, `MemoryIsTrue` and
  `HandlersTimeKept` until `crossed`. `AlarmInv` says that until then the two lists
  of writes are `Apart`, and describes every list that can be under way and what
  memory, file and index say in each (`Shape`, `Held`, `Suspended`, `Known`,
  `Spared`): the properties alone say nothing about the middle of an operation. A
  call may begin while `start()` is at its writes, and `start()` may go on under a
  call, as long as their alarm operations do not overlap. `NeverLate` and
  `MemoryIsTrue` also end when a write of an alarm turn has failed (`broken`), which
  is what `alarm_lost` shows to be necessary; the other two have no such proviso.

* `DurableCallsProofs`: `NoCircularWait` (`WaitInv`, which is `WaitsExact` and
  `NoCircle`) without further assumptions: any number of workers, calls and
  instances, sweeps of any length, any failures. `CallsInv` adds the books: which
  calls were made, to whom and by whom. For the graph every step is one of four
  kinds (`StepKinds`), and the only one that adds an edge adds it from a worker
  that its target does not reach: a set closed under waiting cannot contain both
  ends. That argument needs the graph to be exact, and exactness needs every way
  a call can be answered to give back one count.
  `CallTypesHold` by `TypeInv`: the mailbox of an instance holds exactly the calls
  that say they are in it, each once, and a call that has an instance has one of
  its own worker. `OneWriterWhileCurrent` (`OneWriter`, a part of `InstancesInv`)
  by `WriterInv`: the map has the instance that runs (`MapIs`), a worker is opened
  only while none of it runs (`OpenedWhenGone`), and an instance that closes is the
  one a sweep is at and an opening of the same worker waits for (`ClosingAwaited`).
  It holds for sweeps of any length as long as what a sweep comes to is still the
  instance it listed (`SweepsCurrent`); a sweep of one worker always finds it so,
  and `InstancesHold` (`InstancesInv`) is the theorem for `MaxSweep <= 1`.

* `ProvidersProofs`, on the pools, the worker threads and the ports.
  MongoDB: `PoolTyped`, `PoolCounts`, `PoolCurrent`, `PoolGap`, `PoolLossClears`,
  `PoolStrandsNobody`, and the refinement `PoolBounded` (`Spec => Bounds!Spec`).
  `PoolInv` adds to the type and the count that the queue holds exactly the waiting
  commands, each once: a wake-up must find a command that waits, or it would move
  one that has a place. `NobodyStranded` is inductive beside it: a place that comes
  free wakes one more, and who was woken takes one place or, when there is none,
  leaves none behind. The refinement rests on the count: `total < Max` with
  nothing idle is what "fewer than `Max` are served" becomes.
  SQL: `SqlPoolKeeps` (`SqlInv`) by `SqlInd`, which adds that nobody is queued
  twice. The limit is the hard part: the count of resources is compared with the
  callers under way, a caller that validates being one whose resource no table has.
  Worker threads: `AgentsKeep` (`AgentInv`) by `AgentInd`: an agent is in no list
  but its parent's, and one that was not started is in none. A subtree is then
  closed under the lists, and to terminate it leaves no list with a hole.
  Ports: `PortKeeps` (`PortInv`) by `PortInd`: what is in the queue is what comes
  after the last message taken, a reader carries the last one or less, and each
  message that was lost has a reader of its own that a transfer left behind.
* `ShutdownProofs`, on the HTTP server and the catalog.
  HTTP: `HttpTyped`, `HttpSlots`, `HttpNothingKept`, `HttpRefused`,
  `HttpDrained`, `HttpWakes`. `HttpInv` adds who may be in the channel: only
  connections that wait or are gone, each once and unanswered. `HttpRefused` needs
  it, because close answers whatever it finds there.
  Catalog: `CatalogTyped`, `CatalogRows`, `CatalogOneConnection`,
  `CatalogShutdown`, for any workers, sweeps and shutdowns. `QueueInv` says that
  every statement, an opener's or a closing instance's, is in one place (queue,
  batch or transaction) and once: an opening that is past the close of its last
  instance has none (`LifeInv`), so no worker has two. `AwaitInv` says that
  whatever closes is awaited, by the opener that swept it or by a shutdown, and
  `LoneInv` that while a shutdown is alone, what is being opened was so when it
  began and what is live is in its list or was: together they are
  `ShutdownComplete`. `ConnInv` is for the connection: until a shutdown breaks into
  an opening, fails or overlaps another, there is one, or one being opened.
* `ModuleGraphProofs`, for every import graph, any modules that throw, await or fail
  to load, and any requests: `FailuresStay` (`GraphInv`), `ResolvedHasRun`
  (`ResolvesEvaluated`) and `MapCovers` (`CoversUnlessFailed`).
  `EvalInv` is what V8's evaluation keeps, as modelled: the path leads over imports
  (`PathInv`), a module that has left it is in a cycle with one that is on it
  (`LeftInv`), a cycle ends as a whole and after its imports (`ShutInv`), its root
  ends well only if all of it has (`RootInv`), and a module waits for the cycles it
  imports that have not ended (`AwaitedInv`, `WaitsInv`, `NeedsInv`). From it a
  fulfilled module has a graph that has run whole (`FulfilledGraph`): the modules
  whose cycle has ended well are closed under imports, and a graph is the least
  closed set. The registry's part says what is in the module map (`MapInv`), what
  the tables say of modules that were told (`ToldInv`), where a request is
  (`PlacesInv`), and that until a load fails the module map is what is linked and
  what this `build_graph` has found (`CoverInv`).

Every invariant and every action property that a passing run checks is one of
these theorems. Only model-checked are the liveness properties (`TimersFire`,
`ReadyOpsSettle`, `ImportsSettle`, `LateHandlerRetracts`, `Answered`, `AlarmRuns`,
`WaitersServed`, `AllEnd`, `PortDrained`, `ServerAnswers`, `CatalogAnswers`),
since fairness and ENABLED are beyond the prover. The theorems of
`ModuleGraphProofs` rest on the external model of V8's evaluation as everything
else in that module does.

## Known limits

* A timer set before the first tick is anchored at time 0, although the clock
  already runs: it may fire early. The anchor is modelled; no property bounds
  it.
* A listener of the rejection events that attaches a handler to, or rejects,
  another promise during the same drain, and colliding identity hashes, break
  `ReportsOnlyUnhandled` and `NoneForgotten`; the constants `ListenerActs` and
  `Collisions` turn them on.
* `FailuresRecorded` begins when a failed import has been told so. Between the
  checkpoint in which a graph fails and the next tick its members look healthy.
* An import that finishes in the microtask checkpoint settles one tick later,
  possibly after a park; `ImportsSettle` of `ModuleGraph` says that it settles,
  not when.
* The gate is not claimed for transactions over unsynced state: `stale_flush` is
  one way it fails, and a queued flush drawn into a transaction that rolls back
  is another. Errors of methods are not gated by the code.
* An alarm at time 0 is read as "none" by `get()`, so its turn throws before the
  handler (`TurnMisreads`); `AlarmRuns` starts at 1.
* A call, or the scheduler's turn, that comes while `start()` is at an alarm
  operation breaks the index (`alarm_start`), and more: the turn reads `#alarm`
  before `start()` has set it and writes NULL to the index (`workers.js:3955`), and
  settle (3965) deletes a time that `start()` asked for while the handler ran. A
  `start()` that throws leaves whoever is inside with a closed file and an index
  it can still write. The model has all of it; `EarlyNeverLate`, `RunsAgain`,
  `MemoryTrue`, `AskedTimeKept` and `AlarmRuns` end at `crossed`.
* Alarm operations that are not awaited, a sweep over more workers than its
  batch, shutdown during `start()`, and a second worker that is let go of while one
  still is in use, are not modelled with the alarm.
* A transaction (`TxCall`) is awaited by the method that calls it.

* A listener of tick's phases 4 and 5 that sets a timer does so after the last
  `drain_new_timers`: with `HookActs = {"timer"}` the driver parks past that
  timer and `ParksUntilNextTimer` fails.
* A sweep over several workers works off a list that was made before its awaits.
  With `MaxSweep = 2`, three workers and four calls `Answered` fails: a worker
  later in the list is called meanwhile and calls the worker being opened, and
  opening, closing and call wait for each other. With four workers and six calls
  `evict` can also take a newer instance out of `live`, which breaks
  `OneWriter`; that is too large a run, and is followed by hand.
* A method that passes on the `Shutdown` error of a call it made is run a second
  time by its own reference: `Throw` and `Refused` model it, no property counts.
* A `stop()` that makes calls, calls that are not awaited, and shutdown are not
  modelled with the calls.

Where the code of the newer modules does not keep what one might expect of it,
the model has a flag or a condition at that point, and the property ends there:

* `build_graph` (`runtime/src/lib.rs:1232`) walks a module only when it compiled
  it itself. A load that fails leaves compiled modules whose imports nobody has
  walked, and a later graph that contains one is not covered whole, although
  line 1190 says so: `CoversUnlessFailed` ends with the first failed load.
* MongoDB: a pool starts at generation 0 although failed checks may have raised
  the topology's already (`missed`). The errors of its connections are then
  behind, count as stale, and clear nothing; `LossClears` is for `missed = 0`.
* MongoDB: a waiter that is cancelled after it was woken leaves without taking the
  place, and nobody else is woken (`wasted`).
* SQL: a resource under validation is in no table, so the pool can exceed its
  maximum (`hidden`), although a comment at `db.js:1872` speaks of callers who
  would overshoot it. A waiter woken beside such a caller is queued again, behind
  the others, and without its first timeout.
* Worker threads: an agent that has been terminated but still runs may start a
  worker that no entry lists (`strays`). One that is terminated before its
  interrupt handle is published, or closes itself under a pending top-level
  await, hears nothing until its entry module settles (`Deaf`).
* Ports: a transfer can cost the message that a receive under way takes, although
  `providers/src/lib.rs:2067` says that a reader is stopped without consuming one:
  `NothingLost` says so and is violated (`lost_message`). What holds, and is proved,
  is that a transfer costs one at most (`LostToTransfers`).
* HTTP: `close` and `shutdown_all` find no receiver while `next_requests` has it
  out. It comes back afterwards, and with the loop ended nobody reads or drops
  it: the requests in it are answered only when their clients go. The same
  happens to a server stopped before its bind ended, which `docs/API.md:2824`
  says stops accepting. `ServerAnswers` names the case (`Unread`).
* Shutdown of the durable workers does not wait for what was being opened when it
  began (`early`): such a worker is live, and such a connection open, after
  `shutdown()` resolved. Nor does it wait for what a sweep is closing, because such a
  worker is not in `live` any more (`shutdown_leaves`). `docs/API.md:4454` says that
  it closes every open worker and releases the directory.
* A second `shutdown()` before the first has ended drops its flag and its registry:
  `ShutdownComplete` is for one that no other overlaps. That both end is checked.
* A `stop()` that throws fails the shutdown that awaits it, which leaves the
  connection open (`stray`) and the rest of its list live.
* A sweep of the catalog's model closes one worker. A second `evict` of a worker that
  is closing already touches its row once more and replaces its entry in `closing`,
  and an instance that a stale list entry takes out of `live` is neither closed nor
  followed any further: both are left out. Statements find the database busy on
  their own or at a commit, not inside a group, where the code does not try again.
* The MongoDB model takes every error as newer than what is known: `topologyVersion`
  is left out.

## What is not modelled, and why

Listed with reasons under `components` in `PROJECT.json`. In short: the shards,
sockets and collections of durable workers and the client packages are worth
modelling and come next; broadcast channels are a list of queues that the ports
already have; codecs, cryptography, images, file and socket access, command lines
and the V8 glue are libraries, single requests or text, where a small instance
says little. These make up most of the repository's lines.

## Plan

Done, in this order: the loop with its timers and ops, rejections, the module
registry, durable state, alarms and calls; the two connection pools, worker
threads, ports, the HTTP server with its drain, the durable catalog with its
shutdown, the refinements of the pool, of the timers and of a durable worker.

1. Proofs of all safety properties of the passing runs: done.
2. Eviction alone, with sweeps of several workers, small enough to reach their
   stale list entries; shutdown during `start()` with it.
3. Shards with the watchdog, then the redis client's reconnection.
