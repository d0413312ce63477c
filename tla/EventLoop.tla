------------------------------ MODULE EventLoop ------------------------------
(***************************************************************************)
(* The driven event loop: OpState and its dispatch callbacks               *)
(* (crates/engine/src/op.rs), Runtime::tick and process_dynamic_imports     *)
(* (crates/runtime/src/lib.rs) and the standalone driver that runs them     *)
(* (crates/default-providers/src/driver.rs).                                *)
(*                                                                          *)
(* The guest's JavaScript is the environment: while a phase of the loop is   *)
(* inside JavaScript (JSRuns) any of the guest actions may happen, any       *)
(* number of times within the bounds.  Providers' threads (OpReady), V8's    *)
(* threads (WasmFinish), the watchdog (Terminate) and the clock (Advance)    *)
(* interleave with every step.                                              *)
(***************************************************************************)
EXTENDS TimerQueue, Sequences, FiniteSets

CONSTANTS
    MaxTimers,      \* bound: timers one run creates
    Delays,         \* the delays setTimeout/setInterval are called with, ms
    Ops,            \* async op calls, each dispatched at most once
    UnrefOps,       \* those whose OpDecl is unref(): they hold nothing open
    MaxPendingOps,  \* Limits: op calls that may be in flight at once
    Imports,        \* dynamic import() calls, each raised at most once
    MaxHandles,     \* bound: refs on workers and datagram sockets
    Wasm,           \* BOOLEAN: the guest compiles WebAssembly
    MayTerminate,   \* BOOLEAN: process.exit, a watchdog or the heap guard
    HookActs,       \* what listeners run by phases 4 and 5 of tick do
    MaxClock        \* bound: the clock, ms

ASSUME ConstantsAssumption ==
    /\ MaxTimers \in Nat /\ Delays \subseteq Nat
    /\ MaxPendingOps \in Nat /\ MaxHandles \in Nat /\ MaxClock \in Nat
    /\ UnrefOps \subseteq Ops
    /\ HookActs \subseteq {"timer", "micro", "op", "import", "ref"}

VARIABLES
    pc,          \* where the driver is: see Phases
    clock,       \* the Clock provider's monotonic_ms
    now,         \* Runtime.now_ms: the clock as the last tick read it
    timers,      \* OpState.timers: the ids of the active timers
    referenced,  \* those of them that hold the loop open
    newTimers,   \* OpState.new_timers
    heap,        \* Runtime.timers, the schedule
    due,         \* the rest of the batch take_due returned to this tick
    cur,         \* the entry whose callback runs (pc = "callback")
    nextId,      \* OpState.next_timer_id
    op,          \* the state of each async op call
    notified,    \* the driver's Notify holds a permit
    micro,       \* V8's microtask queue is not empty
    raised,      \* ModuleRegistry.pending_dynamic
    batch,       \* the requests process_dynamic_imports has taken
    settling,    \* ModuleRegistry.dynamic_settling
    rejecting,   \* ModuleRegistry.dynamic_rejecting
    evalDone,    \* imports whose module's evaluation promise has settled
    settled,     \* imports whose own promise has settled
    entry,       \* the entry module's evaluation promise
    evalPending, \* Runtime.module_eval_pending
    wasm,        \* the async WebAssembly compile in flight
    handles,     \* Runtime.handle_refs
    terminated,  \* InterruptHandle.requested
    linked,      \* what process_dynamic_imports returns
    v8Work,      \* TickStatus.v8_background_work
    wakeAt       \* the sleep the parked driver races its waker against

timerVars == <<timers, referenced, newTimers, heap, due, cur, nextId>>
importVars == <<raised, batch, settling, rejecting, evalDone, settled>>
guestVars == <<micro, entry, wasm, handles, terminated>>
driverVars == <<evalPending, linked, v8Work, wakeAt>>
vars == <<pc, clock, now, timerVars, op, notified, importVars, guestVars, driverVars>>

Ids == 1 .. MaxTimers

Phases == {"entry", "top", "fire", "callback", "settle", "micro", "hooks", "driver",
           "imports", "batch", "link", "decide", "parked", "exit"}

NoEntry == [deadline |-> 0, id |-> 0, interval |-> 0, repeat |-> FALSE]

Range(s) == {s[i] : i \in 1 .. Len(s)}

TypeOK ==
    /\ pc \in Phases
    /\ clock \in Nat /\ now \in Nat /\ wakeAt \in Nat
    /\ timers \subseteq Ids /\ referenced \subseteq timers
    /\ newTimers \subseteq [id: Ids, delay: Nat, repeat: BOOLEAN]
    /\ heap \subseteq Scheduled(Ids) /\ due \subseteq Scheduled(Ids)
    /\ cur \in Scheduled(Ids) \cup {NoEntry}
    /\ nextId \in 1 .. MaxTimers + 1
    /\ op \in [Ops -> {"idle", "pending", "ready", "settled", "refused"}]
    /\ notified \in BOOLEAN /\ micro \in BOOLEAN /\ entry \in {"pending", "ok", "failed"}
    /\ raised \in Seq(Imports) /\ batch \in Seq(Imports)
    /\ settling \subseteq Imports /\ rejecting \subseteq Imports
    /\ evalDone \subseteq Imports /\ settled \subseteq Imports
    /\ evalPending \in BOOLEAN /\ linked \in BOOLEAN /\ v8Work \in BOOLEAN
    /\ wasm \in {"idle", "compiling", "finished", "resolved"}
    /\ handles \in 0 .. MaxHandles /\ terminated \in BOOLEAN

(* A program whose entry module is about to be evaluated. *)
Init ==
    /\ pc = "entry" /\ clock = 0 /\ now = 0
    /\ timers = {} /\ referenced = {} /\ newTimers = {} /\ heap = {} /\ due = {}
    /\ cur = NoEntry /\ nextId = 1
    /\ op = [o \in Ops |-> "idle"] /\ notified = FALSE
    /\ raised = <<>> /\ batch = <<>> /\ settling = {} /\ rejecting = {}
    /\ evalDone = {} /\ settled = {}
    /\ micro = FALSE /\ entry = "pending" /\ evalPending = TRUE
    /\ wasm = "idle" /\ handles = 0 /\ terminated = FALSE
    /\ linked = FALSE /\ v8Work = FALSE /\ wakeAt = 0

-----------------------------------------------------------------------------
(* JavaScript runs in the entry module's body, a timer callback, the        *)
(* microtask checkpoint, a listener of phases 4 and 5, and the body of a     *)
(* module that link_dynamic evaluates; never once execution is terminated.   *)

JSRuns(act) ==
    /\ ~terminated
    /\ \/ pc \in {"entry", "callback", "link"}
       \/ pc = "micro" /\ micro
       \/ pc = "hooks" /\ act \in HookActs

(* setTimeout / setInterval: timer_set_inner. *)
SetTimer(delay, repeat) ==
    /\ JSRuns("timer") /\ nextId <= MaxTimers
    /\ nextId' = nextId + 1
    /\ timers' = timers \cup {nextId} /\ referenced' = referenced \cup {nextId}
    /\ newTimers' = newTimers \cup {[id |-> nextId, delay |-> delay, repeat |-> repeat]}
    /\ UNCHANGED <<pc, clock, now, heap, due, cur, op, notified, importVars, guestVars,
                   driverVars>>

(* clearTimeout / clearInterval: timer_clear_inner leaves the schedule be. *)
ClearTimer(id) ==
    /\ JSRuns("timer")
    /\ timers' = timers \ {id} /\ referenced' = referenced \ {id}
    /\ UNCHANGED <<pc, clock, now, newTimers, heap, due, cur, nextId, op, notified,
                   importVars, guestVars, driverVars>>

(* refTimer / unrefTimer. *)
TimerRef(id, hold) ==
    /\ JSRuns("ref") /\ id \in timers
    /\ referenced' = IF hold THEN referenced \cup {id} ELSE referenced \ {id}
    /\ UNCHANGED <<pc, clock, now, timers, newTimers, heap, due, cur, nextId, op, notified,
                   importVars, guestVars, driverVars>>

PendingAsync == {o \in Ops : op[o] \in {"pending", "ready"}}

(* op_dispatch_inner for an async op: the future is polled once, eagerly.    *)
(* Ready at once, its promise is resolved without being registered; pending, *)
(* it is refused at the limit, else registered and the driver woken.         *)
OpDispatch(o, readyNow) ==
    /\ JSRuns("op") /\ op[o] = "idle"
    /\ LET full == Cardinality(PendingAsync) >= MaxPendingOps
       IN  /\ op' = [op EXCEPT ![o] = IF readyNow THEN "settled"
                                      ELSE IF full THEN "refused" ELSE "pending"]
           /\ micro' = (micro \/ readyNow)
           /\ notified' = (notified \/ (~readyNow /\ ~full))
    /\ UNCHANGED <<pc, clock, now, timerVars, importVars, entry, wasm, handles,
                   terminated, driverVars>>

(* A promise settles or queueMicrotask is called. *)
QueueMicrotask ==
    /\ JSRuns("micro") /\ micro' = TRUE
    /\ UNCHANGED <<pc, clock, now, timerVars, op, notified, importVars, entry, wasm,
                   handles, terminated, driverVars>>

(* import(): dynamic_import_inner. *)
Import(i) ==
    /\ JSRuns("import")
    /\ i \notin Range(raised) \cup Range(batch) \cup settling \cup rejecting \cup settled
    /\ raised' = Append(raised, i)
    /\ UNCHANGED <<pc, clock, now, timerVars, op, notified, batch, settling, rejecting,
                   evalDone, settled, guestVars, driverVars>>

(* The last top-level await of a module's graph resumes and its evaluation   *)
(* promise settles: for an import in flight, or for the entry module.        *)
FinishEvaluation(i) ==
    /\ pc = "micro" /\ JSRuns("micro") /\ i \in settling \ evalDone
    /\ evalDone' = evalDone \cup {i}
    /\ UNCHANGED <<pc, clock, now, timerVars, op, notified, raised, batch, settling,
                   rejecting, settled, guestVars, driverVars>>

FinishEntry(outcome) ==
    /\ pc \in {"entry", "micro"} /\ JSRuns("micro")
    /\ entry = "pending" /\ entry' = outcome
    /\ UNCHANGED <<pc, clock, now, timerVars, op, notified, importVars, micro, wasm, handles,
                   terminated, driverVars>>

(* The prelude's WebAssembly wrappers call wasm_pending(+1) when a compile    *)
(* starts (one at a time here) and wasm_pending(-1) in a reaction of it.      *)
WasmStart ==
    /\ Wasm /\ JSRuns("op") /\ wasm = "idle" /\ wasm' = "compiling"
    /\ UNCHANGED <<pc, clock, now, timerVars, op, notified, importVars, micro, entry,
                   handles, terminated, driverVars>>

(* ref() / unref() of a worker or a datagram socket. *)
RefHandle(d) ==
    /\ JSRuns("ref") /\ handles + d \in 0 .. MaxHandles /\ handles' = handles + d
    /\ UNCHANGED <<pc, clock, now, timerVars, op, notified, importVars, micro, entry,
                   wasm, terminated, driverVars>>

Guest ==
    \/ \E d \in Delays, r \in BOOLEAN : SetTimer(d, r)
    \/ \E id \in timers : ClearTimer(id) \/ \E b \in BOOLEAN : TimerRef(id, b)
    \/ \E o \in Ops, b \in BOOLEAN : OpDispatch(o, b)
    \/ \E i \in Imports : Import(i) \/ FinishEvaluation(i)
    \/ QueueMicrotask \/ WasmStart
    \/ \E r \in {"ok", "failed"} : FinishEntry(r)
    \/ \E d \in {-1, 1} : RefHandle(d)

-----------------------------------------------------------------------------
(* What happens on other threads.                                            *)

(* A provider completes the work behind a future, which wakes the waker the  *)
(* last poll registered.                                                     *)
OpReady(o) ==
    /\ op[o] = "pending" /\ pc # "exit"
    /\ op' = [op EXCEPT ![o] = "ready"] /\ notified' = TRUE
    /\ UNCHANGED <<pc, clock, now, timerVars, importVars, guestVars, driverVars>>

(* V8 finishes a compile and posts a foreground task: no waker is told. *)
WasmFinish ==
    /\ wasm = "compiling" /\ pc # "exit" /\ wasm' = "finished"
    /\ UNCHANGED <<pc, clock, now, timerVars, op, notified, importVars, micro, entry,
                   handles, terminated, driverVars>>

(* InterruptHandle::terminate, from process.exit, a watchdog or the heap      *)
(* guard: a latch.                                                            *)
Terminate ==
    /\ MayTerminate /\ ~terminated /\ pc # "exit" /\ terminated' = TRUE
    /\ UNCHANGED <<pc, clock, now, timerVars, op, notified, importVars, micro, entry,
                   wasm, handles, driverVars>>

Advance ==
    /\ clock < MaxClock /\ pc # "exit" /\ clock' = clock + 1
    /\ UNCHANGED <<pc, now, timerVars, op, notified, importVars, guestVars, driverVars>>

Threads == (\E o \in Ops : OpReady(o)) \/ WasmFinish \/ Terminate

-----------------------------------------------------------------------------
(* The loop.                                                                 *)

(* drain_new_timers: schedule what was created, anchored at t, then prune.   *)
Drained(h, t) ==
    PruneCleared(h \cup {Entry(n.id, t, n.delay, n.repeat) : n \in newTimers}, timers)

DrainNewTimers(h, t) == heap' = Drained(h, t) /\ newTimers' = {}

(* begin_evaluation returns: timers are anchored at now_ms. *)
EntryReturns ==
    /\ pc = "entry" /\ pc' = "top" /\ DrainNewTimers(heap, now)
    /\ UNCHANGED <<clock, now, timers, referenced, due, cur, nextId, op, notified,
                   importVars, guestVars, driverVars>>

(* tick up to take_due. *)
TickBegin ==
    /\ pc = "top" /\ pc' = "fire" /\ now' = clock
    /\ LET h == Drained(heap, clock)
       IN  due' = TakeDue(h, clock) /\ heap' = h \ due'
    /\ newTimers' = {}
    /\ UNCHANGED <<clock, timers, referenced, cur, nextId, op, notified, importVars,
                   guestVars, driverVars>>

(* Fault: a timer cleared by an earlier callback of the batch fires anyway. *)
FireTimerCleared ==
    /\ pc = "fire"
    /\ \E e \in due :
        /\ IsFront(e, due) /\ due' = due \ {e}
        /\ pc' = "callback" /\ cur' = e
        /\ timers' = IF e.repeat THEN timers ELSE timers \ {e.id}
        /\ referenced' = referenced \cap timers'
    /\ UNCHANGED <<clock, now, newTimers, heap, nextId, op, notified, importVars, guestVars,
                   driverVars>>

(* fire_timer up to the callback: an inactive timer is skipped, a one-shot    *)
(* one leaves the table first.                                               *)
FireTimer ==
    /\ pc = "fire"
    /\ \E e \in due :
        /\ IsFront(e, due) /\ due' = due \ {e}
        /\ IF e.id \in timers
           THEN /\ pc' = "callback" /\ cur' = e
                /\ timers' = IF e.repeat THEN timers ELSE timers \ {e.id}
                /\ referenced' = referenced \cap timers'
           ELSE UNCHANGED <<pc, cur, timers, referenced>>
    /\ UNCHANGED <<clock, now, newTimers, heap, nextId, op, notified, importVars, guestVars,
                   driverVars>>

(* Fault: an interval fires once. *)
CallbackReturnsNoRearm ==
    /\ pc = "callback" /\ pc' = "fire" /\ cur' = NoEntry
    /\ UNCHANGED <<clock, now, timers, referenced, newTimers, heap, due, nextId, op,
                   notified, importVars, guestVars, driverVars>>

(* The callback returns: a still-active interval is re-armed at now_ms. *)
CallbackReturns ==
    /\ pc = "callback" /\ pc' = "fire" /\ cur' = NoEntry
    /\ heap' = IF cur.repeat /\ cur.id \in timers
               THEN heap \cup {Entry(cur.id, now, cur.interval, TRUE)} ELSE heap
    /\ UNCHANGED <<clock, now, timers, referenced, newTimers, due, nextId, op, notified,
                   importVars, guestVars, driverVars>>

(* Fault: timers the callbacks made join the batch, so a zero-delay interval    *)
(* keeps the tick in phase 1.                                                   *)
TimersDoneRefills ==
    /\ pc = "fire" /\ due = {}
    /\ LET h == Drained(heap, now)
       IN  due' = TakeDue(h, now) /\ heap' = h \ due'
    /\ pc' = IF due' = {} THEN "settle" ELSE "fire"
    /\ newTimers' = {}
    /\ UNCHANGED <<clock, now, timers, referenced, cur, nextId, op, notified, importVars,
                   guestVars, driverVars>>

(* The batch is done: timers the callbacks made are scheduled. *)
TimersDone ==
    /\ pc = "fire" /\ due = {} /\ pc' = "settle" /\ DrainNewTimers(heap, now)
    /\ UNCHANGED <<clock, now, timers, referenced, due, cur, nextId, op, notified,
                   importVars, guestVars, driverVars>>

ReadyOps == {o \in Ops : op[o] = "ready"}

(* poll_async_ops, pump_message_loop and settle_dynamic.  Every promise they  *)
(* settle queues its reactions.                                              *)
SettleReady ==
    /\ pc = "settle" /\ pc' = "micro"
    /\ op' = [o \in Ops |-> IF op[o] = "ready" THEN "settled" ELSE op[o]]
    /\ wasm' = IF wasm = "finished" THEN "resolved" ELSE wasm
    /\ rejecting' = {} /\ settling' = settling \ evalDone
    /\ settled' = settled \cup rejecting \cup (settling \cap evalDone)
    /\ micro' = (micro \/ ReadyOps # {} \/ wasm = "finished"
                 \/ rejecting # {} \/ settling \cap evalDone # {})
    /\ UNCHANGED <<clock, now, timerVars, notified, raised, batch, evalDone, entry,
                   handles, terminated, driverVars>>

(* Fault: the schedule is not brought up to date after the checkpoint. *)
MicrotasksDoneNoDrain ==
    /\ pc = "micro" /\ pc' = "hooks" /\ micro' = FALSE
    /\ wasm' = IF wasm = "resolved" /\ ~terminated THEN "idle" ELSE wasm
    /\ UNCHANGED <<clock, now, timerVars, op, notified, importVars, entry, handles,
                   terminated, driverVars>>

(* run_microtasks empties the queue, the wasm_pending(-1) of a resolved       *)
(* compile included unless execution was terminated.                         *)
MicrotasksDone ==
    /\ pc = "micro" /\ pc' = "hooks"
    /\ micro' = FALSE /\ DrainNewTimers(heap, now)
    /\ wasm' = IF wasm = "resolved" /\ ~terminated THEN "idle" ELSE wasm
    /\ UNCHANGED <<clock, now, timers, referenced, due, cur, nextId, op, notified,
                   importVars, entry, handles, terminated, driverVars>>

(* After the listeners of phases 4 and 5: the status tick returns. *)
TickEnd ==
    /\ pc = "hooks" /\ pc' = "driver"
    /\ evalPending' = (evalPending /\ entry = "pending")
    /\ v8Work' = (wasm # "idle")
    /\ UNCHANGED <<clock, now, timerVars, op, notified, importVars, guestVars, linked, wakeAt>>

(* drive_while after a tick: stop if terminated, else process the imports. *)
TickReturned ==
    /\ pc = "driver" /\ linked' = FALSE
    /\ pc' = IF terminated THEN "exit" ELSE "imports"
    /\ UNCHANGED <<clock, now, timerVars, op, notified, importVars, guestVars, evalPending,
                   v8Work, wakeAt>>

(* One round of process_dynamic_imports' loop, or its end. *)
TakePendingDynamic ==
    /\ pc = "imports"
    /\ IF raised = <<>>
       THEN pc' = "decide" /\ UNCHANGED <<raised, batch, linked>>
       ELSE pc' = "batch" /\ batch' = raised /\ raised' = <<>> /\ linked' = TRUE
    /\ UNCHANGED <<clock, now, timerVars, op, notified, settling, rejecting, evalDone,
                   settled, guestVars, evalPending, v8Work, wakeAt>>

(* reject_dynamic (the graph cannot be loaded), or link_dynamic of a module   *)
(* already known to have errored.                                            *)
RejectDynamic ==
    /\ pc = "batch" /\ batch # <<>>
    /\ rejecting' = rejecting \cup {Head(batch)} /\ batch' = Tail(batch)
    /\ UNCHANGED <<pc, clock, now, timerVars, op, notified, raised, settling, evalDone,
                   settled, guestVars, driverVars>>

(* link_dynamic: the module's body runs, in JavaScript, until LinkReturns;    *)
(* its evaluation promise is settled by then unless it awaits at top level.   *)
LinkDynamic ==
    /\ pc = "batch" /\ batch # <<>> /\ pc' = "link"
    /\ UNCHANGED <<clock, now, timerVars, op, notified, importVars, guestVars, driverVars>>

LinkReturns(done) ==
    /\ pc = "link" /\ batch # <<>> /\ pc' = "batch" /\ batch' = Tail(batch)
    /\ settling' = settling \cup {Head(batch)}
    /\ evalDone' = IF done THEN evalDone \cup {Head(batch)} ELSE evalDone
    /\ UNCHANGED <<clock, now, timerVars, op, notified, raised, rejecting, settled,
                   guestVars, driverVars>>

(* Evaluation was terminated: link_dynamic fails and the driver stops. *)
LinkTerminated ==
    /\ pc = "link" /\ terminated /\ pc' = "exit"
    /\ UNCHANGED <<clock, now, timerVars, op, notified, importVars, guestVars, driverVars>>

BatchDone ==
    /\ pc = "batch" /\ batch = <<>> /\ pc' = "imports" /\ DrainNewTimers(heap, now)
    /\ UNCHANGED <<clock, now, timers, referenced, due, cur, nextId, op, notified,
                   importVars, guestVars, driverVars>>

(* Fault: an import that is linked, or about to be rejected, is not work. *)
HasPendingWorkForgetsImports ==
    \/ PendingAsync \ UnrefOps # {} \/ referenced # {} \/ evalPending
    \/ Len(raised) > 0 \/ wasm # "idle" \/ handles > 0

HasPendingWork ==
    \/ PendingAsync \ UnrefOps # {}
    \/ referenced # {}
    \/ evalPending
    \/ Len(raised) > 0 \/ settling # {} \/ rejecting # {}
    \/ wasm # "idle"
    \/ handles > 0

(* The rest of drive_while's iteration: stop, re-tick at once, or park until  *)
(* the next deadline (or the fallback, 1 ms) or a wake-up.  The CLI keeps      *)
(* going until the entry module's evaluation fails.                           *)
KeepGoing == entry # "failed"

AsyncFallbackMs == 1

WakeTimes == IF heap = {} THEN {clock + AsyncFallbackMs} ELSE NextDeadline(heap)

Quit ==
    /\ pc = "decide" /\ ~(HasPendingWork /\ KeepGoing) /\ pc' = "exit"
    /\ UNCHANGED <<clock, now, timerVars, op, notified, importVars, guestVars, driverVars>>

Retick ==
    /\ pc = "decide" /\ HasPendingWork /\ KeepGoing /\ pc' = "top"
    /\ linked \/ v8Work \/ \E d \in WakeTimes : d <= clock
    /\ UNCHANGED <<clock, now, timerVars, op, notified, importVars, guestVars, driverVars>>

(* Fault: each park starts from a fresh Notify, without the stored permit. *)
ParkDropsPermit ==
    /\ pc = "decide" /\ HasPendingWork /\ KeepGoing /\ ~linked /\ ~v8Work
    /\ \E d \in WakeTimes : d > clock /\ wakeAt' = d
    /\ pc' = "parked" /\ notified' = FALSE
    /\ UNCHANGED <<clock, now, timerVars, op, importVars, guestVars, evalPending, linked,
                   v8Work>>

Park ==
    /\ pc = "decide" /\ HasPendingWork /\ KeepGoing /\ ~linked /\ ~v8Work
    /\ \E d \in WakeTimes : d > clock /\ wakeAt' = d
    /\ pc' = "parked"
    /\ UNCHANGED <<clock, now, timerVars, op, notified, importVars, guestVars, evalPending,
                   linked, v8Work>>

Wake ==
    /\ pc = "parked" /\ notified /\ pc' = "top" /\ notified' = FALSE
    /\ UNCHANGED <<clock, now, timerVars, op, importVars, guestVars, driverVars>>

(* Instants past the clock's bound are not told apart: a sleep ends there. *)
SleepEnds ==
    /\ pc = "parked" /\ (clock >= wakeAt \/ clock = MaxClock) /\ pc' = "top"
    /\ UNCHANGED <<clock, now, timerVars, op, notified, importVars, guestVars, driverVars>>

Loop ==
    \/ EntryReturns \/ TickBegin \/ FireTimer \/ CallbackReturns \/ TimersDone
    \/ SettleReady \/ MicrotasksDone \/ TickEnd \/ TickReturned \/ TakePendingDynamic
    \/ RejectDynamic \/ LinkDynamic \/ (\E b \in BOOLEAN : LinkReturns(b))
    \/ LinkTerminated \/ BatchDone \/ Quit \/ Retick \/ Park \/ Wake \/ SleepEnds

Stopped == pc = "exit" /\ UNCHANGED vars

Next == Guest \/ Threads \/ Advance \/ Loop \/ Stopped

(* The driver keeps running: callbacks return and the clock moves. *)
Spec == Init /\ [][Next]_vars /\ WF_vars(Loop) /\ WF_vars(Advance)
-----------------------------------------------------------------------------
(* Where the schedule knows of a timer.                                      *)
NewIds == {n.id : n \in newTimers}
HeapIds == {e.id : e \in heap}
DueIds == {e.id : e \in due}

(* No active timer is forgotten: between any two steps of the loop, whatever  *)
(* was created, fired, re-armed or cleared, each entry of OpState.timers      *)
(* waits in new_timers, the schedule or the batch being fired, or is the      *)
(* interval whose callback runs.                                             *)
NoTimerLost ==
    \A id \in timers : id \in NewIds \cup HeapIds \cup DueIds \cup {cur.id}

(* No timer is scheduled twice: the four places hold an id at most once       *)
(* between them, so one firing never leaves a second one behind.             *)
ScheduledOnce ==
    /\ \A m, n \in newTimers : m.id = n.id => m = n
    /\ \A e, f \in heap \cup due : e.id = f.id => e = f
    /\ heap \cap due = {} /\ NewIds \cap (HeapIds \cup DueIds) = {}
    /\ cur.id \notin NewIds \cup HeapIds \cup DueIds

(* The inductive form of the two: ids are never reused, an entry outlives the  *)
(* table only as a cleared timer's, and the places are empty when idle.        *)
TimerInv ==
    /\ NoTimerLost /\ ScheduledOnce
    /\ \A id \in NewIds \cup HeapIds \cup DueIds \cup {cur.id} : id < nextId
    /\ pc # "callback" => cur = NoEntry
    /\ pc = "callback" => cur \in Scheduled(Ids) /\ (~cur.repeat => cur.id \notin timers)
    /\ pc \notin {"fire", "callback"} => due = {}

(* What else the order of firing needs: the batch is what was due, and nothing   *)
(* that is due is left in the schedule while it is fired.                      *)
OrderInv ==
    /\ now <= clock
    /\ pc \in {"fire", "callback"} =>
          /\ \A e \in due : e.deadline <= now
          /\ \A e \in heap : now <= e.deadline

(* The timers as the guest sees them: an entry that its timer has outlived is    *)
(* still in new_timers, the schedule or the batch, but will never run.           *)
Live(entries) == {e \in entries : e.id \in timers}

(* The callback that runs: an interval that it clears will not be back. *)
Running == [cur EXCEPT !.repeat = cur.repeat /\ cur.id \in timers]

Contract == INSTANCE TimerContract WITH
    Idle <- NoEntry, active <- timers, next <- nextId, asked <- Live(newTimers),
    scheduled <- Live(heap \cup due), turn <- DueIds \cap timers,
    running <- Running

(* The loop keeps the contract of timers, though it leaves cleared ones in the   *)
(* schedule until they come to its front (prune_cleared) or their turn to fire  *)
(* comes (fire_timer): none of them runs, none that is active is passed over,   *)
(* and what a callback sets, clears or re-arms never disturbs the order.        *)
TimersKept == Contract!Spec

(* A ready op is never left behind by a parked driver: the wake-up that came   *)
(* between the last poll of its future and the park is still there to end it. *)
NoLostWake == pc = "parked" /\ ~notified => ReadyOps = {}

(* Its inductive form: after a tick has polled, and until the next one begins, *)
(* a ready op implies a permit.                                               *)
WakeInv ==
    pc \notin {"top", "fire", "callback", "settle"} /\ ~notified => ReadyOps = {}

(* The driver parks until the next timer and for no other: while it is parked  *)
(* no active timer is due before the sleep ends, and no cleared one prolongs    *)
(* it.                                                                        *)
ParksUntilNextTimer ==
    pc = "parked" =>
        /\ newTimers = {}
        /\ \A e \in heap : e.id \in timers => wakeAt <= e.deadline
        /\ heap # {} => \E e \in heap : e.id \in timers /\ wakeAt = e.deadline

(* Its inductive form, when no listener of phases 4 and 5 sets or clears a      *)
(* timer: from the microtask checkpoint to the park the schedule is drained and *)
(* each entry of it has an active one at or before it.                        *)
ParkInv ==
    /\ pc \in {"hooks", "driver", "imports", "decide", "parked"} =>
          /\ newTimers = {}
          /\ \A e \in heap : \E f \in heap : f.id \in timers /\ Leq(f, e)
    /\ pc = "parked" => heap = {} \/ wakeAt \in NextDeadline(heap)

(* A program that ends by itself leaves nothing that could still run: no       *)
(* reaction in the microtask queue, no promise a tick would settle, no compile *)
(* and no unsettled import.                                                   *)
EndsQuiet ==
    pc = "exit" /\ ~terminated /\ KeepGoing =>
        /\ ~micro /\ ReadyOps \subseteq UnrefOps /\ wasm = "idle"
        /\ raised = <<>> /\ batch = <<>> /\ settling = {} /\ rejecting = {}

(* Its inductive form, when no listener of phases 4 and 5 queues a reaction:    *)
(* after the checkpoint only a linked module can have queued one, and what a    *)
(* round of imports took is still taken, linked or about to be rejected.       *)
QuietInv ==
    /\ pc \in {"hooks", "driver"} => ~micro
    /\ pc \in {"batch", "link"} => linked
    /\ pc \in {"imports", "batch", "link", "decide"} =>
          /\ micro => linked
          /\ linked => batch # <<>> \/ settling # {} \/ rejecting # {}
    /\ pc \notin {"batch", "link"} => batch = <<>> \/ (pc = "exit" /\ terminated)
    /\ EndsQuiet

(* Every op whose future is ready has its promise settled, however many        *)
(* timers and imports the loop serves in the meantime.                        *)
ReadyOpsSettle == \A o \in Ops : op[o] = "ready" ~> op[o] = "settled" \/ pc = "exit"

(* A scheduled timer fires or is cleared (if its deadline is within the        *)
(* horizon), unless the program ends.                                        *)
TimersFire ==
    \A id \in Ids : (\E e \in heap : e.id = id /\ id \in timers /\ e.deadline <= MaxClock)
                        ~> id \notin timers \/ cur.id = id \/ pc = "exit"
=============================================================================
