--------------------------- MODULE EventLoopProofs ---------------------------
(***************************************************************************)
(* Theorems about EventLoop for every value of its constants: its type      *)
(* invariant, that the schedule neither loses nor duplicates a timer, that   *)
(* the driver parks on no ready op and until the next timer, and that it     *)
(* ends only when nothing can still run.                                     *)
(***************************************************************************)
EXTENDS EventLoop, TLAPS

(* The empty sequence, for the request queues of ModuleRegistry. *)
LEMMA EmptySeq == ASSUME NEW S PROVE <<>> \in Seq(S)
  OBVIOUS

(* What drain_new_timers leaves in the schedule is well typed. *)
LEMMA DrainedType ==
    ASSUME TypeOK, NEW h \in SUBSET Scheduled(Ids), NEW t \in Nat
    PROVE  Drained(h, t) \in SUBSET Scheduled(Ids)
  BY DEF TypeOK, Drained, PruneCleared, Entry, Scheduled

(* The type invariant is preserved by what guest code does. *)
LEMMA TypeGuest == TypeOK /\ Guest => TypeOK'
<1> SUFFICES ASSUME TypeOK, Guest PROVE TypeOK'
  OBVIOUS
<1> USE ConstantsAssumption DEF timerVars, importVars, guestVars, driverVars, Ids
<1>1. ASSUME NEW d \in Delays, NEW r \in BOOLEAN, SetTimer(d, r) PROVE TypeOK'
  BY <1>1 DEF TypeOK, SetTimer
<1>2. ASSUME NEW id \in timers, ClearTimer(id) PROVE TypeOK'
  BY <1>2 DEF TypeOK, ClearTimer
<1>3. ASSUME NEW id \in timers, NEW b \in BOOLEAN, TimerRef(id, b) PROVE TypeOK'
  BY <1>3 DEF TypeOK, TimerRef
<1>4. ASSUME NEW o \in Ops, NEW b \in BOOLEAN, OpDispatch(o, b) PROVE TypeOK'
  BY <1>4 DEF TypeOK, OpDispatch
<1>5. ASSUME NEW i \in Imports, Import(i) PROVE TypeOK'
  BY <1>5 DEF TypeOK, Import
<1>6. ASSUME NEW i \in Imports, FinishEvaluation(i) PROVE TypeOK'
  BY <1>6 DEF TypeOK, FinishEvaluation
<1>7. CASE QueueMicrotask
  BY <1>7 DEF TypeOK, QueueMicrotask
<1>8. ASSUME NEW r \in {"ok", "failed"}, FinishEntry(r) PROVE TypeOK'
  BY <1>8 DEF TypeOK, FinishEntry
<1>9. CASE WasmStart
  BY <1>9 DEF TypeOK, WasmStart
<1>10. ASSUME NEW d \in {-1, 1}, RefHandle(d) PROVE TypeOK'
  BY <1>10 DEF TypeOK, RefHandle
<1> QED
  BY <1>1, <1>2, <1>3, <1>4, <1>5, <1>6, <1>7, <1>8, <1>9, <1>10 DEF Guest
(* The type invariant is preserved by the other threads and the clock. *)
LEMMA TypeThreads == TypeOK /\ (Threads \/ Advance) => TypeOK'
<1> SUFFICES ASSUME TypeOK, Threads \/ Advance PROVE TypeOK'
  OBVIOUS
<1> USE DEF timerVars, importVars, guestVars, driverVars
<1>1. ASSUME NEW o \in Ops, OpReady(o) PROVE TypeOK'
  BY <1>1 DEF TypeOK, OpReady
<1>2. CASE WasmFinish
  BY <1>2 DEF TypeOK, WasmFinish
<1>3. CASE Terminate
  BY <1>3 DEF TypeOK, Terminate
<1>4. CASE Advance
  BY <1>4 DEF TypeOK, Advance
<1> QED
  BY <1>1, <1>2, <1>3, <1>4 DEF Threads

(* The type invariant is preserved by the steps of tick and of the driver. *)
LEMMA TypeLoop == TypeOK /\ Loop => TypeOK'
<1> SUFFICES ASSUME TypeOK, Loop PROVE TypeOK'
  OBVIOUS
<1> USE ConstantsAssumption DEF timerVars, importVars, guestVars, driverVars
<1>h. heap \in SUBSET Scheduled(Ids) /\ now \in Nat /\ clock \in Nat
  BY DEF TypeOK
<1>1. CASE EntryReturns
  BY <1>1, <1>h, DrainedType DEF TypeOK, EntryReturns, DrainNewTimers, Phases
<1>2. CASE TickBegin
  BY <1>2, <1>h, DrainedType DEF TypeOK, TickBegin, TakeDue, Phases
<1>3. CASE FireTimer
  BY <1>3 DEF TypeOK, FireTimer, Phases
<1>4. CASE CallbackReturns
  <2>1. cur.repeat /\ cur.id \in timers =>
          Entry(cur.id, now, cur.interval, TRUE) \in Scheduled(Ids)
    BY <1>4 DEF TypeOK, Entry, Scheduled, NoEntry, Ids
  <2>2. heap' \subseteq Scheduled(Ids)
    BY <1>4, <1>h, <2>1 DEF CallbackReturns
  <2> QED
    BY <1>4, <2>2 DEF TypeOK, CallbackReturns, Phases
<1>5. CASE TimersDone
  BY <1>5, <1>h, DrainedType DEF TypeOK, TimersDone, DrainNewTimers, Phases
<1>6. CASE SettleReady
  BY <1>6 DEF TypeOK, SettleReady, Phases
<1>7. CASE MicrotasksDone
  BY <1>7, <1>h, DrainedType DEF TypeOK, MicrotasksDone, DrainNewTimers, Phases
<1>8. CASE TickEnd
  BY <1>8 DEF TypeOK, TickEnd, Phases
<1>9. CASE TickReturned
  BY <1>9 DEF TypeOK, TickReturned, Phases
<1>10. CASE TakePendingDynamic
  BY <1>10, EmptySeq DEF TypeOK, TakePendingDynamic, Phases
<1>11. CASE RejectDynamic
  BY <1>11 DEF TypeOK, RejectDynamic, Phases
<1>12. CASE LinkDynamic
  BY <1>12 DEF TypeOK, LinkDynamic, Phases
<1>13. ASSUME NEW b \in BOOLEAN, LinkReturns(b) PROVE TypeOK'
  BY <1>13 DEF TypeOK, LinkReturns, Phases
<1>14. CASE LinkTerminated
  BY <1>14 DEF TypeOK, LinkTerminated, Phases
<1>15. CASE BatchDone
  BY <1>15, <1>h, DrainedType DEF TypeOK, BatchDone, DrainNewTimers, Phases
<1>16. CASE Quit
  BY <1>16 DEF TypeOK, Quit, Phases
<1>17. CASE Retick
  BY <1>17 DEF TypeOK, Retick, Phases
<1>18. CASE Park
  <2>1. WakeTimes \subseteq Nat
    BY <1>h DEF WakeTimes, NextDeadline, AsyncFallbackMs, Scheduled
  <2> QED
    BY <1>18, <2>1 DEF TypeOK, Park, Phases
<1>19. CASE Wake
  BY <1>19 DEF TypeOK, Wake, Phases
<1>20. CASE SleepEnds
  BY <1>20 DEF TypeOK, SleepEnds, Phases
<1> QED
  BY <1>1, <1>2, <1>3, <1>4, <1>5, <1>6, <1>7, <1>8, <1>9, <1>10, <1>11, <1>12, <1>13,
     <1>14, <1>15, <1>16, <1>17, <1>18, <1>19, <1>20 DEF Loop

(* TypeOK: every field of OpState, Runtime and the driver keeps its type. *)
THEOREM TypeCorrect == Spec => []TypeOK
<1>1. Init => TypeOK
  <2> SUFFICES ASSUME Init PROVE TypeOK
    OBVIOUS
  <2>1. raised \in Seq(Imports) /\ batch \in Seq(Imports)
    BY EmptySeq DEF Init
  <2>2. op \in [Ops -> {"idle", "pending", "ready", "settled", "refused"}]
    BY DEF Init
  <2>3. nextId \in 1 .. MaxTimers + 1 /\ handles \in 0 .. MaxHandles
    BY ConstantsAssumption DEF Init
  <2> QED
    BY <2>1, <2>2, <2>3 DEF Init, TypeOK, Phases
<1>2. TypeOK /\ [Next]_vars => TypeOK'
  <2> SUFFICES ASSUME TypeOK, [Next]_vars PROVE TypeOK'
    OBVIOUS
  <2>1. CASE Guest
    BY <2>1, TypeGuest
  <2>2. CASE Threads \/ Advance
    BY <2>2, TypeThreads
  <2>3. CASE Loop
    BY <2>3, TypeLoop
  <2>4. CASE UNCHANGED vars
    BY <2>4 DEF vars, timerVars, importVars, guestVars, driverVars, TypeOK
  <2> QED
    BY <2>1, <2>2, <2>3, <2>4 DEF Next, Stopped
<1> QED
  BY <1>1, <1>2, PTL DEF Spec

-----------------------------------------------------------------------------
(* What drain_new_timers leaves in the schedule, when no batch is being fired: *)
(* one entry per id, none of a timer not made yet, and one of each active one. *)
LEMMA DrainedFacts ==
    ASSUME TypeOK, TimerInv, due = {}, cur = NoEntry, NEW t \in Nat
    PROVE  /\ \A e, f \in Drained(heap, t) : e.id = f.id => e = f
           /\ \A id \in timers : \E e \in Drained(heap, t) : e.id = id
           /\ \A e \in Drained(heap, t) : e.id \in Ids /\ e.id < nextId
<1> DEFINE fresh == {Entry(n.id, t, n.delay, n.repeat) : n \in newTimers}
           all == heap \cup fresh
<1>1. Drained(heap, t) = {e \in all : \E f \in all : f.id \in timers /\ Leq(f, e)}
  BY DEF Drained, PruneCleared
<1>2. \A e \in fresh : \E n \in newTimers : e = Entry(n.id, t, n.delay, n.repeat) /\ e.id = n.id
  BY DEF Entry
<1>3. \A n \in newTimers : \E e \in fresh : e.id = n.id
  <2> TAKE n \in newTimers
  <2>1. Entry(n.id, t, n.delay, n.repeat) \in fresh
    OBVIOUS
  <2>2. Entry(n.id, t, n.delay, n.repeat).id = n.id
    BY DEF Entry
  <2> QED
    BY <2>1, <2>2
<1>4. \A e \in all : e.deadline \in Nat /\ e.id \in Ids /\ e.id < nextId
  BY <1>2 DEF TypeOK, TimerInv, NewIds, HeapIds, Entry, Scheduled, Ids
<1>5. \A e, f \in all : e.id = f.id => e = f
  <2>1. \A e, f \in fresh : e.id = f.id => e = f
    BY <1>2 DEF TimerInv, ScheduledOnce
  <2>2. \A e \in heap, f \in fresh : e.id # f.id
    BY <1>2 DEF TimerInv, ScheduledOnce, NewIds, HeapIds
  <2> QED
    BY <2>1, <2>2 DEF TimerInv, ScheduledOnce
<1>6. \A e \in all : e.id \in timers => e \in Drained(heap, t)
  BY <1>1, <1>4 DEF Leq, Ids
<1>7. \A id \in timers : \E e \in all : e.id = id
  <2> TAKE id \in timers
  <2>1. id # cur.id /\ DueIds = {}
    BY DEF TypeOK, NoEntry, Ids, DueIds
  <2>2. id \in NewIds \/ id \in HeapIds
    BY <2>1 DEF TimerInv, NoTimerLost
  <2>3. CASE id \in NewIds
    BY <2>3, <1>3 DEF NewIds
  <2>4. CASE id \in HeapIds
    BY <2>4 DEF HeapIds
  <2> QED
    BY <2>2, <2>3, <2>4
<1> QED
  BY <1>1, <1>4, <1>5, <1>6, <1>7

(* A step that ends with the drained schedule keeps the timer invariant. *)
LEMMA DrainKeepsTimerInv ==
    ASSUME TypeOK, TimerInv, due = {}, cur = NoEntry, NEW t \in Nat,
           DrainNewTimers(heap, t), UNCHANGED <<timers, due, cur, nextId>>,
           pc' # "callback"
    PROVE  TimerInv'
<1>1. heap' = Drained(heap, t) /\ newTimers' = {} /\ due' = {} /\ cur' = NoEntry
  BY DEF DrainNewTimers
<1>2. NoEntry.id = 0 /\ nextId \in 1 .. MaxTimers + 1
  BY DEF NoEntry, TypeOK
<1>3. NoTimerLost'
  BY <1>1, DrainedFacts DEF NoTimerLost, HeapIds
<1>4. ScheduledOnce'
  BY <1>1, <1>2, DrainedFacts DEF ScheduledOnce, NewIds, HeapIds, DueIds, Ids
<1>5. \A id \in (NewIds \cup HeapIds \cup DueIds \cup {cur.id})' : id < nextId'
  BY <1>1, <1>2, DrainedFacts, ConstantsAssumption DEF NewIds, HeapIds, DueIds
<1> QED
  BY <1>1, <1>3, <1>4, <1>5 DEF TimerInv

(* A step that leaves the timers alone and neither enters nor leaves phase 1    *)
(* keeps the timer invariant.                                                 *)
LEMMA IdleKeepsTimerInv ==
    ASSUME TimerInv, UNCHANGED timerVars,
           \/ pc' = pc
           \/ pc \notin {"fire", "callback"} /\ pc' \notin {"fire", "callback"}
    PROVE  TimerInv'
  BY DEF TimerInv, timerVars, NoTimerLost, ScheduledOnce, NewIds, HeapIds, DueIds

(* Guest code keeps the timer invariant, whatever it creates and clears. *)
LEMMA TimerGuest == TypeOK /\ TimerInv /\ Guest => TimerInv'
<1> SUFFICES ASSUME TypeOK, TimerInv, Guest PROVE TimerInv'
  OBVIOUS
<1>1. ASSUME NEW d \in Delays, NEW r \in BOOLEAN, SetTimer(d, r) PROVE TimerInv'
  <2> DEFINE n == [id |-> nextId, delay |-> d, repeat |-> r]
  <2>1. newTimers' = newTimers \cup {n} /\ n.id = nextId /\ nextId \in Nat
    BY <1>1, ConstantsAssumption DEF SetTimer, TypeOK
  <2>2. NewIds' = NewIds \cup {nextId} /\ HeapIds' = HeapIds /\ DueIds' = DueIds
    BY <1>1, <2>1 DEF SetTimer, NewIds, HeapIds, DueIds
  <2>3. nextId \notin NewIds \cup HeapIds \cup DueIds \cup {cur.id}
    BY <2>1 DEF TimerInv
  <2>4. NoTimerLost'
    BY <1>1, <2>2 DEF SetTimer, TimerInv, NoTimerLost
  <2>5. ScheduledOnce'
    BY <1>1, <2>1, <2>2, <2>3 DEF SetTimer, TimerInv, ScheduledOnce, NewIds
  <2>6. \A id \in (NewIds \cup HeapIds \cup DueIds \cup {cur.id})' : id < nextId'
    <3>1. \A id \in NewIds \cup HeapIds \cup DueIds \cup {cur.id} : id \in Nat
      BY DEF TypeOK, NewIds, HeapIds, DueIds, Scheduled, NoEntry, Ids
    <3> QED
      BY <1>1, <2>1, <2>2, <3>1 DEF SetTimer, TimerInv
  <2> QED
    BY <1>1, <2>3, <2>4, <2>5, <2>6 DEF SetTimer, TimerInv
<1>2. ASSUME NEW id \in timers, ClearTimer(id) PROVE TimerInv'
  BY <1>2 DEF ClearTimer, TimerInv, NoTimerLost, ScheduledOnce, NewIds, HeapIds, DueIds
<1>3. ASSUME NEW id \in timers, NEW b \in BOOLEAN, TimerRef(id, b) PROVE TimerInv'
  BY <1>3 DEF TimerRef, TimerInv, NoTimerLost, ScheduledOnce, NewIds, HeapIds, DueIds
<1>4. ASSUME NEW o \in Ops, NEW b \in BOOLEAN, OpDispatch(o, b) PROVE TimerInv'
  BY <1>4, IdleKeepsTimerInv DEF OpDispatch
<1>5. ASSUME NEW i \in Imports, Import(i) \/ FinishEvaluation(i) PROVE TimerInv'
  BY <1>5, IdleKeepsTimerInv DEF Import, FinishEvaluation
<1>6. ASSUME NEW r, QueueMicrotask \/ FinishEntry(r) \/ WasmStart PROVE TimerInv'
  BY <1>6, IdleKeepsTimerInv DEF QueueMicrotask, FinishEntry, WasmStart
<1>7. ASSUME NEW d \in {-1, 1}, RefHandle(d) PROVE TimerInv'
  BY <1>7, IdleKeepsTimerInv DEF RefHandle
<1> QED
  BY <1>1, <1>2, <1>3, <1>4, <1>5, <1>6, <1>7 DEF Guest

(* The other threads and the clock do not touch timers. *)
LEMMA TimerThreads == TimerInv /\ (Threads \/ Advance) => TimerInv'
  BY IdleKeepsTimerInv DEF Threads, Advance, OpReady, WasmFinish, Terminate

(* The steps of tick and of the driver keep the timer invariant. *)
LEMMA TimerLoop == TypeOK /\ TimerInv /\ Loop => TimerInv'
<1> SUFFICES ASSUME TypeOK, TimerInv, Loop PROVE TimerInv'
  OBVIOUS
<1>t. now \in Nat /\ clock \in Nat
  BY DEF TypeOK
<1>1. CASE EntryReturns \/ MicrotasksDone \/ BatchDone
  <2>1. due = {} /\ cur = NoEntry
    BY <1>1 DEF EntryReturns, MicrotasksDone, BatchDone, TimerInv
  <2> QED
    BY <1>1, <1>t, <2>1, DrainKeepsTimerInv DEF EntryReturns, MicrotasksDone, BatchDone
<1>2. CASE TimersDone
  <2>1. due = {} /\ cur = NoEntry
    BY <1>2 DEF TimersDone, TimerInv
  <2> QED
    BY <1>2, <1>t, <2>1, DrainKeepsTimerInv DEF TimersDone
<1>3. CASE TickBegin
  <2> DEFINE h == Drained(heap, clock)
  <2>1. due = {} /\ cur = NoEntry
    BY <1>3 DEF TickBegin, TimerInv
  <2>2. /\ due' \subseteq h /\ heap' = h \ due' /\ newTimers' = {}
        /\ cur' = NoEntry /\ timers' = timers /\ nextId' = nextId /\ pc' = "fire"
    BY <1>3, <2>1 DEF TickBegin, TakeDue
  <2>3. NoEntry.id = 0 /\ nextId \in 1 .. MaxTimers + 1
    BY DEF NoEntry, TypeOK
  <2>4. /\ \A e, f \in h : e.id = f.id => e = f
        /\ \A id \in timers : \E e \in h : e.id = id
        /\ \A e \in h : e.id \in Ids /\ e.id < nextId
    BY <1>t, <2>1, DrainedFacts
  <2> HIDE DEF h
  <2>5. NoTimerLost'
    BY <2>2, <2>4 DEF NoTimerLost, HeapIds, DueIds
  <2>6. ScheduledOnce'
    BY <2>2, <2>3, <2>4 DEF ScheduledOnce, NewIds, HeapIds, DueIds, Ids
  <2>7. \A id \in (NewIds \cup HeapIds \cup DueIds \cup {cur.id})' : id < nextId'
    BY <2>2, <2>3, <2>4, ConstantsAssumption DEF NewIds, HeapIds, DueIds
  <2> QED
    BY <2>2, <2>5, <2>6, <2>7 DEF TimerInv
<1>4. CASE FireTimer
  <2>1. PICK e \in due : /\ due' = due \ {e}
                         /\ IF e.id \in timers
                            THEN /\ pc' = "callback" /\ cur' = e
                                 /\ timers' = IF e.repeat THEN timers ELSE timers \ {e.id}
                            ELSE UNCHANGED <<pc, cur, timers>>
    BY <1>4 DEF FireTimer
  <2>2. /\ cur = NoEntry /\ pc = "fire" /\ e \in Scheduled(Ids)
        /\ UNCHANGED <<newTimers, heap, nextId>>
    BY <1>4 DEF FireTimer, TimerInv, TypeOK
  <2>3. /\ NewIds' = NewIds /\ HeapIds' = HeapIds /\ DueIds' = DueIds \ {e.id}
        /\ e.id \in DueIds /\ NoEntry.id = 0 /\ e.id \in Ids
    BY <2>1, <2>2 DEF NewIds, HeapIds, DueIds, TimerInv, ScheduledOnce, NoEntry, Scheduled
  <2>4. NoTimerLost'
    <3>1. \A id \in timers : id \in NewIds \cup HeapIds \cup DueIds
      BY <2>2, <2>3 DEF TimerInv, NoTimerLost, TypeOK, Ids
    <3>2. CASE e.id \in timers
      BY <2>1, <2>3, <3>1, <3>2 DEF NoTimerLost
    <3>3. CASE e.id \notin timers
      BY <2>1, <2>3, <3>1, <3>3 DEF NoTimerLost
    <3> QED
      BY <3>2, <3>3
  <2>5. ScheduledOnce'
    BY <2>1, <2>2, <2>3 DEF TimerInv, ScheduledOnce, HeapIds, DueIds
  <2>6. \A id \in (NewIds \cup HeapIds \cup DueIds \cup {cur.id})' : id < nextId'
    BY <2>1, <2>2, <2>3 DEF TimerInv
  <2> QED
    BY <2>1, <2>2, <2>4, <2>5, <2>6 DEF TimerInv
<1>5. CASE CallbackReturns
  <2> DEFINE e == Entry(cur.id, now, cur.interval, TRUE)
  <2>1. /\ cur \in Scheduled(Ids) /\ cur' = NoEntry /\ pc' = "fire" /\ pc = "callback"
        /\ UNCHANGED <<timers, newTimers, due, nextId>>
    BY <1>5 DEF CallbackReturns, TimerInv
  <2>2. NoEntry.id = 0 /\ nextId \in 1 .. MaxTimers + 1 /\ e.id = cur.id
    BY DEF NoEntry, TypeOK, Entry
  <2>3. CASE cur.repeat /\ cur.id \in timers
    <3>1. heap' = heap \cup {e}
      BY <1>5, <2>3 DEF CallbackReturns
    <3>2. NewIds' = NewIds /\ DueIds' = DueIds /\ HeapIds' = HeapIds \cup {cur.id}
      BY <2>1, <2>2, <3>1 DEF NewIds, HeapIds, DueIds
    <3>3. NoTimerLost'
      BY <2>1, <3>2 DEF TimerInv, NoTimerLost
    <3>4. ScheduledOnce'
      <4>1. 0 \notin NewIds \cup HeapIds \cup DueIds \cup {cur.id}
        BY <2>1 DEF TypeOK, NewIds, HeapIds, DueIds, Scheduled, Ids
      <4>2. \A f \in heap \cup due : f.id # e.id
        BY <2>2 DEF TimerInv, ScheduledOnce, HeapIds, DueIds
      <4> HIDE DEF e
      <4>3. /\ \A f, g \in heap' \cup due' : f.id = g.id => f = g
            /\ heap' \cap due' = {}
        BY <2>1, <3>1, <4>2 DEF TimerInv, ScheduledOnce
      <4>4. /\ NewIds' \cap (HeapIds' \cup DueIds') = {}
            /\ cur'.id \notin NewIds' \cup HeapIds' \cup DueIds'
        BY <2>1, <2>2, <3>2, <4>1 DEF TimerInv, ScheduledOnce
      <4> QED
        BY <2>1, <4>3, <4>4 DEF TimerInv, ScheduledOnce
    <3>5. \A id \in (NewIds \cup HeapIds \cup DueIds \cup {cur.id})' : id < nextId'
      BY <2>1, <2>2, <3>2, ConstantsAssumption DEF TimerInv
    <3> QED
      BY <2>1, <3>3, <3>4, <3>5 DEF TimerInv
  <2>4. CASE ~(cur.repeat /\ cur.id \in timers)
    <3>1. heap' = heap /\ cur.id \notin timers
      BY <1>5, <2>1, <2>4 DEF CallbackReturns, TimerInv
    <3>2. NewIds' = NewIds /\ DueIds' = DueIds /\ HeapIds' = HeapIds
      BY <2>1, <3>1 DEF NewIds, HeapIds, DueIds
    <3>3. NoTimerLost'
      BY <2>1, <3>1, <3>2 DEF TimerInv, NoTimerLost
    <3>4. 0 \notin NewIds \cup HeapIds \cup DueIds
      BY DEF TypeOK, NewIds, HeapIds, DueIds, Scheduled, Ids
    <3>5. ScheduledOnce'
      BY <2>1, <2>2, <3>1, <3>2, <3>4 DEF TimerInv, ScheduledOnce
    <3>6. \A id \in (NewIds \cup HeapIds \cup DueIds \cup {cur.id})' : id < nextId'
      BY <2>1, <2>2, <3>2, ConstantsAssumption DEF TimerInv
    <3> QED
      BY <2>1, <3>3, <3>5, <3>6 DEF TimerInv
  <2> QED
    BY <2>3, <2>4
<1>6. CASE SettleReady \/ TickEnd \/ TickReturned \/ TakePendingDynamic
  BY <1>6, IdleKeepsTimerInv DEF SettleReady, TickEnd, TickReturned, TakePendingDynamic
<1>7. CASE RejectDynamic \/ LinkDynamic \/ LinkTerminated
  BY <1>7, IdleKeepsTimerInv DEF RejectDynamic, LinkDynamic, LinkTerminated
<1>8. ASSUME NEW b \in BOOLEAN, LinkReturns(b) PROVE TimerInv'
  BY <1>8, IdleKeepsTimerInv DEF LinkReturns
<1>9. CASE Quit \/ Retick \/ Park \/ Wake \/ SleepEnds
  BY <1>9, IdleKeepsTimerInv DEF Quit, Retick, Park, Wake, SleepEnds
<1> QED
  BY <1>1, <1>2, <1>3, <1>4, <1>5, <1>6, <1>7, <1>8, <1>9 DEF Loop

(* The timer invariant holds always. *)
LEMMA TimersHold == Spec => []TimerInv
<1>1. Init => TimerInv
  <2> SUFFICES ASSUME Init PROVE TimerInv
    OBVIOUS
  <2>1. NewIds = {} /\ HeapIds = {} /\ DueIds = {} /\ cur.id = 0 /\ nextId = 1
    BY DEF Init, NewIds, HeapIds, DueIds, NoEntry
  <2> QED
    BY <2>1 DEF Init, TimerInv, NoTimerLost, ScheduledOnce
<1>2. TypeOK /\ TimerInv /\ [Next]_vars => TimerInv'
  <2> SUFFICES ASSUME TypeOK, TimerInv, [Next]_vars PROVE TimerInv'
    OBVIOUS
  <2>1. CASE Guest
    BY <2>1, TimerGuest
  <2>2. CASE Threads \/ Advance
    BY <2>2, TimerThreads
  <2>3. CASE Loop
    BY <2>3, TimerLoop
  <2>4. CASE UNCHANGED vars
    BY <2>4, IdleKeepsTimerInv DEF vars
  <2> QED
    BY <2>1, <2>2, <2>3, <2>4 DEF Next, Stopped
<1> QED
  BY <1>1, <1>2, TypeCorrect, PTL DEF Spec

(* The schedule is faithful to the table of active timers: it never forgets    *)
(* one (NoTimerLost) and never holds one twice (ScheduledOnce), however timers  *)
(* are created, cleared, fired and re-armed around each other.                *)
THEOREM TimersAccounted == Spec => [](NoTimerLost /\ ScheduledOnce)
<1>1. TimerInv => NoTimerLost /\ ScheduledOnce
  BY DEF TimerInv
<1> QED
  BY <1>1, TimersHold, PTL

-----------------------------------------------------------------------------
(* The driver never parks on a ready op without a stored wake-up (NoLostWake),  *)
(* whatever the interleaving of providers' threads with the loop.             *)
THEOREM WakeNeverLost == Spec => []NoLostWake
<1>1. Init => WakeInv
  BY DEF Init, WakeInv, ReadyOps
<1>2. TypeOK /\ WakeInv /\ [Next]_vars => WakeInv'
  <2> SUFFICES ASSUME TypeOK, WakeInv, [Next]_vars PROVE WakeInv'
    OBVIOUS
  <2> USE DEF WakeInv, ReadyOps
  <2>1. ASSUME UNCHANGED <<op, notified>>,
               \/ pc' = pc
               \/ pc' \in {"top", "fire", "callback", "settle"}
               \/ pc \notin {"top", "fire", "callback", "settle"}
        PROVE  WakeInv'
    BY <2>1
  <2>2. CASE Guest
    <3>1. ASSUME NEW o \in Ops, NEW b \in BOOLEAN, OpDispatch(o, b) PROVE WakeInv'
      BY <3>1 DEF OpDispatch, TypeOK
    <3>2. ASSUME NEW d \in Delays, NEW r \in BOOLEAN, SetTimer(d, r) PROVE WakeInv'
      BY <3>2, <2>1 DEF SetTimer
    <3>3. ASSUME NEW id \in timers, NEW b \in BOOLEAN, ClearTimer(id) \/ TimerRef(id, b)
          PROVE  WakeInv'
      BY <3>3, <2>1 DEF ClearTimer, TimerRef
    <3>4. ASSUME NEW i \in Imports, Import(i) \/ FinishEvaluation(i) PROVE WakeInv'
      BY <3>4, <2>1 DEF Import, FinishEvaluation
    <3>5. ASSUME NEW r, QueueMicrotask \/ FinishEntry(r) \/ WasmStart PROVE WakeInv'
      BY <3>5, <2>1 DEF QueueMicrotask, FinishEntry, WasmStart
    <3>6. ASSUME NEW d \in {-1, 1}, RefHandle(d) PROVE WakeInv'
      BY <3>6, <2>1 DEF RefHandle
    <3> QED
      BY <2>2, <3>1, <3>2, <3>3, <3>4, <3>5, <3>6 DEF Guest
  <2>3. ASSUME NEW o \in Ops, OpReady(o) PROVE WakeInv'
    BY <2>3 DEF OpReady
  <2>4. CASE WasmFinish \/ Terminate \/ Advance
    BY <2>4, <2>1 DEF WasmFinish, Terminate, Advance
  <2>5. CASE Loop
    <3>1. CASE SettleReady
      BY <3>1 DEF SettleReady, TypeOK
    <3>2. CASE Wake
      BY <3>2 DEF Wake
    <3>3. CASE EntryReturns \/ TickBegin \/ FireTimer \/ CallbackReturns \/ TimersDone
      BY <3>3, <2>1 DEF EntryReturns, TickBegin, FireTimer, CallbackReturns, TimersDone
    <3>4. CASE MicrotasksDone \/ TickEnd \/ TickReturned \/ TakePendingDynamic \/ BatchDone
      BY <3>4, <2>1 DEF MicrotasksDone, TickEnd, TickReturned, TakePendingDynamic, BatchDone
    <3>5. CASE RejectDynamic \/ LinkDynamic \/ LinkTerminated
      BY <3>5, <2>1 DEF RejectDynamic, LinkDynamic, LinkTerminated
    <3>6. ASSUME NEW b \in BOOLEAN, LinkReturns(b) PROVE WakeInv'
      BY <3>6, <2>1 DEF LinkReturns
    <3>7. CASE Quit \/ Retick \/ Park \/ SleepEnds
      BY <3>7, <2>1 DEF Quit, Retick, Park, SleepEnds
    <3> QED
      BY <2>5, <3>1, <3>2, <3>3, <3>4, <3>5, <3>6, <3>7 DEF Loop
  <2>6. CASE UNCHANGED vars
    BY <2>6, <2>1 DEF vars
  <2> QED
    BY <2>2, <2>3, <2>4, <2>5, <2>6 DEF Next, Threads, Stopped
<1>3. WakeInv => NoLostWake
  BY DEF WakeInv, NoLostWake
<1> QED
  BY <1>1, <1>2, <1>3, TypeCorrect, PTL DEF Spec

-----------------------------------------------------------------------------
(* What drain_new_timers leaves behind: every entry of the schedule has an      *)
(* active one at or before it, since prune_cleared pops the front until it is    *)
(* active.                                                                    *)
LEMMA DrainedPruned ==
    ASSUME TypeOK, NEW t \in Nat
    PROVE  \A e \in Drained(heap, t) : \E f \in Drained(heap, t) : f.id \in timers /\ Leq(f, e)
<1> DEFINE all == heap \cup {Entry(n.id, t, n.delay, n.repeat) : n \in newTimers}
<1>1. Drained(heap, t) = {e \in all : \E f \in all : f.id \in timers /\ Leq(f, e)}
  BY DEF Drained, PruneCleared
<1>2. \A e \in all : e.deadline \in Nat /\ e.id \in Nat
  BY DEF TypeOK, Entry, Scheduled, Ids
<1> HIDE DEF all
<1>3. \A f \in all : Leq(f, f)
  BY <1>2 DEF Leq
<1> QED
  BY <1>1, <1>3

(* The front of a schedule that is drained is an active timer: the sleep until  *)
(* it neither passes an active one nor waits for a cleared one.               *)
LEMMA FrontIsActive ==
    ASSUME TypeOK, \A e \in heap : \E f \in heap : f.id \in timers /\ Leq(f, e),
           NEW d \in NextDeadline(heap)
    PROVE  /\ \A e \in heap : d <= e.deadline
           /\ \E e \in heap : e.id \in timers /\ d = e.deadline
<1>h. heap \in SUBSET Scheduled(Ids) /\ MaxTimers \in Nat
  BY ConstantsAssumption DEF TypeOK
<1>1. PICK e \in heap : d = e.deadline /\ \A f \in heap : Leq(e, f)
  BY DEF NextDeadline, IsFront
<1>2. \A f \in heap : f.deadline \in Nat /\ f.id \in Nat
  BY <1>h DEF Scheduled, Ids
<1>3. \A f \in heap : d <= f.deadline
  BY <1>1, <1>2 DEF Leq
<1>4. PICK f \in heap : f.id \in timers /\ Leq(f, e)
  BY <1>1
<1>5. f.deadline = d
  BY <1>1, <1>2, <1>3, <1>4 DEF Leq
<1> QED
  BY <1>3, <1>4, <1>5

(* A step that leaves the timers alone keeps the schedule drained, if it stays   *)
(* where the loop was, goes on among the phases after the checkpoint without     *)
(* parking, or leaves them.                                                    *)
LEMMA ParkFrame ==
    ASSUME ParkInv, UNCHANGED <<timers, newTimers, heap>>,
           \/ pc' = pc /\ wakeAt' = wakeAt
           \/ pc' \notin {"hooks", "driver", "imports", "decide", "parked"}
           \/ /\ pc \in {"hooks", "driver", "imports", "decide", "parked"}
              /\ pc' \in {"hooks", "driver", "imports", "decide"}
    PROVE  ParkInv'
  BY DEF ParkInv

(* A step that ends with drain_new_timers leaves the schedule drained. *)
LEMMA ParkDrain ==
    ASSUME TypeOK, ParkInv, NEW t \in Nat, DrainNewTimers(heap, t), timers' = timers,
           pc' # "parked"
    PROVE  ParkInv'
<1>1. heap' = Drained(heap, t) /\ newTimers' = {}
  BY DEF DrainNewTimers
<1> QED
  BY <1>1, DrainedPruned DEF ParkInv

(* Guest code keeps the schedule drained where it must be: it can set or clear  *)
(* a timer only before the checkpoint, or while a module is linked.            *)
LEMMA ParkGuest ==
    ASSUME "timer" \notin HookActs, ParkInv, Guest
    PROVE  ParkInv'
<1> USE DEF JSRuns
<1>1. ASSUME NEW d \in Delays, NEW r \in BOOLEAN, SetTimer(d, r) PROVE ParkInv'
  BY <1>1 DEF SetTimer, ParkInv
<1>2. ASSUME NEW id \in timers, ClearTimer(id) PROVE ParkInv'
  BY <1>2 DEF ClearTimer, ParkInv
<1>3. ASSUME NEW id \in timers, NEW b \in BOOLEAN, TimerRef(id, b) PROVE ParkInv'
  BY <1>3, ParkFrame DEF TimerRef, driverVars
<1>4. ASSUME NEW o \in Ops, NEW b \in BOOLEAN, OpDispatch(o, b) PROVE ParkInv'
  BY <1>4, ParkFrame DEF OpDispatch, timerVars, driverVars
<1>5. ASSUME NEW i \in Imports, Import(i) \/ FinishEvaluation(i) PROVE ParkInv'
  BY <1>5, ParkFrame DEF Import, FinishEvaluation, timerVars, driverVars
<1>6. ASSUME NEW r, QueueMicrotask \/ FinishEntry(r) \/ WasmStart PROVE ParkInv'
  BY <1>6, ParkFrame DEF QueueMicrotask, FinishEntry, WasmStart, timerVars, driverVars
<1>7. ASSUME NEW d \in {-1, 1}, RefHandle(d) PROVE ParkInv'
  BY <1>7, ParkFrame DEF RefHandle, timerVars, driverVars
<1> QED
  BY <1>1, <1>2, <1>3, <1>4, <1>5, <1>6, <1>7 DEF Guest

(* The steps of tick and of the driver keep the schedule drained after the      *)
(* checkpoint, and the driver parks until the front of it.                    *)
LEMMA ParkLoop == TypeOK /\ ParkInv /\ Loop => ParkInv'
<1> SUFFICES ASSUME TypeOK, ParkInv, Loop PROVE ParkInv'
  OBVIOUS
<1>t. now \in Nat
  BY DEF TypeOK
<1>1. CASE EntryReturns \/ TimersDone \/ MicrotasksDone \/ BatchDone
  BY <1>1, <1>t, ParkDrain DEF EntryReturns, TimersDone, MicrotasksDone, BatchDone
<1>2. CASE TickBegin \/ FireTimer \/ CallbackReturns
  BY <1>2 DEF TickBegin, FireTimer, CallbackReturns, ParkInv
<1>3. CASE SettleReady \/ TickEnd \/ TickReturned \/ TakePendingDynamic
  BY <1>3, ParkFrame
     DEF SettleReady, TickEnd, TickReturned, TakePendingDynamic, timerVars
<1>4. CASE RejectDynamic \/ LinkDynamic \/ LinkTerminated
  BY <1>4, ParkFrame DEF RejectDynamic, LinkDynamic, LinkTerminated, timerVars, driverVars
<1>5. ASSUME NEW b \in BOOLEAN, LinkReturns(b) PROVE ParkInv'
  BY <1>5, ParkFrame DEF LinkReturns, timerVars, driverVars
<1>6. CASE Quit \/ Retick \/ Wake \/ SleepEnds
  BY <1>6, ParkFrame DEF Quit, Retick, Wake, SleepEnds, timerVars, driverVars
<1>7. CASE Park
  <2>1. /\ pc = "decide" /\ pc' = "parked" /\ wakeAt' \in WakeTimes
        /\ UNCHANGED <<timers, newTimers, heap>>
    BY <1>7 DEF Park, timerVars
  <2>2. heap = {} \/ wakeAt' \in NextDeadline(heap)
    BY <2>1 DEF WakeTimes
  <2>3. NextDeadline(heap)' = NextDeadline(heap)
    BY <2>1 DEF NextDeadline, IsFront
  <2> QED
    BY <2>1, <2>2, <2>3 DEF ParkInv
<1> QED
  BY <1>1, <1>2, <1>3, <1>4, <1>5, <1>6, <1>7 DEF Loop

(* The driver parks until the next timer and for no other                       *)
(* (ParksUntilNextTimer), when no listener of phases 4 and 5 sets or clears a     *)
(* timer: tick drains new_timers after the checkpoint and process_dynamic_imports *)
(* after each batch, and nothing else comes before the park.                  *)
THEOREM ParksSound ==
    ASSUME "timer" \notin HookActs
    PROVE  Spec => []ParksUntilNextTimer
<1>1. Init => ParkInv
  BY DEF Init, ParkInv
<1>2. TypeOK /\ ParkInv /\ [Next]_vars => ParkInv'
  <2> SUFFICES ASSUME TypeOK, ParkInv, [Next]_vars PROVE ParkInv'
    OBVIOUS
  <2>1. CASE Guest
    BY <2>1, ParkGuest
  <2>2. CASE Threads \/ Advance
    BY <2>2, ParkFrame
       DEF Threads, Advance, OpReady, WasmFinish, Terminate, timerVars, driverVars
  <2>3. CASE Loop
    BY <2>3, ParkLoop
  <2>4. CASE UNCHANGED vars
    BY <2>4, ParkFrame DEF vars, timerVars, driverVars
  <2> QED
    BY <2>1, <2>2, <2>3, <2>4 DEF Next, Stopped
<1>3. TypeOK /\ ParkInv => ParksUntilNextTimer
  <2> SUFFICES ASSUME TypeOK, ParkInv, pc = "parked"
               PROVE  /\ newTimers = {}
                      /\ \A e \in heap : e.id \in timers => wakeAt <= e.deadline
                      /\ heap # {} => \E e \in heap : e.id \in timers /\ wakeAt = e.deadline
    BY DEF ParksUntilNextTimer
  <2>1. CASE heap = {}
    BY <2>1 DEF ParkInv
  <2>2. CASE heap # {}
    <3>1. /\ newTimers = {} /\ wakeAt \in NextDeadline(heap)
          /\ \A e \in heap : \E f \in heap : f.id \in timers /\ Leq(f, e)
      BY <2>2 DEF ParkInv
    <3> QED
      BY <3>1, FrontIsActive
  <2> QED
    BY <2>1, <2>2
<1> QED
  BY <1>1, <1>2, <1>3, TypeCorrect, PTL DEF Spec

-----------------------------------------------------------------------------
(* A step that touches neither the queue of reactions nor the imports, and      *)
(* stays where the loop was, keeps QuietInv.                                   *)
LEMMA QuietFrame ==
    ASSUME QuietInv, UNCHANGED <<micro, linked, batch, settling, rejecting>>, pc' = pc,
           pc # "exit"
    PROVE  QuietInv'
  BY DEF QuietInv, EndsQuiet

(* Guest code keeps QuietInv: a reaction is queued before the checkpoint, or by  *)
(* a module that is being linked.                                             *)
LEMMA QuietGuest ==
    ASSUME HookActs \cap {"op", "micro"} = {}, QuietInv, Guest
    PROVE  QuietInv'
<1>j. ASSUME NEW act, JSRuns(act) PROVE pc # "exit"
  BY <1>j DEF JSRuns
<1>1. ASSUME NEW d \in Delays, NEW r \in BOOLEAN, SetTimer(d, r) PROVE QuietInv'
  BY <1>1, <1>j, QuietFrame DEF SetTimer, importVars, guestVars, driverVars
<1>2. ASSUME NEW id \in timers, NEW b \in BOOLEAN, ClearTimer(id) \/ TimerRef(id, b)
      PROVE  QuietInv'
  BY <1>2, <1>j, QuietFrame DEF ClearTimer, TimerRef, importVars, guestVars, driverVars
<1>3. ASSUME NEW o \in Ops, NEW b \in BOOLEAN, OpDispatch(o, b) PROVE QuietInv'
  BY <1>3 DEF OpDispatch, JSRuns, importVars, driverVars, QuietInv, EndsQuiet
<1>4. ASSUME NEW i \in Imports, Import(i) \/ FinishEvaluation(i) PROVE QuietInv'
  BY <1>4, <1>j, QuietFrame DEF Import, FinishEvaluation, guestVars, driverVars
<1>5. CASE QueueMicrotask
  BY <1>5 DEF QueueMicrotask, JSRuns, importVars, driverVars, QuietInv, EndsQuiet
<1>6. ASSUME NEW r, FinishEntry(r) \/ WasmStart PROVE QuietInv'
  BY <1>6, <1>j, QuietFrame DEF FinishEntry, WasmStart, importVars, driverVars
<1>7. ASSUME NEW d \in {-1, 1}, RefHandle(d) PROVE QuietInv'
  BY <1>7, <1>j, QuietFrame DEF RefHandle, importVars, driverVars
<1> QED
  BY <1>1, <1>2, <1>3, <1>4, <1>5, <1>6, <1>7 DEF Guest

(* When the driver decides that no work is pending, nothing can still run: a    *)
(* reaction would be that of a module linked since the checkpoint, whose import  *)
(* is work that is pending.                                                    *)
LEMMA NoWorkIsQuiet ==
    ASSUME TypeOK, QuietInv, pc = "decide", ~HasPendingWork
    PROVE  /\ ~micro /\ ReadyOps \subseteq UnrefOps /\ wasm = "idle"
           /\ raised = <<>> /\ batch = <<>> /\ settling = {} /\ rejecting = {}
<1>1. raised = <<>>
  BY DEF TypeOK, HasPendingWork
<1>2. ReadyOps \subseteq UnrefOps
  BY DEF HasPendingWork, ReadyOps, PendingAsync
<1> QED
  BY <1>1, <1>2 DEF HasPendingWork, QuietInv

(* The steps of tick and of the driver keep QuietInv.                         *)
LEMMA QuietLoop == TypeOK /\ QuietInv /\ Loop => QuietInv'
<1> SUFFICES ASSUME TypeOK, QuietInv, Loop PROVE QuietInv'
  OBVIOUS
<1> USE DEF timerVars, importVars, guestVars, driverVars
<1>1. CASE EntryReturns \/ TickBegin \/ FireTimer \/ CallbackReturns \/ TimersDone
  BY <1>1 DEF EntryReturns, TickBegin, FireTimer, CallbackReturns, TimersDone, QuietInv,
              EndsQuiet
<1>2. CASE SettleReady \/ MicrotasksDone \/ TickEnd
  BY <1>2 DEF SettleReady, MicrotasksDone, TickEnd, QuietInv, EndsQuiet
<1>3. CASE TickReturned
  BY <1>3 DEF TickReturned, QuietInv, EndsQuiet
<1>4. CASE TakePendingDynamic
  BY <1>4 DEF TakePendingDynamic, QuietInv, EndsQuiet
<1>5. CASE RejectDynamic
  BY <1>5 DEF RejectDynamic, QuietInv, EndsQuiet
<1>6. CASE LinkDynamic \/ LinkTerminated
  BY <1>6 DEF LinkDynamic, LinkTerminated, QuietInv, EndsQuiet
<1>7. ASSUME NEW b \in BOOLEAN, LinkReturns(b) PROVE QuietInv'
  BY <1>7 DEF LinkReturns, QuietInv, EndsQuiet
<1>8. CASE BatchDone
  BY <1>8 DEF BatchDone, QuietInv, EndsQuiet
<1>9. CASE Quit
  <2>1. /\ pc = "decide" /\ pc' = "exit" /\ batch' = batch
        /\ UNCHANGED <<micro, op, wasm, raised, settling, rejecting, entry>>
        /\ ~(HasPendingWork /\ KeepGoing)
    BY <1>9 DEF Quit
  <2>2. batch = <<>>
    BY <2>1 DEF QuietInv
  <2>3. EndsQuiet'
    <3>1. CASE KeepGoing
      BY <2>1, <3>1, NoWorkIsQuiet DEF EndsQuiet, ReadyOps
    <3>2. CASE ~KeepGoing
      BY <2>1, <3>2 DEF EndsQuiet, KeepGoing
    <3> QED
      BY <3>1, <3>2
  <2> QED
    BY <2>1, <2>2, <2>3 DEF QuietInv
<1>10. CASE Retick \/ Park \/ Wake \/ SleepEnds
  BY <1>10 DEF Retick, Park, Wake, SleepEnds, QuietInv, EndsQuiet
<1> QED
  BY <1>1, <1>2, <1>3, <1>4, <1>5, <1>6, <1>7, <1>8, <1>9, <1>10 DEF Loop

(* A program that ends by itself leaves nothing that could still run            *)
(* (EndsQuiet), when no listener of phases 4 and 5 queues a reaction: what       *)
(* has_pending_work counts is enough for drive_while to stop on.              *)
THEOREM EndsQuietly ==
    ASSUME HookActs \cap {"op", "micro"} = {}
    PROVE  Spec => []EndsQuiet
<1>1. Init => QuietInv
  BY DEF Init, QuietInv, EndsQuiet
<1>2. TypeOK /\ QuietInv /\ [Next]_vars => QuietInv'
  <2> SUFFICES ASSUME TypeOK, QuietInv, [Next]_vars PROVE QuietInv'
    OBVIOUS
  <2>1. CASE Guest
    BY <2>1, QuietGuest
  <2>2. CASE Threads \/ Advance
    BY <2>2, QuietFrame
       DEF Threads, Advance, OpReady, WasmFinish, Terminate, timerVars, importVars, guestVars,
           driverVars
  <2>3. CASE Loop
    BY <2>3, QuietLoop
  <2>4. CASE UNCHANGED vars
    BY <2>4 DEF vars, importVars, guestVars, driverVars, QuietInv, EndsQuiet, KeepGoing,
                ReadyOps
  <2> QED
    BY <2>1, <2>2, <2>3, <2>4 DEF Next, Stopped
<1>3. QuietInv => EndsQuiet
  BY DEF QuietInv
<1> QED
  BY <1>1, <1>2, <1>3, TypeCorrect, PTL DEF Spec

-----------------------------------------------------------------------------
(* A step that leaves the schedule and the batch alone keeps the order of      *)
(* firing, and so does one that is over with the batch.                       *)
LEMMA OrderFrame ==
    ASSUME OrderInv, now' = now, clock' >= clock, clock \in Nat, clock' \in Nat, now \in Nat,
           \/ UNCHANGED <<heap, due>> /\ (pc' = pc \/ pc' \notin {"fire", "callback"})
           \/ pc' \notin {"fire", "callback"}
    PROVE  OrderInv'
  BY DEF OrderInv

(* The order of firing is kept: the batch is what was due when it was taken, and  *)
(* what a callback puts back into the schedule is due now at the earliest.       *)
LEMMA OrderStep == TypeOK /\ OrderInv /\ [Next]_vars => OrderInv'
<1> SUFFICES ASSUME TypeOK, OrderInv, [Next]_vars PROVE OrderInv'
  OBVIOUS
<1>t. now \in Nat /\ clock \in Nat
  BY DEF TypeOK
<1> USE DEF timerVars
<1>1. CASE Guest
  <2>1. ASSUME NEW d \in Delays, NEW r \in BOOLEAN, SetTimer(d, r) PROVE OrderInv'
    BY <2>1, <1>t, OrderFrame DEF SetTimer
  <2>2. ASSUME NEW id \in timers, ClearTimer(id) PROVE OrderInv'
    BY <2>2, <1>t, OrderFrame DEF ClearTimer
  <2>3. ASSUME NEW id \in timers, NEW b \in BOOLEAN, TimerRef(id, b) PROVE OrderInv'
    BY <2>3, <1>t, OrderFrame DEF TimerRef
  <2>4. ASSUME NEW o \in Ops, NEW b \in BOOLEAN, OpDispatch(o, b) PROVE OrderInv'
    BY <2>4, <1>t, OrderFrame DEF OpDispatch
  <2>5. ASSUME NEW i \in Imports, Import(i) \/ FinishEvaluation(i) PROVE OrderInv'
    BY <2>5, <1>t, OrderFrame DEF Import, FinishEvaluation
  <2>6. ASSUME NEW r, QueueMicrotask \/ FinishEntry(r) \/ WasmStart PROVE OrderInv'
    BY <2>6, <1>t, OrderFrame DEF QueueMicrotask, FinishEntry, WasmStart
  <2>7. ASSUME NEW d \in {-1, 1}, RefHandle(d) PROVE OrderInv'
    BY <2>7, <1>t, OrderFrame DEF RefHandle
  <2> QED
    BY <1>1, <2>1, <2>2, <2>3, <2>4, <2>5, <2>6, <2>7 DEF Guest
<1>2. CASE Threads
  <2>1. ASSUME NEW o \in Ops, OpReady(o) PROVE OrderInv'
    BY <2>1, <1>t, OrderFrame DEF OpReady
  <2>2. CASE WasmFinish \/ Terminate
    BY <2>2, <1>t, OrderFrame DEF WasmFinish, Terminate
  <2> QED
    BY <1>2, <2>1, <2>2 DEF Threads
<1>3. CASE Advance
  BY <1>3, <1>t, OrderFrame DEF Advance
<1>4. CASE TickBegin
  <2>1. /\ now' = clock /\ clock' = clock /\ pc' = "fire" /\ due' = TakeDue(Drained(heap, clock), clock)
        /\ heap' = Drained(heap, clock) \ due'
    BY <1>4 DEF TickBegin
  <2>2. Drained(heap, clock) \in SUBSET Scheduled(Ids)
    BY <1>t, DrainedType DEF TypeOK
  <2> QED
    BY <1>t, <2>1, <2>2 DEF OrderInv, TakeDue, Scheduled
<1>5. CASE FireTimer
  BY <1>5 DEF FireTimer, OrderInv
<1>6. CASE CallbackReturns
  <2>1. \A e \in heap' : now <= e.deadline
    <3>1. cur.repeat /\ cur.id \in timers => now <= Entry(cur.id, now, cur.interval, TRUE).deadline
      BY <1>t DEF TypeOK, Entry, Scheduled, NoEntry, Ids
    <3> QED
      BY <1>6, <3>1 DEF CallbackReturns, OrderInv
  <2> QED
    BY <1>6, <2>1 DEF CallbackReturns, OrderInv
<1>7. CASE EntryReturns \/ TimersDone \/ SettleReady \/ MicrotasksDone \/ TickEnd \/ BatchDone
  BY <1>7, <1>t, OrderFrame DEF EntryReturns, TimersDone, SettleReady, MicrotasksDone, TickEnd,
     BatchDone
<1>8. CASE TickReturned \/ TakePendingDynamic \/ RejectDynamic \/ LinkDynamic \/ LinkTerminated
  BY <1>8, <1>t, OrderFrame DEF TickReturned, TakePendingDynamic, RejectDynamic, LinkDynamic,
     LinkTerminated
<1>9. ASSUME NEW b \in BOOLEAN, LinkReturns(b) PROVE OrderInv'
  BY <1>9, <1>t, OrderFrame DEF LinkReturns
<1>10. CASE Quit \/ Retick \/ Park \/ Wake \/ SleepEnds
  BY <1>10, <1>t, OrderFrame DEF Quit, Retick, Park, Wake, SleepEnds
<1>11. CASE UNCHANGED vars
  BY <1>11, <1>t, OrderFrame DEF vars
<1> QED
  BY <1>1, <1>2, <1>3, <1>4, <1>5, <1>6, <1>7, <1>8, <1>9, <1>10, <1>11 DEF Next, Loop, Stopped

-----------------------------------------------------------------------------
(* What the guest sees of its timers: the variables of the contract.          *)
Seen == <<now, timers, nextId, Live(newTimers), Live(heap \cup due), DueIds \cap timers, Running>>

(* The helpers that the contract brings along are those of the loop. *)
LEMMA SameHelpers ==
    /\ \A e, f : Contract!Leq(e, f) <=> Leq(e, f)
    /\ \A id, t, d, r : Contract!Entry(id, t, d, r) = Entry(id, t, d, r)
  BY DEF Contract!Leq, Leq, Contract!Entry, Entry

(* The parts of the callback's entry as the guest sees it. *)
LEMMA RunningIs ==
    ASSUME TypeOK
    PROVE  /\ Running.id = cur.id /\ Running.deadline = cur.deadline
           /\ Running.interval = cur.interval
           /\ Running.repeat = (cur.repeat /\ cur.id \in timers)
           /\ Running = NoEntry <=> cur = NoEntry
<1>1. \/ cur \in [deadline: Nat, id: Ids, interval: Nat, repeat: BOOLEAN] /\ cur.id # 0
      \/ cur = NoEntry
  BY DEF TypeOK, Scheduled, Ids
<1>2. Running.id = cur.id /\ Running.deadline = cur.deadline /\ Running.interval = cur.interval
  BY <1>1 DEF Running, NoEntry
<1>3. Running.repeat = (cur.repeat /\ cur.id \in timers)
  BY <1>1 DEF Running, NoEntry
<1>4. cur = NoEntry => Running = NoEntry
  <2> SUFFICES ASSUME cur = NoEntry PROVE Running = NoEntry
    OBVIOUS
  <2>1. (cur.repeat /\ cur.id \in timers) = FALSE
    BY DEF NoEntry
  <2>2. Running = [cur EXCEPT !.repeat = FALSE]
    BY <2>1 DEF Running
  <2> QED
    BY <2>2 DEF NoEntry
<1>5. NoEntry.id = 0
  BY DEF NoEntry
<1> QED
  BY <1>1, <1>2, <1>3, <1>4, <1>5

(* What touches none of the timers is not seen. *)
LEMMA UnseenStep ==
    ASSUME UNCHANGED <<now, timers, newTimers, heap, due, cur, nextId>>
    PROVE  [Contract!Next]_Seen
  BY DEF Seen, Live, DueIds, Running

(* setTimeout and setInterval set a timer of the contract. *)
LEMMA SetSeen ==
    ASSUME TypeOK, TimerInv, NEW d \in Delays, NEW r \in BOOLEAN, SetTimer(d, r)
    PROVE  [Contract!Next]_Seen
<1> DEFINE n == [id |-> nextId, delay |-> d, repeat |-> r]
<1>1. /\ nextId' = nextId + 1 /\ timers' = timers \cup {nextId} /\ newTimers' = newTimers \cup {n}
      /\ UNCHANGED <<now, heap, due, cur>>
  BY DEF SetTimer
<1>2. \A id \in NewIds \cup HeapIds \cup DueIds \cup {cur.id} : id # nextId
  <2>1. \A id \in NewIds \cup HeapIds \cup DueIds \cup {cur.id} : id \in Nat
    BY DEF TypeOK, NewIds, HeapIds, DueIds, Scheduled, NoEntry, Ids
  <2>2. nextId \in Nat
    BY ConstantsAssumption DEF TypeOK
  <2> QED
    BY <2>1, <2>2 DEF TimerInv
<1>3. n.id = nextId
  OBVIOUS
<1>4. Live(newTimers)' = Live(newTimers) \cup {n}
  BY <1>1, <1>2, <1>3 DEF Live, NewIds
<1>5. Live(heap \cup due)' = Live(heap \cup due) /\ (DueIds \cap timers)' = DueIds \cap timers
  BY <1>1, <1>2 DEF Live, HeapIds, DueIds
<1>6. Running' = Running
  <2>1. cur.id \in timers' <=> cur.id \in timers
    BY <1>1, <1>2
  <2> QED
    BY <1>1, <2>1 DEF Running
<1>7. Contract!Set(d, r)
  BY <1>1, <1>4, <1>5, <1>6 DEF Contract!Set
<1> QED
  BY <1>7 DEF Contract!Next

(* clearTimeout and clearInterval end one, wherever it is scheduled. *)
LEMMA ClearSeen ==
    ASSUME TypeOK, TimerInv, NEW id \in timers, ClearTimer(id)
    PROVE  [Contract!Next]_Seen
<1>1. timers' = timers \ {id} /\ UNCHANGED <<now, newTimers, heap, due, cur, nextId>>
  BY DEF ClearTimer
<1>2. Live(newTimers)' = {n \in Live(newTimers) : n.id # id}
  BY <1>1 DEF Live
<1>3. Live(heap \cup due)' = {e \in Live(heap \cup due) : e.id # id}
  BY <1>1 DEF Live
<1>4. (DueIds \cap timers)' = (DueIds \cap timers) \ {id}
  BY <1>1 DEF DueIds
<1>5. Running' = IF Running.id = id THEN [Running EXCEPT !.repeat = FALSE] ELSE Running
  <2>1. CASE cur.id = id
    <3>1. Running' = [cur EXCEPT !.repeat = FALSE]
      <4>1. (cur.repeat /\ cur.id \in timers') = FALSE
        BY <1>1, <2>1
      <4> QED
        BY <1>1, <4>1 DEF Running
    <3>2. [Running EXCEPT !.repeat = FALSE] = [cur EXCEPT !.repeat = FALSE]
      BY DEF Running, TypeOK, Scheduled, NoEntry
    <3> QED
      BY <2>1, <3>1, <3>2, RunningIs
  <2>2. CASE cur.id # id
    <3>1. cur.id \in timers' <=> cur.id \in timers
      BY <1>1, <2>2
    <3>2. Running' = Running
      BY <1>1, <3>1 DEF Running
    <3> QED
      BY <2>2, <3>2, RunningIs
  <2> QED
    BY <2>1, <2>2
<1>6. Contract!Clear(id)
  BY <1>1, <1>2, <1>3, <1>4, <1>5 DEF Contract!Clear
<1> QED
  BY <1>6 DEF Contract!Next

(* What of the drained schedule is seen: what was, and what was asked for, with *)
(* its deadline.  What prune_cleared drops is not seen.                        *)
LEMMA DrainedLive ==
    ASSUME TypeOK, NEW t \in Nat
    PROVE  Live(Drained(heap, t)) =
               Live(heap) \cup {Entry(n.id, t, n.delay, n.repeat) : n \in Live(newTimers)}
<1> DEFINE fresh == {Entry(n.id, t, n.delay, n.repeat) : n \in newTimers}
           all == heap \cup fresh
<1>1. Drained(heap, t) = {e \in all : \E f \in all : f.id \in timers /\ Leq(f, e)}
  BY DEF Drained, PruneCleared
<1>2. \A e \in all : e.deadline \in Nat /\ e.id \in Nat
  BY DEF TypeOK, Entry, Scheduled, Ids
<1>3. Live(Drained(heap, t)) = Live(all)
  <2> HIDE DEF all
  <2>1. \A e \in all : Leq(e, e)
    BY <1>2 DEF Leq
  <2> QED
    BY <1>1, <2>1 DEF Live
<1>4. Live(fresh) = {Entry(n.id, t, n.delay, n.repeat) : n \in Live(newTimers)}
  <2>1. \A n : Entry(n.id, t, n.delay, n.repeat).id = n.id
    BY DEF Entry
  <2> QED
    BY <2>1 DEF Live
<1>5. Live(all) = Live(heap) \cup Live(fresh)
  BY DEF Live
<1> QED
  BY <1>3, <1>4, <1>5

(* What the contract takes up at t is what the drained schedule shows. *)
LEMMA TakenUpIs ==
    ASSUME TypeOK, due = {}, NEW t \in Nat
    PROVE  Contract!TakenUp(t) = Live(Drained(heap, t))
<1>1. heap \cup due = heap
  OBVIOUS
<1> QED
  BY <1>1, DrainedLive, SameHelpers DEF Contract!TakenUp

(* drain_new_timers anchors what was asked for. *)
LEMMA DrainSeen ==
    ASSUME TypeOK, due = {}, cur = NoEntry, DrainNewTimers(heap, now),
           UNCHANGED <<now, timers, due, cur, nextId>>
    PROVE  [Contract!Next]_Seen
<1>1. heap' = Drained(heap, now) /\ newTimers' = {} /\ heap' \cup due' = heap'
  BY DEF DrainNewTimers
<1>2. Live(heap \cup due)' = Contract!TakenUp(now)
  <2>1. Live(heap \cup due)' = Live(Drained(heap, now))
    BY <1>1 DEF Live
  <2> QED
    BY <2>1, TakenUpIs DEF TypeOK
<1>3. Live(newTimers)' = {}
  BY <1>1 DEF Live
<1>4. DueIds \cap timers = {} /\ (DueIds \cap timers)' = {}
  BY DEF DueIds
<1>5. Running = NoEntry /\ Running' = Running
  BY RunningIs DEF Running
<1>6. Contract!Anchor
  BY <1>2, <1>3, <1>4, <1>5 DEF Contract!Anchor
<1> QED
  BY <1>6 DEF Contract!Next

(* tick takes up what was asked for and begins a turn with what is due. *)
LEMMA TickSeen ==
    ASSUME TypeOK, TimerInv, OrderInv, TickBegin
    PROVE  [Contract!Next]_Seen
<1> DEFINE h == Drained(heap, clock)
<1>1. /\ due = {} /\ cur = NoEntry /\ clock \in Nat /\ now <= clock /\ now' = clock
      /\ due' = TakeDue(h, clock) /\ heap' = h \ due' /\ newTimers' = {}
      /\ UNCHANGED <<timers, cur, nextId>>
  BY DEF TickBegin, TimerInv, TypeOK, OrderInv
<1>2. due' = {e \in h : e.deadline <= clock} /\ heap' \cup due' = h
  BY <1>1 DEF TakeDue
<1>3. Live(heap \cup due)' = Live(h)
  BY <1>1, <1>2 DEF Live
<1>4. Contract!TakenUp(now') = Live(h)
  BY <1>1, TakenUpIs
<1>5. Live(newTimers)' = {} /\ DueIds \cap timers = {}
  BY <1>1 DEF Live, DueIds
<1>6. (DueIds \cap timers)' = {e.id : e \in {f \in Live(h) : f.deadline <= now'}}
  BY <1>1, <1>2 DEF DueIds, Live
<1>7. Running = NoEntry /\ Running' = Running
  BY <1>1, RunningIs DEF Running
<1> HIDE DEF h
<1>8. Contract!Turn
  BY <1>1, <1>3, <1>4, <1>5, <1>6, <1>7 DEF Contract!Turn
<1> QED
  BY <1>8 DEF Contract!Next

(* fire_timer: an active timer fires, as the first of those due, and a cleared   *)
(* one is dropped unseen.                                                     *)
LEMMA FireSeen ==
    ASSUME TypeOK, TimerInv, OrderInv, FireTimer
    PROVE  [Contract!Next]_Seen
<1>1. PICK e \in due : /\ IsFront(e, due) /\ due' = due \ {e}
                       /\ IF e.id \in timers
                          THEN /\ pc' = "callback" /\ cur' = e
                               /\ timers' = IF e.repeat THEN timers ELSE timers \ {e.id}
                          ELSE UNCHANGED <<pc, cur, timers>>
  BY DEF FireTimer
<1>2. pc = "fire" /\ cur = NoEntry /\ UNCHANGED <<now, newTimers, heap, nextId>>
  BY DEF FireTimer, TimerInv
<1>3. /\ \A f, g \in heap \cup due : f.id = g.id => f = g
      /\ e \notin heap /\ \A n \in newTimers : n.id # e.id
  BY DEF TimerInv, ScheduledOnce, NewIds, DueIds
<1>4. DueIds' = DueIds \ {e.id} /\ e.id \in DueIds
  BY <1>1, <1>3 DEF DueIds
<1>5. CASE e.id \notin timers
  <2>1. Live(newTimers)' = Live(newTimers) /\ Running' = Running
    BY <1>1, <1>2, <1>5 DEF Live, Running
  <2>2. Live(heap \cup due)' = Live(heap \cup due)
    BY <1>1, <1>2, <1>5 DEF Live
  <2>3. (DueIds \cap timers)' = DueIds \cap timers
    BY <1>1, <1>4, <1>5
  <2> QED
    BY <1>1, <1>2, <1>5, <2>1, <2>2, <2>3 DEF Seen
<1>6. CASE e.id \in timers
  <2>1. timers' = IF e.repeat THEN timers ELSE timers \ {e.id}
    BY <1>1, <1>6
  <2>2. Live(newTimers)' = Live(newTimers)
    BY <1>2, <1>3, <2>1 DEF Live
  <2>3. Live(heap \cup due)' = Live(heap \cup due) \ {e}
    BY <1>1, <1>2, <1>3, <2>1 DEF Live
  <2>4. (DueIds \cap timers)' = (DueIds \cap timers) \ {e.id}
    BY <1>4, <2>1
  <2>5. Running = NoEntry /\ Running' = e
    <3>1. e \in [deadline: Nat, id: Ids, interval: Nat, repeat: BOOLEAN]
      BY DEF TypeOK, Scheduled
    <3>2. (e.repeat /\ e.id \in timers') = e.repeat
      BY <1>6, <2>1, <3>1
    <3>3. Running' = [e EXCEPT !.repeat = e.repeat]
      BY <1>1, <1>6, <3>2 DEF Running
    <3> QED
      BY <1>2, <3>1, <3>3, RunningIs
  <2>6. e.deadline <= now /\ \A f \in Live(heap \cup due) : e.deadline <= f.deadline
    <3>1. \A f \in heap \cup due : f.deadline \in Nat
      BY DEF TypeOK, Scheduled
    <3>2. e.deadline <= now /\ now \in Nat /\ \A f \in heap : now <= f.deadline
      BY <1>2 DEF OrderInv, TypeOK
    <3>3. \A f \in due : e.deadline <= f.deadline
      BY <1>1, <3>1 DEF IsFront, Leq
    <3> QED
      BY <3>1, <3>2, <3>3 DEF Live
  <2>7. \A f \in Live(heap \cup due) : f.id \in DueIds \cap timers => Contract!Leq(e, f)
    <3>1. \A f \in heap \cup due : f.id \in DueIds => f \in due
      BY <1>3 DEF DueIds
    <3> QED
      BY <1>1, <3>1, SameHelpers DEF IsFront, Live
  <2>8. e \in Live(heap \cup due) /\ e.id \in DueIds \cap timers
    BY <1>4, <1>6 DEF Live
  <2>9. Contract!Fire(e)
    BY <1>2, <2>1, <2>2, <2>3, <2>4, <2>5, <2>6, <2>7, <2>8 DEF Contract!Fire
  <2> QED
    BY <2>8, <2>9 DEF Contract!Next
<1> QED
  BY <1>5, <1>6

(* The callback returns: an interval comes back unless it was cleared. *)
LEMMA ReturnSeen ==
    ASSUME TypeOK, TimerInv, CallbackReturns
    PROVE  [Contract!Next]_Seen
<1> DEFINE again == Entry(cur.id, now, cur.interval, TRUE)
           back == {Contract!Entry(e.id, now, e.interval, TRUE) : e \in {r \in {Running} : r.repeat}}
<1>1. /\ cur \in Scheduled(Ids) /\ cur' = NoEntry /\ UNCHANGED <<now, timers, newTimers, due, nextId>>
      /\ heap' = IF cur.repeat /\ cur.id \in timers THEN heap \cup {again} ELSE heap
  BY DEF CallbackReturns, TimerInv
<1>2. Running # NoEntry /\ Running' = NoEntry
  <2>1. cur # NoEntry
    BY <1>1 DEF Scheduled, NoEntry, Ids
  <2>2. (NoEntry.repeat /\ NoEntry.id \in timers) = FALSE
    BY DEF NoEntry
  <2>3. Running' = [NoEntry EXCEPT !.repeat = FALSE]
    BY <1>1, <2>2 DEF Running
  <2> QED
    BY <2>1, <2>3, RunningIs DEF NoEntry
<1>3. Live(newTimers)' = Live(newTimers) /\ (DueIds \cap timers)' = DueIds \cap timers
  BY <1>1 DEF Live, DueIds
<1>4. Live(heap \cup due)' = Live(heap \cup due) \cup back
  <2>1. CASE cur.repeat /\ cur.id \in timers
    <3>1. back = {again}
      BY <2>1, RunningIs, SameHelpers
    <3>2. again.id = cur.id /\ heap' \cup due' = (heap \cup due) \cup {again}
      BY <1>1, <2>1 DEF Entry
    <3> HIDE DEF again, back
    <3> QED
      BY <1>1, <2>1, <3>1, <3>2 DEF Live
  <2>2. CASE ~(cur.repeat /\ cur.id \in timers)
    <3>1. back = {}
      BY <2>2, RunningIs
    <3> HIDE DEF back
    <3> QED
      BY <1>1, <2>2, <3>1 DEF Live
  <2> QED
    BY <2>1, <2>2
<1>5. Contract!Return
  BY <1>1, <1>2, <1>3, <1>4 DEF Contract!Return
<1> QED
  BY <1>5 DEF Contract!Next

(* Every step of the loop, of the guest and of the threads beside them is a step  *)
(* of the contract or is not seen.                                            *)
LEMMA StepSeen == TypeOK /\ TimerInv /\ OrderInv /\ [Next]_vars => [Contract!Next]_Seen
<1> SUFFICES ASSUME TypeOK, TimerInv, OrderInv, [Next]_vars PROVE [Contract!Next]_Seen
  OBVIOUS
<1>1. CASE Guest
  <2> USE DEF timerVars
  <2>1. ASSUME NEW id \in timers, NEW b \in BOOLEAN, TimerRef(id, b) PROVE [Contract!Next]_Seen
    BY <2>1, UnseenStep DEF TimerRef
  <2>2. ASSUME NEW o \in Ops, NEW b \in BOOLEAN, OpDispatch(o, b) PROVE [Contract!Next]_Seen
    BY <2>2, UnseenStep DEF OpDispatch
  <2>3. ASSUME NEW i \in Imports, Import(i) \/ FinishEvaluation(i) PROVE [Contract!Next]_Seen
    BY <2>3, UnseenStep DEF Import, FinishEvaluation
  <2>4. ASSUME NEW r, QueueMicrotask \/ FinishEntry(r) \/ WasmStart PROVE [Contract!Next]_Seen
    BY <2>4, UnseenStep DEF QueueMicrotask, FinishEntry, WasmStart
  <2>5. ASSUME NEW d \in {-1, 1}, RefHandle(d) PROVE [Contract!Next]_Seen
    BY <2>5, UnseenStep DEF RefHandle
  <2> QED
    BY <1>1, <2>1, <2>2, <2>3, <2>4, <2>5, SetSeen, ClearSeen DEF Guest
<1>2. CASE Threads \/ Advance
  BY <1>2, UnseenStep DEF Threads, Advance, OpReady, WasmFinish, Terminate, timerVars
<1>3. CASE EntryReturns \/ TimersDone \/ MicrotasksDone \/ BatchDone
  <2>1. due = {} /\ cur = NoEntry
    BY <1>3 DEF EntryReturns, TimersDone, MicrotasksDone, BatchDone, TimerInv
  <2> QED
    BY <1>3, <2>1, DrainSeen DEF EntryReturns, TimersDone, MicrotasksDone, BatchDone
<1>4. CASE TickBegin \/ FireTimer \/ CallbackReturns
  BY <1>4, TickSeen, FireSeen, ReturnSeen
<1>5. CASE SettleReady \/ TickEnd \/ TickReturned \/ TakePendingDynamic
  BY <1>5, UnseenStep DEF SettleReady, TickEnd, TickReturned, TakePendingDynamic, timerVars
<1>6. CASE RejectDynamic \/ LinkDynamic \/ LinkTerminated
  BY <1>6, UnseenStep DEF RejectDynamic, LinkDynamic, LinkTerminated, timerVars
<1>7. ASSUME NEW b \in BOOLEAN, LinkReturns(b) PROVE [Contract!Next]_Seen
  BY <1>7, UnseenStep DEF LinkReturns, timerVars
<1>8. CASE Quit \/ Retick \/ Park \/ Wake \/ SleepEnds
  BY <1>8, UnseenStep DEF Quit, Retick, Park, Wake, SleepEnds, timerVars
<1>9. CASE UNCHANGED vars
  BY <1>9, UnseenStep DEF vars, timerVars
<1> QED
  BY <1>1, <1>2, <1>3, <1>4, <1>5, <1>6, <1>7, <1>8, <1>9 DEF Next, Loop, Stopped

(* The loop implements the contract of timers (TimersKept): what the schedule     *)
(* keeps of cleared timers is never seen, and what runs is always the active     *)
(* timer that is due first.                                                   *)
THEOREM TimersRefined == Spec => TimersKept
<1>1. Init => Contract!Init
  <2> SUFFICES ASSUME Init PROVE Contract!Init
    OBVIOUS
  <2>1. Live(newTimers) = {} /\ Live(heap \cup due) = {} /\ DueIds \cap timers = {}
    BY DEF Init, Live, DueIds
  <2>2. Running = NoEntry
    <3>1. (cur.repeat /\ cur.id \in timers) = FALSE /\ cur = NoEntry
      BY DEF Init, NoEntry
    <3>2. Running = [cur EXCEPT !.repeat = FALSE]
      BY <3>1 DEF Running
    <3> QED
      BY <3>1, <3>2 DEF NoEntry
  <2> QED
    BY <2>1, <2>2 DEF Init, Contract!Init
<1>2. Init => OrderInv
  BY DEF Init, OrderInv
<1>3. TypeOK /\ TimerInv /\ OrderInv /\ [Next]_vars => [Contract!Next]_(Contract!vars)
  BY StepSeen DEF Seen, Contract!vars
<1> QED
  BY <1>1, <1>2, <1>3, OrderStep, TypeCorrect, TimersHold, PTL DEF Spec, TimersKept, Contract!Spec
=============================================================================
