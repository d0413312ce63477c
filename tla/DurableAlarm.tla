---------------------------- MODULE DurableAlarm ----------------------------
(***************************************************************************)
(* The alarm of a durable worker (crates/runtime/src/runtime_modules/        *)
(* workers.js): its time is kept in the worker's own file, in memory while    *)
(* the worker is live, and in the catalog, the index by which the scheduler   *)
(* finds it.  No two of them change together, and the process may die between *)
(* any two writes.                                                          *)
(*                                                                          *)
(* One worker, run in this agent, and the scheduler.  Two things go on in it:  *)
(* it is opened and its start() runs, and its mailbox runs one entry at a time, *)
(* a call, the scheduler's turn, or stop() at the end.  The mailbox is reached   *)
(* while start() is still awaited.  The code awaits each alarm operation.      *)
(***************************************************************************)
EXTENDS Integers, Sequences

CONSTANTS
    Times,      \* the times the worker's code sets its alarm to
    Retries,    \* config.alarmRetries
    MaxNow,         \* bound: the clock
    MaxAlarmFaults  \* bound: failures

ASSUME AlarmAssumption ==
    /\ Times \subseteq Nat /\ Retries \in Nat /\ MaxNow \in Nat /\ MaxAlarmFaults \in Nat

VARIABLES
    now,      \* Date.now()
    file,     \* _meta 'alarm' in the worker's file, or Never
    counted,  \* _meta 'alarm_attempt'
    idx,      \* next_alarm in the catalog, or Never
    loaded,   \* whether the worker's file is open
    mem,      \* State.#alarm
    touched,  \* State.#alarmTouched
    attempt,  \* State.#attempt
    boot,     \* how far materialize is
    starts,   \* the writes materialize or start() has begun and awaits, in order
    turn,     \* the entry of the mailbox, see Turns
    todo,     \* the writes it has begun and awaits, in order
    due,      \* the scheduler's sweep has found the worker
    orphan,   \* the worker whose start() has thrown, if somebody still has hold of it
    alarmFaults,  \* what has failed: writes, starts, the process
    broken,   \* whether a write of an alarm turn has failed
    crossed   \* history: whether start() has got in the way of an entry, see Crossing

disks == <<file, counted, idx>>
state == <<mem, touched, attempt>>
entry == <<turn, todo>>
opener == <<boot, starts>>
alarmVars ==
    <<now, disks, loaded, state, opener, entry, due, orphan, alarmFaults, broken, crossed>>

(* The worker's code runs in a call, stop and the handler, alarm(), and in start. *)
Coding == {"call", "stop", "handler"}

(* counting, settle: the handler has returned; retry, reset: it threw; giveup,   *)
(* gone: for the last time.                                                   *)
Closings == {"counting", "settle", "retry", "reset", "giveup", "gone"}

(* correct: the index is corrected. *)
Turns == Coding \cup Closings \cup {"idle", "correct"}

(* The scheduler's turn. *)
AlarmTurns == Turns \ {"idle", "call", "stop"}

Never == -1
Instants == Nat \cup {Never}

(* A write: to the index, only ever earlier or exact; to the file; to the count. *)
Writes == [to : {"early", "index", "file"}, at : Instants] \cup [to : {"count"}, at : 0..Retries]
Put(to, at) == [to |-> to, at |-> at]

(* The sweep's turn is on a worker that is no longer there. *)
Away == \E o \in orphan : o.sweep

(* The types; only a live worker does anything, an alarm turn is one the           *)
(* scheduler's sweep asked for, and the sweep has one turn at a time.            *)
AlarmTypeOK ==
    /\ now \in 0..MaxNow /\ alarmFaults \in 0..MaxAlarmFaults
    /\ broken \in BOOLEAN /\ crossed \in BOOLEAN
    /\ file \in Instants /\ counted \in 0..Retries /\ idx \in Instants
    /\ loaded \in BOOLEAN /\ mem \in Instants /\ touched \in BOOLEAN /\ attempt \in 0..Retries
    /\ boot \in {"none", "opening", "start"} /\ starts \in Seq(Writes)
    /\ turn \in Turns /\ todo \in Seq(Writes) /\ due \in BOOLEAN
    /\ orphan \subseteq [exact : SUBSET Instants, sweep : BOOLEAN]
    /\ boot # "none" \/ turn # "idle" => loaded
    /\ boot = "none" => starts = <<>>
    /\ turn = "idle" => todo = <<>>
    /\ boot = "opening" => turn = "idle"
    /\ turn = "stop" => boot = "none"
    /\ turn \in AlarmTurns => due
    /\ Away => due /\ turn \notin AlarmTurns

AlarmInit ==
    /\ now = 0 /\ file = Never /\ counted = 0 /\ idx = Never
    /\ loaded = FALSE /\ mem = Never /\ touched = FALSE /\ attempt = 0
    /\ boot = "none" /\ starts = <<>> /\ turn = "idle" /\ todo = <<>>
    /\ due = FALSE /\ orphan = {} /\ alarmFaults = 0 /\ broken = FALSE /\ crossed = FALSE

-----------------------------------------------------------------------------
(* Fault: the index is only written once the file has been. *)
SetAlarmLate(at) ==
    IF at = Never THEN <<Put("file", Never), Put("index", Never)>>
    ELSE <<Put("file", at), Put("index", at)>>

(* #setAlarm: the index is written before the file and again after. *)
SetAlarm(at) ==
    IF at = Never THEN <<Put("file", Never), Put("index", Never)>>
    ELSE <<Put("early", at), Put("file", at), Put("index", at)>>

(* indexAlarm with early: MIN of what is there and the new time. *)
Earlier(at) == IF idx = Never \/ at < idx THEN at ELSE idx

(* A write commits.  The file and State.#alarm change together: who reads the     *)
(* alarm between the two acts as if he had read it just before the commit.      *)
Commit(w) ==
    /\ idx' = CASE w.to = "early" -> Earlier(w.at) [] w.to = "index" -> w.at [] OTHER -> idx
    /\ IF w.to = "file" THEN file' = w.at /\ mem' = w.at ELSE UNCHANGED <<file, mem>>
    /\ counted' = IF w.to = "count" THEN w.at ELSE counted

WriteDone ==
    /\ todo # <<>> /\ Commit(Head(todo)) /\ todo' = Tail(todo)
    /\ UNCHANGED <<now, loaded, touched, attempt, opener, turn, due, orphan, alarmFaults, broken>>

StartWrites ==
    /\ starts # <<>> /\ Commit(Head(starts)) /\ starts' = Tail(starts)
    /\ UNCHANGED <<now, loaded, touched, attempt, boot, entry, due, orphan, alarmFaults, broken>>

(* state.alarm.set and state.alarm.delete, awaited, in an entry and in start(). *)
Operate(at) ==
    /\ turn \in Coding /\ todo = <<>>
    /\ todo' = SetAlarm(at) /\ touched' = TRUE
    /\ UNCHANGED <<now, disks, loaded, mem, attempt, opener, turn, due, orphan,
                   alarmFaults, broken>>

StartOperates(at) ==
    /\ boot = "start" /\ starts = <<>>
    /\ starts' = SetAlarm(at) /\ touched' = TRUE
    /\ UNCHANGED <<now, disks, loaded, mem, attempt, boot, entry, due, orphan, alarmFaults,
                   broken>>

-----------------------------------------------------------------------------
(* The worker and its State are let go. *)
Gone == loaded' = FALSE /\ mem' = Never /\ touched' = FALSE /\ attempt' = 0

(* materialize: what the file holds is read, and the index made to agree. *)
OpenWorker ==
    /\ ~loaded /\ loaded' = TRUE /\ boot' = "opening" /\ starts' = <<Put("index", file)>>
    /\ mem' = file /\ touched' = FALSE /\ attempt' = counted
    /\ UNCHANGED <<now, disks, entry, due, orphan, alarmFaults, broken>>

(* The worker is put where materialize finds it, and its start() is called. *)
Opened ==
    /\ boot = "opening" /\ starts = <<>> /\ boot' = "start"
    /\ UNCHANGED <<now, disks, loaded, state, starts, entry, due, orphan, alarmFaults, broken>>

StartEnds ==
    /\ boot = "start" /\ starts = <<>> /\ boot' = "none"
    /\ UNCHANGED <<now, disks, loaded, state, starts, entry, due, orphan, alarmFaults, broken>>

(* materialize answers with a worker whose start() is still awaited. *)
Enterable == loaded /\ boot # "opening" /\ turn = "idle"

(* A call has its turn in the mailbox. *)
Call ==
    /\ Enterable /\ turn' = "call"
    /\ UNCHANGED <<now, disks, loaded, state, opener, todo, due, orphan, alarmFaults, broken>>

(* It returns, or throws. *)
CallReturns ==
    /\ turn = "call" /\ todo = <<>> /\ turn' = "idle"
    /\ UNCHANGED <<now, disks, loaded, state, opener, todo, due, orphan, alarmFaults, broken>>

(* An idle worker is evicted: stop() runs, then its file is closed.  A sweep     *)
(* that had got hold of it finds it closing and lets go.                       *)
Evict ==
    /\ loaded /\ boot = "none" /\ turn = "idle" /\ turn' = "stop" /\ (UNCHANGED due \/ due' = Away)
    /\ UNCHANGED <<now, disks, loaded, state, opener, todo, orphan, alarmFaults, broken>>

Evicted ==
    /\ turn = "stop" /\ todo = <<>> /\ turn' = "idle" /\ Gone
    /\ UNCHANGED <<now, disks, opener, todo, due, orphan, alarmFaults, broken>>

-----------------------------------------------------------------------------
(* Fault: a live worker is left to find its own alarm. *)
SweepClosed ==
    /\ ~loaded /\ ~due /\ idx # Never /\ idx <= now /\ due' = TRUE
    /\ UNCHANGED <<now, disks, loaded, state, opener, entry, orphan, alarmFaults, broken>>

(* fireDue: the sweep asks the index, and nothing else. *)
SweepDue ==
    /\ ~due /\ idx # Never /\ idx <= now /\ due' = TRUE
    /\ UNCHANGED <<now, disks, loaded, state, opener, entry, orphan, alarmFaults, broken>>

(* Its turn comes, in the mailbox. *)
Due == due /\ ~Away /\ Enterable

(* Fault: the alarm is taken off the disk before its handler runs. *)
TurnClears ==
    /\ Due /\ mem > 0 /\ mem <= now
    /\ turn' = "handler" /\ mem' = Never /\ touched' = FALSE
    /\ todo' = SetAlarm(Never)
    /\ UNCHANGED <<now, disks, loaded, attempt, opener, due, orphan, alarmFaults, broken>>

(* run: suspendAlarm, then the handler. *)
TurnRuns ==
    /\ Due /\ mem > 0 /\ mem <= now
    /\ turn' = "handler" /\ mem' = Never /\ touched' = FALSE
    /\ UNCHANGED <<now, disks, loaded, attempt, opener, todo, due, orphan, alarmFaults, broken>>

(* run: the index said due and memory disagrees. *)
TurnCorrects ==
    /\ Due /\ (mem = Never \/ mem > now)
    /\ turn' = "correct" /\ todo' = <<Put("index", mem)>>
    /\ UNCHANGED <<now, disks, loaded, state, opener, due, orphan, alarmFaults, broken>>

(* run: state.alarm.get() answers 0, not a Date, for the alarm at 0, and getTime  *)
(* throws; fire reports it.                                                    *)
TurnMisreads ==
    /\ Due /\ mem = 0 /\ due' = FALSE
    /\ UNCHANGED <<now, disks, loaded, state, opener, entry, orphan, alarmFaults, broken>>

HandlerReturns ==
    /\ turn = "handler" /\ todo = <<>> /\ turn' = "counting"
    /\ attempt' = 0 /\ todo' = IF attempt # 0 THEN <<Put("count", 0)>> ELSE <<>>
    /\ UNCHANGED <<now, disks, loaded, mem, touched, opener, due, orphan, alarmFaults, broken>>

(* The catch block of run: a retry is counted, or the alarm given up. *)
Caught ==
    IF attempt < Retries
    THEN turn' = "retry" /\ attempt' = attempt + 1 /\ todo' = <<Put("count", attempt + 1)>>
    ELSE turn' = "giveup" /\ attempt' = 0 /\ todo' = <<Put("count", 0)>>

HandlerThrows ==
    /\ turn = "handler" /\ todo = <<>> /\ Caught
    /\ UNCHANGED <<now, disks, loaded, mem, touched, opener, due, orphan, alarmFaults, broken>>

(* settle: the alarm is deleted, unless the handler has set or deleted it. *)
TurnSettles ==
    /\ turn \in {"counting", "giveup"} /\ todo = <<>>
    /\ turn' = (IF turn = "counting" THEN "settle" ELSE "gone")
    /\ touched' = TRUE /\ todo' = IF touched THEN <<>> ELSE SetAlarm(Never)
    /\ UNCHANGED <<now, disks, loaded, mem, attempt, opener, due, orphan, alarmFaults, broken>>

(* backoff: later than now, by an amount the properties do not tell apart. *)
Backoff == now + 1

(* Fault: the time the handler asked for is overwritten. *)
TurnRetriesAlways ==
    /\ turn = "retry" /\ todo = <<>>
    /\ turn' = "reset" /\ touched' = TRUE /\ todo' = SetAlarm(Backoff)
    /\ UNCHANGED <<now, disks, loaded, mem, attempt, opener, due, orphan, alarmFaults, broken>>

(* The retry is set, unless the handler has set the next alarm. *)
TurnRetries ==
    /\ turn = "retry" /\ todo = <<>> /\ turn' = "reset"
    /\ IF mem = Never THEN touched' = TRUE /\ todo' = SetAlarm(Backoff)
       ELSE UNCHANGED <<touched, todo>>
    /\ UNCHANGED <<now, disks, loaded, mem, attempt, opener, due, orphan, alarmFaults, broken>>

TurnEnds ==
    /\ turn \in {"correct", "settle", "reset", "gone"} /\ todo = <<>>
    /\ turn' = "idle" /\ due' = FALSE
    /\ UNCHANGED <<now, disks, loaded, state, opener, todo, orphan, alarmFaults, broken>>

-----------------------------------------------------------------------------
(* A write of the worker's code fails, and the code goes on. *)
WriteFails ==
    /\ turn \in Coding /\ todo # <<>> /\ todo' = <<>>
    /\ alarmFaults < MaxAlarmFaults /\ alarmFaults' = alarmFaults + 1
    /\ broken' = (broken \/ turn = "handler")
    /\ UNCHANGED <<now, disks, loaded, state, opener, turn, due, orphan>>

StartWriteFails ==
    /\ boot = "start" /\ starts # <<>> /\ starts' = <<>>
    /\ alarmFaults < MaxAlarmFaults /\ alarmFaults' = alarmFaults + 1
    /\ UNCHANGED <<now, disks, loaded, state, boot, entry, due, orphan, broken>>

(* materialize could not write the index: no worker is left, and a sweep that has *)
(* waited for it reports it.                                                  *)
CannotOpen ==
    /\ boot = "opening" /\ starts # <<>>
    /\ alarmFaults < MaxAlarmFaults /\ alarmFaults' = alarmFaults + 1
    /\ Gone /\ boot' = "none" /\ starts' = <<>> /\ (UNCHANGED due \/ due' = Away)
    /\ UNCHANGED <<now, disks, entry, orphan, broken>>

(* What may still be written to the index, as it is, for a worker whose file is   *)
(* closed: what the entry had begun to write, and the correction of a sweep that  *)
(* is still to have its turn there.                                            *)
Exact(sweep) ==
    (IF todo # <<>> /\ Head(todo).to = "index" THEN {Head(todo).at} ELSE {})
        \cup (IF sweep /\ turn \notin AlarmTurns THEN {mem} ELSE {})

(* start() throws: materialize closes the file and lets go of the worker, but an  *)
(* entry of its mailbox, or who was about to make one, goes on with it.          *)
StartThrows ==
    /\ boot = "start" /\ starts = <<>>
    /\ alarmFaults < MaxAlarmFaults /\ alarmFaults' = alarmFaults + 1
    /\ Gone /\ boot' = "none" /\ turn' = "idle" /\ todo' = <<>>
    /\ \/ turn = "idle" /\ (UNCHANGED due \/ due' = Away) /\ UNCHANGED orphan
       \/ \E sweep \in BOOLEAN :
             /\ turn \in AlarmTurns => sweep
             /\ sweep => due
             /\ orphan = {} /\ orphan' = {[exact |-> Exact(sweep), sweep |-> sweep]}
             /\ UNCHANGED due
    /\ UNCHANGED <<now, disks, starts, broken>>

(* The file cannot be written any more, the index can. *)
OrphanWrites ==
    \E o \in orphan :
        /\ idx' \in o.exact \cup {Earlier(t) : t \in Times \cup 1..Backoff}
        /\ UNCHANGED <<now, file, counted, loaded, state, opener, entry, due, orphan,
                       alarmFaults, broken>>

OrphanEnds ==
    /\ orphan # {} /\ orphan' = {} /\ due' = (due /\ ~Away)
    /\ UNCHANGED <<now, disks, loaded, state, opener, entry, alarmFaults, broken>>

(* A write of the scheduler's turn fails: the try block is left for the catch    *)
(* block, and from anywhere else fire reports it.                              *)
TurnFails ==
    /\ turn \notin Coding /\ todo # <<>>
    /\ alarmFaults < MaxAlarmFaults /\ alarmFaults' = alarmFaults + 1 /\ broken' = TRUE
    /\ IF turn \in {"counting", "settle"} THEN Caught /\ UNCHANGED due
       ELSE turn' = "idle" /\ todo' = <<>> /\ due' = FALSE /\ UNCHANGED attempt
    /\ UNCHANGED <<now, disks, loaded, mem, touched, opener, orphan>>

(* What is not on disk is lost. *)
Dies ==
    /\ alarmFaults < MaxAlarmFaults /\ alarmFaults' = alarmFaults + 1
    /\ Gone /\ boot' = "none" /\ starts' = <<>> /\ turn' = "idle" /\ todo' = <<>>
    /\ due' = FALSE /\ orphan' = {}
    /\ UNCHANGED <<now, disks, broken>>

Tick ==
    /\ now < MaxNow /\ now' = now + 1
    /\ UNCHANGED <<disks, loaded, state, opener, entry, due, orphan, alarmFaults, broken>>

-----------------------------------------------------------------------------
Returns == CallReturns \/ StartEnds \/ Evicted \/ HandlerReturns \/ HandlerThrows

Runtime ==
    \/ Opened \/ TurnCorrects \/ TurnMisreads \/ TurnSettles \/ TurnRetries \/ TurnEnds
    \/ (due /\ OpenWorker)

Failures ==
    \/ WriteFails \/ StartWriteFails \/ CannotOpen \/ StartThrows \/ TurnFails \/ Dies
    \/ OrphanWrites \/ OrphanEnds

Steps ==
    \/ Returns \/ Runtime \/ WriteDone \/ StartWrites \/ SweepDue \/ TurnRuns
    \/ Call \/ OpenWorker \/ Evict \/ Failures \/ Tick
    \/ \E at \in Times \cup {Never} : Operate(at) \/ StartOperates(at)

(* start() gets in the way of an entry: an alarm operation of start() is under     *)
(* way beside one of the entry or beside an alarm turn, or start() throws with    *)
(* the worker in somebody's hands.                                            *)
Crossing ==
    \/ boot = "start" /\ starts # <<>> /\ (todo # <<>> \/ turn \in AlarmTurns)
    \/ orphan # {}

Noted == crossed' = (crossed \/ Crossing')

AlarmNext == Steps /\ Noted

(* Code returns, writes end, the scheduler polls, and calls and evictions do not *)
(* get ahead of the alarm's turn for ever.                                     *)
AlarmFair ==
    /\ WF_alarmVars(Runtime /\ Noted) /\ WF_alarmVars(SweepDue /\ Noted)
    /\ WF_alarmVars(WriteDone /\ Noted) /\ WF_alarmVars(StartWrites /\ Noted)
    /\ SF_alarmVars(Returns /\ Noted) /\ SF_alarmVars(TurnRuns /\ Noted)

AlarmSpec == AlarmInit /\ [][AlarmNext]_alarmVars /\ AlarmFair

-----------------------------------------------------------------------------
(* The index leads to every alarm a file holds, at its time or before, so that   *)
(* the scheduler finds it.                                                    *)
Indexed == file # Never => idx # Never /\ idx <= file

(* Early, never late: whatever the process was doing when it died, the index is  *)
(* at most early, unless a write of an alarm turn has failed or start() and an    *)
(* entry of the mailbox have got in each other's way.                          *)
EarlyNeverLate == broken \/ crossed \/ Indexed

(* The same without the first exception, and without the second: what the code   *)
(* says of its two writes, of a turn that fails and of a start() that overlaps.  *)
LateOnlyByStart == crossed \/ Indexed
LateOnlyByTurn == broken \/ Indexed

(* At least once: until its handler has ended or has set the alarm itself, the  *)
(* alarm that is being run is still on disk and due, so that a crash runs it    *)
(* again.                                                                    *)
RunsAgain ==
    turn \in {"handler", "counting", "retry", "giveup"} /\ ~touched
        => crossed \/ (file # Never /\ file <= now /\ idx <= now)

(* A live worker knows its alarm and how often it has failed: outside a turn of  *)
(* the scheduler, what is in memory is what is in the file, so that run may       *)
(* trust it and a restart does not start the count over.                        *)
MemoryTrue ==
    loaded /\ turn \in {"idle", "call", "stop", "correct"}
        => broken \/ crossed \/ (mem = file /\ attempt = counted)

(* The time a handler asks for, by setting the alarm while it runs, is kept      *)
(* whether it returns, throws or is given up on.                              *)
AskedTimeKept ==
    [][mem # Never /\ turn \in Coding \cup Closings /\ turn' \in Closings
         => crossed' \/ (file' = file /\ mem' = mem)]_alarmVars

(* A due alarm runs, unless it is moved or unset first or is at time 0: again and   *)
(* again there is none that is due and does not run.                           *)
AlarmRuns == []<>(file \notin 1..now \/ turn = "handler" \/ broken \/ crossed)
=============================================================================
