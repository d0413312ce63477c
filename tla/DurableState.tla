---------------------------- MODULE DurableState ----------------------------
(***************************************************************************)
(* The output gate of a durable worker: class State and the mailbox of       *)
(* LiveWorker (crates/runtime/src/runtime_modules/workers.js).  Values live   *)
(* in memory and are written behind the call that changed them; a result is   *)
(* handed out when the flush that carries what the call saw has committed.    *)
(*                                                                          *)
(* A value is a version number, one more at every write of its key (a delete  *)
(* is a write).  An action is a piece of JavaScript that runs without a       *)
(* break, or a statement of the database.                                    *)
(***************************************************************************)
EXTENDS Integers

CONSTANTS
    Keys,        \* the keys the worker stores, none of them at first
    Calls,       \* the calls made to the worker
    MaxVersion,  \* bound: writes of one key
    MaxFlushes,  \* bound: flushes a call asks for without having written
    MaxFaults,   \* bound: statements that fail or find the database busy
    MayCrash,    \* BOOLEAN: the process may die and the worker be opened again
    Transactions \* BOOLEAN: methods use state.transaction

ASSUME DurableAssumption ==
    /\ MaxVersion \in Nat /\ MaxFlushes \in Nat /\ MaxFaults \in Nat
    /\ MayCrash \in BOOLEAN /\ Transactions \in BOOLEAN
    /\ "none" \notin Calls

VARIABLES
    values,   \* State.#values: the version of each key in memory
    disk,     \* the version of each key in the worker's file, 0 if none
    dirty,    \* State.#dirty
    flush,    \* State.#flushing: where the flush in flight is, see Flushes
    puts,     \* the versions it carries, 0 for a key it does not
    queued,   \* State.#queued: a flush waits behind it
    gen,      \* the flushes begun so far: number gen is the one in flight
    bad,      \* the flushes that failed
    tx,       \* the transaction: none, waiting for the chain, behind, or open
    txPuts,   \* what it has written, not committed
    undone,   \* keys whose version in memory is one a rollback took back
    running,  \* the call whose code runs, or "none"
    call,     \* the state of each call
    wait,     \* the flush its gate waits for
    seen,     \* what it could have read when it returned
    faults,   \* statements that failed so far
    raced     \* a transaction was called over writes not yet in the file

flushVars == <<flush, puts, queued, gen, bad>>
txVars == <<tx, txPuts, undone>>
callVars == <<running, call, wait, seen>>
vars == <<values, disk, dirty, flushVars, txVars, callVars, faults, raced>>

(* due: a microtask will start it; writing: its statement waits on the outer   *)
(* chain; inner: on the transaction's; asleep: backing off; done, failed: the   *)
(* statement has ended and #flush goes on; next: the queued one takes over.    *)
Flushes == {"none", "due", "writing", "inner", "asleep", "done", "failed", "next"}

Versions == [Keys -> 0..MaxVersion]
None == [k \in Keys |-> 0]
Carries(p) == {k \in Keys : p[k] # 0}
Over(d, p) == [k \in Keys |-> IF p[k] # 0 THEN p[k] ELSE d[k]]

(* The flushes that have ended, which is what resolves their promises. *)
Ended == IF flush \in {"none", "next"} THEN gen ELSE gen - 1

StoreType ==
    /\ values \in Versions /\ disk \in Versions /\ dirty \subseteq Keys
    /\ tx \in {"none", "waiting", "behind", "open"} /\ txPuts \in Versions
    /\ (tx # "open" => txPuts = None) /\ (tx # "none" => running # "none")
    /\ undone \subseteq Keys /\ faults \in 0..MaxFaults /\ raced \in BOOLEAN

FlushType ==
    /\ flush \in Flushes /\ puts \in Versions /\ queued \in BOOLEAN
    /\ gen \in Nat /\ bad \subseteq 1..Ended
    /\ flush \in {"none", "due", "next"} => puts = None
    /\ flush \notin {"none", "next"} => gen > 0
    /\ flush = "none" => ~queued
    /\ flush = "next" => queued

CallType ==
    /\ running \in Calls \cup {"none"}
    /\ call \in [Calls -> {"idle", "running", "waiting", "released", "rejected",
                           "threw", "lost"}]
    /\ \A c \in Calls : call[c] = "running" <=> running = c
    /\ wait \in [Calls -> Nat] /\ \A c \in Calls : wait[c] <= gen + 1
    /\ seen \in [Calls -> Versions]

(* The types; a flush carries keys only while its statement is pending or its   *)
(* outcome not yet seen to, a flush is queued only behind another, and an      *)
(* uncommitted write needs a transaction.                                     *)
TypeOK == StoreType /\ FlushType /\ CallType

Init ==
    /\ values = None /\ disk = None /\ dirty = {}
    /\ flush = "none" /\ puts = None /\ queued = FALSE /\ gen = 0 /\ bad = {}
    /\ tx = "none" /\ txPuts = None /\ undone = {}
    /\ running = "none" /\ call = [c \in Calls |-> "idle"]
    /\ wait = [c \in Calls |-> 0] /\ seen = [c \in Calls |-> None]
    /\ faults = 0 /\ raced = FALSE
-----------------------------------------------------------------------------
(* #schedule outside a transaction: the flush to come, behind one in flight.    *)
Schedule ==
    /\ IF flush = "none"
       THEN flush' = "due" /\ gen' = gen + 1 /\ UNCHANGED queued
       ELSE queued' = TRUE /\ UNCHANGED <<flush, gen>>
    /\ UNCHANGED <<puts, bad>>

Scheduled == gen + 1

(* #pending: the versions a flush that starts now carries. *)
Pending(held, D) == [k \in Keys |-> IF k \in D THEN held[k] ELSE 0]

(* #flushWithin: the dirty keys go into the open transaction.  Its statements  *)
(* run in the order they join the inner chain and before the COMMIT.          *)
FlushWithin(held, D) == txPuts' = Over(txPuts, Pending(held, D)) /\ dirty' = {}

-----------------------------------------------------------------------------
(* The mailbox lets the next call in when no other call's code runs. *)
Start(c) ==
    /\ running = "none" /\ call[c] = "idle"
    /\ running' = c /\ call' = [call EXCEPT ![c] = "running"]
    /\ UNCHANGED <<values, disk, dirty, flushVars, txVars, wait, seen, faults, raced>>

CodeRuns == running # "none" /\ tx \in {"none", "open"}

(* set, setMany, delete: the write, then #schedule. *)
Set(k) ==
    /\ CodeRuns /\ values[k] < MaxVersion
    /\ values' = [values EXCEPT ![k] = @ + 1] /\ undone' = undone \ {k}
    /\ IF tx = "open"
       THEN FlushWithin(values', dirty \cup {k}) /\ UNCHANGED <<flushVars, tx>>
       ELSE dirty' = dirty \cup {k} /\ Schedule /\ UNCHANGED <<tx, txPuts>>
    /\ UNCHANGED <<disk, callVars, faults, raced>>

(* set of what is stored already, and sync: #schedule alone. *)
Touch ==
    /\ CodeRuns /\ tx = "none" /\ gen < MaxFlushes
    /\ Schedule
    /\ UNCHANGED <<values, disk, dirty, txVars, callVars, faults, raced>>

-----------------------------------------------------------------------------
(* State.run: a statement joins the chain that is the right one at this moment. *)
JoinChain(p) ==
    IF tx = "open"
    THEN flush' = "inner" /\ txPuts' = Over(txPuts, p)
    ELSE flush' = "writing" /\ UNCHANGED txPuts

(* #flush begins and takes the dirty keys; with none it has ended already. *)
FlushStart ==
    /\ flush \in {"due", "next"}
    /\ gen' = IF flush = "next" THEN gen + 1 ELSE gen
    /\ queued' = (flush # "next" /\ queued)
    /\ dirty' = {} /\ puts' = Pending(values, dirty)
    /\ IF dirty = {}
       THEN flush' = (IF queued' THEN "next" ELSE "none") /\ UNCHANGED txPuts
       ELSE JoinChain(puts')
    /\ UNCHANGED <<values, disk, bad, tx, undone, callVars, faults, raced>>

(* The outer chain runs it: no transaction is ahead. *)
StatementDone ==
    /\ flush = "writing" /\ tx \in {"none", "behind"}
    /\ disk' = Over(disk, puts) /\ flush' = "done"
    /\ UNCHANGED <<values, dirty, puts, queued, gen, bad, txVars, callVars, faults, raced>>

StatementFails(how) ==
    /\ flush = "writing" /\ tx \in {"none", "behind"} /\ faults < MaxFaults
    /\ flush' = how /\ faults' = faults + 1
    /\ UNCHANGED <<values, disk, dirty, puts, queued, gen, bad, txVars, callVars, raced>>

(* Its statement on the inner chain ends; the COMMIT is still to come, or has   *)
(* come meanwhile.                                                            *)
InnerDone ==
    /\ flush = "inner" /\ flush' = "done"
    /\ UNCHANGED <<values, disk, dirty, puts, queued, gen, bad, txVars, callVars, faults, raced>>

(* retryBusy tries again, on the chain that is the right one by now. *)
Retry ==
    /\ flush = "asleep" /\ JoinChain(puts)
    /\ UNCHANGED <<values, disk, dirty, puts, queued, gen, bad, tx, undone, callVars, faults, raced>>

(* A transaction behind the flush's statement starts before #flush goes on. *)
TxFirst == tx = "behind"

(* #flush after its commit: the next one takes over, or is scheduled. *)
FlushSucceeds ==
    /\ flush = "done" /\ ~TxFirst /\ puts' = None
    /\ IF dirty # {} /\ tx = "open"
       THEN FlushWithin(values, dirty) ELSE UNCHANGED <<dirty, txPuts>>
    /\ IF queued THEN flush' = "next" /\ UNCHANGED gen
       ELSE IF dirty # {} /\ tx # "open" THEN flush' = "due" /\ gen' = gen + 1
       ELSE flush' = "none" /\ UNCHANGED gen
    /\ UNCHANGED <<values, disk, queued, bad, tx, undone, callVars, faults, raced>>

(* Fault: a failed flush clears #flushing although one is queued behind it. *)
FlushFailsClears ==
    /\ flush = "failed" /\ ~TxFirst /\ puts' = None
    /\ dirty' = dirty \cup Carries(puts) /\ bad' = bad \cup {gen} /\ flush' = "none"
    /\ UNCHANGED <<values, disk, queued, gen, txVars, callVars, faults, raced>>

(* #flush after a failed commit: the keys are dirty again. *)
FlushFails ==
    /\ flush = "failed" /\ ~TxFirst /\ puts' = None
    /\ dirty' = dirty \cup Carries(puts) /\ bad' = bad \cup {gen}
    /\ flush' = IF queued THEN "next" ELSE "none"
    /\ UNCHANGED <<values, disk, queued, gen, txVars, callVars, faults, raced>>

-----------------------------------------------------------------------------
(* state.transaction joins the outer chain; the method awaits it. *)
TxCall ==
    /\ Transactions /\ running # "none" /\ tx = "none"
    /\ tx' = IF flush = "writing" THEN "behind" ELSE "waiting"
    /\ raced' = (raced \/ flush # "none" \/ dirty # {})
    /\ UNCHANGED <<values, disk, dirty, flushVars, txPuts, undone, callVars, faults>>

(* It starts when the chain is free; what ran when it was called goes first.    *)
TxStart ==
    /\ \/ tx = "waiting" /\ flush \notin {"due", "next", "done", "failed"}
       \/ tx = "behind" /\ flush # "writing"
    /\ tx' = "open"
    /\ UNCHANGED <<values, disk, dirty, flushVars, txPuts, undone, callVars, faults, raced>>

(* work() returns: the dirty keys go in, then the COMMIT. *)
TxCommit ==
    /\ tx = "open" /\ tx' = "none" /\ txPuts' = None /\ dirty' = {}
    /\ disk' = Over(Over(disk, txPuts), Pending(values, dirty))
    /\ UNCHANGED <<values, flushVars, undone, callVars, faults, raced>>

(* Fault: what a rollback took back is dirty again, as after a failed flush. *)
TxRollbackRetries ==
    /\ tx = "open" /\ faults < MaxFaults /\ faults' = faults + 1
    /\ tx' = "none" /\ txPuts' = None /\ undone' = undone \cup Carries(txPuts)
    /\ dirty' = dirty \cup Carries(txPuts)
    /\ UNCHANGED <<values, disk, flushVars, callVars, raced>>

(* work() throws, or the COMMIT fails: what was set stays in memory. *)
TxRollback ==
    /\ tx = "open" /\ faults < MaxFaults /\ faults' = faults + 1
    /\ tx' = "none" /\ txPuts' = None /\ undone' = undone \cup Carries(txPuts)
    /\ UNCHANGED <<values, disk, dirty, flushVars, callVars, raced>>

-----------------------------------------------------------------------------
(* What memory holds, rolled-back writes apart: the file's version for those.  *)
Promised == [k \in Keys |-> IF k \in undone THEN disk[k] ELSE values[k]]

(* Fault: the gate looks at the flush in flight only. *)
ReturnInFlight(c) ==
    /\ running = c /\ tx = "none"
    /\ running' = "none" /\ seen' = [seen EXCEPT ![c] = Promised]
    /\ call' = [call EXCEPT ![c] = "waiting"] /\ wait' = [wait EXCEPT ![c] = gen]
    /\ UNCHANGED <<values, disk, dirty, flushVars, txVars, faults, raced>>

(* The method returns and the gate (State.committed) chooses what to wait for,  *)
(* before the next call starts.                                              *)
Return(c) ==
    /\ running = c /\ tx = "none"
    /\ running' = "none" /\ seen' = [seen EXCEPT ![c] = Promised]
    /\ call' = [call EXCEPT ![c] = "waiting"]
    /\ IF dirty # {}
       THEN Schedule /\ wait' = [wait EXCEPT ![c] = Scheduled]
       ELSE wait' = [wait EXCEPT ![c] = IF flush = "none" THEN 0 ELSE gen]
            /\ UNCHANGED flushVars
    /\ UNCHANGED <<values, disk, dirty, txVars, faults, raced>>

(* The method throws: its caller hears so at once. *)
Throw(c) ==
    /\ running = c /\ tx = "none"
    /\ running' = "none" /\ call' = [call EXCEPT ![c] = "threw"]
    /\ UNCHANGED <<values, disk, dirty, flushVars, txVars, wait, seen, faults, raced>>

(* The flush it waits for has ended. *)
Release(c) ==
    /\ call[c] = "waiting" /\ wait[c] <= Ended
    /\ call' = [call EXCEPT ![c] = IF wait[c] \in bad THEN "rejected" ELSE "released"]
    /\ UNCHANGED <<values, disk, dirty, flushVars, txVars, running, wait, seen, faults, raced>>

(* The process dies and the worker is materialized again from its file. *)
Crash ==
    /\ MayCrash /\ values' = disk /\ dirty' = {}
    /\ flush' = "none" /\ puts' = None /\ queued' = FALSE /\ UNCHANGED <<gen, bad>>
    /\ tx' = "none" /\ txPuts' = None /\ undone' = {} /\ running' = "none"
    /\ call' = [c \in Calls |-> IF call[c] \in {"running", "waiting"} THEN "lost" ELSE call[c]]
    /\ UNCHANGED <<disk, wait, seen, faults, raced>>

-----------------------------------------------------------------------------
Guest ==
    \/ \E c \in Calls : Start(c) \/ Return(c) \/ Throw(c)
    \/ \E k \in Keys : Set(k)
    \/ Touch \/ TxCall

Faults == Crash \/ TxRollback \/ \E how \in {"asleep", "failed"} : StatementFails(how)

Flushing == FlushStart \/ StatementDone \/ InnerDone \/ Retry \/ FlushSucceeds \/ FlushFails

Transacting == TxStart \/ TxCommit

Releasing == \E c \in Calls : Release(c)

Stopped == (\A c \in Calls : call[c] \notin {"idle", "running", "waiting"}) /\ UNCHANGED vars

Next == Guest \/ Faults \/ Flushing \/ Transacting \/ Releasing \/ Stopped

(* Statements end, microtasks run and the body of a transaction returns. *)
Spec ==
    /\ Init /\ [][Next]_vars
    /\ WF_vars(Flushing) /\ WF_vars(Transacting) /\ WF_vars(Releasing)

-----------------------------------------------------------------------------
(* The gate: a result that was handed out reflects nothing the file does not    *)
(* hold, so a crash at any moment loses nothing a caller was told (rolled-back  *)
(* writes promise nothing).  A transaction called over writes that are not in    *)
(* the file yet breaks it: a flush may then write an old value after COMMIT.     *)
AckedDurable ==
    \A c \in Calls : call[c] = "released" => \A k \in Keys : seen[c][k] <= disk[k]

(* No write is forgotten: with nothing dirty, in flight or uncommitted, the     *)
(* file holds what memory holds.                                             *)
WrittenBack ==
    flush = "none" /\ dirty = {} /\ tx = "none" =>
        \A k \in Keys \ undone : disk[k] = values[k]

(* The gate holds and no write is forgotten as long as no transaction was called  *)
(* over unwritten changes.                                                    *)
GateHolds == ~raced => AckedDurable /\ WrittenBack

(* What makes the gate inductive until then: the version v of k will be in the   *)
(* file when flush w has ended well, because it is there, or will be carried, or  *)
(* is carried.                                                               *)
Lands(w, k, v) ==
    \/ v <= disk[k]
    \/ k \in dirty /\ (w > gen \/ flush = "due")
    \/ v <= puts[k] /\ (flush \in {"writing", "asleep"} \/ (flush = "failed" /\ w > gen))
    \/ flush = "failed" /\ w = gen

TxAlone ==
    /\ tx # "none" => flush = "none" /\ dirty = {} /\ tx # "behind"
    /\ flush # "inner"

(* Nothing older than the file is on its way to it, and the version in memory   *)
(* is in one of the four places.                                             *)
KeyInv(k) ==
    /\ disk[k] <= values[k]
    /\ puts[k] # 0 => disk[k] <= puts[k] /\ puts[k] <= values[k]
    /\ txPuts[k] # 0 => disk[k] <= txPuts[k] /\ txPuts[k] <= values[k]
    /\ flush = "done" => puts[k] <= disk[k]
    /\ k \in undone \/ k \in dirty \/ values[k] \in {disk[k], puts[k], txPuts[k]}

WaitInv(c) ==
    call[c] = "waiting" =>
        /\ wait[c] > gen => queued
        /\ \A k \in Keys : seen[c][k] <= values[k]
        /\ wait[c] \in bad \/ \A k \in Keys :
              IF wait[c] <= Ended THEN seen[c][k] <= disk[k]
              ELSE Lands(wait[c], k, seen[c][k])

GateInv ==
    TxAlone /\ AckedDurable /\ (\A k \in Keys : KeyInv(k)) /\ \A c \in Calls : WaitInv(c)

(* What the mapping to DurableWorker needs beside GateInv: a rolled-back version   *)
(* is on its way to nowhere, a statement carries something, and after a failed     *)
(* flush something is dirty until the one queued behind it begins.               *)
CarryInv ==
    /\ \A k \in undone : k \notin dirty /\ puts[k] = 0 /\ txPuts[k] = 0
    /\ \A k \in dirty : values[k] > 0
    /\ flush \in {"writing", "asleep", "failed"} => Carries(puts) # {}
    /\ flush = "next" /\ gen \in bad => dirty # {}

(* The state the statement in flight would make of the file, if there is one; and  *)
(* the calls whose flush has failed.                                          *)
Snap == IF flush \in {"writing", "asleep"} THEN {Over(disk, puts)} ELSE {}
Blamed == {c \in Calls : call[c] = "waiting" /\ wait[c] \in bad}

(* A step that memory, the file and the callers can tell from none is one that    *)
(* DurableWorker allows: the versions a flush carries complete the file to a      *)
(* state that memory was in.                                                 *)
Worker == INSTANCE DurableWorker WITH
    mem <- Promised, file <- disk,
    snap <- Snap, failing <- flush = "failed", inTx <- tx = "open", blamed <- Blamed

(* The worker keeps its promise until a transaction is called over unwritten      *)
(* changes: flushes, retries, transactions, rollbacks and crashes in any order     *)
(* take the file from one state of memory to a later one.                       *)
PromiseKept == Worker!Init /\ [][raced' \/ Worker!Next]_(Worker!vars)

(* Every call that returned is answered, whatever fails: flushes, retries and   *)
(* transactions never wait for each other in a circle.                        *)
Answered == \A c \in Calls : call[c] = "waiting" ~> call[c] # "waiting"
=============================================================================
