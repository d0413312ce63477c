---------------------------- MODULE DurableWorker ----------------------------
(***************************************************************************)
(* What a durable worker promises, whatever it does to keep it: its file goes  *)
(* from one state that its memory was in to a later one and never to a mixture  *)
(* of two; a transaction happens as a whole or not at all, and nothing else is  *)
(* written while it is open; a result is handed out when the file is as new as  *)
(* what the call could have read, and refused only when a write has failed      *)
(* since it returned; whoever opens the worker after a crash finds the file.   *)
(* DurableState implements it until a transaction is called over changes that   *)
(* are not written.                                                          *)
(***************************************************************************)
EXTENDS Naturals

CONSTANTS Keys, Calls

VARIABLES
    mem,      \* the version of each key that the worker's code has made
    file,     \* the version of each key in its file
    snap,     \* the state on its way to the file, if there is one
    failing,  \* the last one did not get there and nobody has been told
    inTx,     \* a transaction is open
    running,  \* the call whose code runs, or "none"
    call,     \* the state of each call
    seen,     \* what it could have read when it returned
    blamed    \* the waiting calls whose result will be refused

vars == <<mem, file, snap, failing, inTx, running, call, seen, blamed>>

Init ==
    /\ mem = [k \in Keys |-> 0] /\ file = [k \in Keys |-> 0]
    /\ snap = {} /\ failing = FALSE /\ inTx = FALSE
    /\ running = "none" /\ call = [c \in Calls |-> "idle"]
    /\ seen = [c \in Calls |-> [k \in Keys |-> 0]] /\ blamed = {}

Start(c) ==
    /\ running = "none" /\ call[c] = "idle"
    /\ running' = c /\ call' = [call EXCEPT ![c] = "running"]
    /\ UNCHANGED <<mem, file, snap, failing, inTx, seen, blamed>>

(* The code of a call changes one key; versions go up. *)
Write(k) ==
    /\ running # "none" /\ mem'[k] > mem[k] /\ mem' = [mem EXCEPT ![k] = mem'[k]]
    /\ UNCHANGED <<file, snap, failing, inTx, running, call, seen, blamed>>

Return(c) ==
    /\ running = c /\ ~inTx /\ running' = "none"
    /\ call' = [call EXCEPT ![c] = "waiting"] /\ seen' = [seen EXCEPT ![c] = mem]
    /\ UNCHANGED <<mem, file, snap, failing, inTx, blamed>>

Throw(c) ==
    /\ running = c /\ ~inTx /\ running' = "none" /\ call' = [call EXCEPT ![c] = "threw"]
    /\ UNCHANGED <<mem, file, snap, failing, inTx, seen, blamed>>

(* The state of memory sets out for the file, and lands there or does not. *)
Take ==
    /\ snap = {} /\ ~failing /\ ~inTx /\ snap' = {mem}
    /\ UNCHANGED <<mem, file, failing, inTx, running, call, seen, blamed>>

Land ==
    /\ file' \in snap /\ snap' = {}
    /\ UNCHANGED <<mem, failing, inTx, running, call, seen, blamed>>

Fail ==
    /\ snap # {} /\ snap' = {} /\ failing' = TRUE
    /\ UNCHANGED <<mem, file, inTx, running, call, seen, blamed>>

(* Some of the calls that wait are told. *)
Blame(S) ==
    /\ failing /\ failing' = FALSE
    /\ \A c \in S : call[c] = "waiting"
    /\ blamed' = blamed \cup S
    /\ UNCHANGED <<mem, file, snap, inTx, running, call, seen>>

(* A transaction begins where the file is. *)
Begin ==
    /\ running # "none" /\ ~inTx /\ snap = {} /\ ~failing /\ mem = file /\ inTx' = TRUE
    /\ UNCHANGED <<mem, file, snap, failing, running, call, seen, blamed>>

Commit ==
    /\ inTx /\ inTx' = FALSE /\ file' = mem
    /\ UNCHANGED <<mem, snap, failing, running, call, seen, blamed>>

Rollback ==
    /\ inTx /\ inTx' = FALSE /\ mem' = file
    /\ UNCHANGED <<file, snap, failing, running, call, seen, blamed>>

Release(c) ==
    /\ call[c] = "waiting" /\ c \notin blamed /\ \A k \in Keys : seen[c][k] <= file[k]
    /\ call' = [call EXCEPT ![c] = "released"]
    /\ UNCHANGED <<mem, file, snap, failing, inTx, running, seen, blamed>>

Refuse(c) ==
    /\ call[c] = "waiting" /\ c \in blamed /\ blamed' = blamed \ {c}
    /\ call' = [call EXCEPT ![c] = "rejected"]
    /\ UNCHANGED <<mem, file, snap, failing, inTx, running, seen>>

Crash ==
    /\ mem' = file /\ snap' = {} /\ failing' = FALSE /\ inTx' = FALSE
    /\ running' = "none" /\ blamed' = {}
    /\ call' = [c \in Calls |-> IF call[c] \in {"running", "waiting"} THEN "lost" ELSE call[c]]
    /\ UNCHANGED <<file, seen>>

Next ==
    \/ \E c \in Calls : Start(c) \/ Return(c) \/ Throw(c) \/ Release(c) \/ Refuse(c)
    \/ \E k \in Keys : Write(k)
    \/ Take \/ Land \/ Fail \/ (\E S \in SUBSET Calls : Blame(S))
    \/ Begin \/ Commit \/ Rollback \/ Crash

Spec == Init /\ [][Next]_vars
=============================================================================
