---------------------------- MODULE DurableCalls ----------------------------
(***************************************************************************)
(* Calls between durable workers (crates/runtime/src/runtime_modules/         *)
(* workers.js): the reference that makes a call and refuses the ones that     *)
(* would wait in a circle, materialize, which opens a worker and closes idle   *)
(* ones first, and the mailbox that runs one call at a time.                  *)
(*                                                                          *)
(* Workers run in this agent.  A worker is opened, closed and opened again:   *)
(* each time is an instance of its own.  An action is a piece of JavaScript    *)
(* that runs without a break.  Code awaits every call it makes before it       *)
(* returns or throws; stop() makes none.  Which idle workers a sweep takes is   *)
(* the clock's and the limits' choice, here any.                              *)
(***************************************************************************)
EXTENDS Naturals, Sequences, FiniteSets

CONSTANTS
    Workers,
    MaxCalls,   \* bound: calls, made in the order of their numbers
    MaxLife,    \* bound: instances of one worker
    MaxSweep,   \* workers one sweep of evictIdle takes at most
    Mailbox,    \* config.mailbox
    MayFail     \* BOOLEAN: code throws, and files cannot be opened or written

Calls == 1..MaxCalls
Outside == 0      \* code that is no worker's
NoOne == "none"

ASSUME CallsAssumption ==
    /\ MaxCalls \in Nat /\ MaxLife \in Nat /\ MaxSweep \in Nat /\ Mailbox \in Nat
    /\ MayFail \in BOOLEAN
    /\ NoOne \notin Workers /\ Workers \cap (0..MaxCalls) = {}

VARIABLES
    made,     \* the calls made so far
    at,       \* where each call is
    from,     \* the code that made it: a call's, a worker's start(), or Outside
    to,       \* the worker it is made to
    chain,    \* the workers it came through
    inst,     \* the instance it was given
    again,    \* whether it has been refused once by a closing instance
    waits,    \* the wait-for graph: how many calls of one worker wait on another
    m,        \* inFlight: how far the materialization of each worker is
    behind,   \* the eviction it waits for first
    sweep,    \* the instances it has still to evict, the first being closed
    life,     \* the instances of each worker so far
    st,       \* the state of each instance
    live,     \* the instance in the map of live workers, or 0
    closing,  \* the eviction a materialization must wait for: whose sweep it is
    mail      \* the mailbox: the calls whose code has not ended, first the running

callVars == <<made, from, to, chain, again>>
openVars == <<m, behind, sweep>>
instVars == <<life, st, live, closing>>
vars == <<callVars, at, inst, waits, openVars, instVars, mail>>

Instances == Workers \X (1..MaxLife)
Frames == {Outside} \cup Calls \cup Workers

(* gate: the caller's writes are committed first; opening: materialize is         *)
(* awaited; found: it has answered; queued: in the mailbox; gating: the code has   *)
(* returned.                                                                 *)
Waiting == {"opening", "found", "queued", "gating"}
Answers == {"done", "cycle", "closed", "failed"}

CallTypes ==
    /\ made \in 0..MaxCalls
    /\ at \in [Calls -> {"idle", "gate"} \cup Waiting \cup Answers]
    /\ from \in [Calls -> Frames] /\ to \in [Calls -> Workers \cup {NoOne}]
    /\ chain \in [Calls -> SUBSET Workers] /\ again \in [Calls -> BOOLEAN]
    /\ inst \in [Calls -> 0..MaxLife] /\ waits \in [Workers \X Workers -> Nat]

InstanceTypes ==
    /\ m \in [Workers -> {"none", "registry", "behind", "sweep", "open", "start"}]
    /\ behind \in [Workers -> Workers \cup {NoOne}]
    /\ closing \in [Workers -> Workers \cup {NoOne}]
    /\ sweep \in [Workers -> Seq(Instances)]
    /\ life \in [Workers -> 0..MaxLife] /\ live \in [Workers -> 0..MaxLife]
    /\ st \in [Instances -> {"none", "starting", "open", "closing", "closed", "broken", "dead"}]
    /\ mail \in [Instances -> Seq(Calls)]

(* The types; a call waits in one mailbox, that of its instance, and once.        *)
TypeOK ==
    /\ CallTypes /\ InstanceTypes
    /\ \A e \in Instances, c \in Calls :
          Cardinality({n \in DOMAIN mail[e] : mail[e][n] = c})
              = IF at[c] = "queued" /\ e = <<to[c], inst[c]>> THEN 1 ELSE 0

Init ==
    /\ made = 0 /\ at = [c \in Calls |-> "idle"]
    /\ from = [c \in Calls |-> Outside] /\ to = [c \in Calls |-> NoOne]
    /\ chain = [c \in Calls |-> {}] /\ inst = [c \in Calls |-> 0]
    /\ again = [c \in Calls |-> FALSE] /\ waits = [e \in Workers \X Workers |-> 0]
    /\ m = [w \in Workers |-> "none"] /\ behind = [w \in Workers |-> NoOne]
    /\ sweep = [w \in Workers |-> <<>>] /\ closing = [w \in Workers |-> NoOne]
    /\ life = [w \in Workers |-> 0] /\ live = [w \in Workers |-> 0]
    /\ st = [e \in Instances |-> "none"] /\ mail = [e \in Instances |-> <<>>]

-----------------------------------------------------------------------------
(* The context a frame runs in: the workers it came through, the last of which  *)
(* is the one whose code it is.                                               *)
ChainOf(f) ==
    CASE f = Outside -> {}
      [] f \in Workers -> {f}
      [] OTHER -> chain[f] \cup {to[f]}
CodeOf(f) ==
    CASE f = Outside -> NoOne
      [] f \in Workers -> f
      [] OTHER -> to[f]
Caller(c) == CodeOf(from[c])

Box(c) == <<to[c], inst[c]>>
Running(c) == at[c] = "queued" /\ Head(mail[Box(c)]) = c
Runs(f) ==
    CASE f = Outside -> TRUE
      [] f \in Workers -> m[f] = "start"
      [] OTHER -> Running(f)

(* What a frame has made is answered, so that it may go on to its end. *)
MadeBy(f) == {c \in Calls : from[c] = f /\ at[c] # "idle"}
Settled(f) == \A c \in MadeBy(f) : at[c] \in Answers

(* The error a frame ends with: its own, or that of a call it made. *)
Errors(f) == ({"failed"} \cup {at[c] : c \in MadeBy(f)}) \ {"done"}

(* LiveWorker.pending: the calls of an instance that are not answered yet. *)
Pending(e) == {c \in Calls : at[c] \in {"queued", "gating"} /\ Box(c) = e}

(* waitPath: the workers w waits on, through any number of others. *)
Closed(S) == \A u \in S, v \in Workers : waits[<<u, v>>] > 0 => v \in S
WaitPath(w) == {x \in Workers : \A S \in SUBSET Workers : w \in S /\ Closed(S) => x \in S}

Held(S, u, v) == {c \in S : Caller(c) = u /\ to[c] = v}

(* removeWait, when the calls of S are answered. *)
RemoveWaits(S) == [e \in Workers \X Workers |-> waits[e] - Cardinality(Held(S, e[1], e[2]))]

Answer(c, r) == at' = [at EXCEPT ![c] = r] /\ waits' = RemoveWaits({c})

(* LiveWorker.closing is set: the instance takes no further calls. *)
Shut == {"closing", "closed", "broken"}

(* The first part of materialize, up to where it awaits. *)
Materialize(c, w) ==
    IF live[w] # 0 /\ st[<<w, live[w]>>] \notin Shut
    THEN /\ at' = [at EXCEPT ![c] = "found"] /\ inst' = [inst EXCEPT ![c] = live[w]]
         /\ UNCHANGED m
    ELSE /\ at' = [at EXCEPT ![c] = "opening"] /\ UNCHANGED inst
         /\ m' = IF m[w] = "none" THEN [m EXCEPT ![w] = "registry"] ELSE m

-----------------------------------------------------------------------------
(* The reference: a call.  One back into its own chain is refused at once; one   *)
(* made by a worker awaits the commit of its caller's writes.                   *)
MakeCall(f, w) ==
    /\ made < MaxCalls /\ made' = made + 1 /\ Runs(f)
    /\ LET c == made + 1 IN
       /\ from' = [from EXCEPT ![c] = f] /\ to' = [to EXCEPT ![c] = w]
       /\ chain' = [chain EXCEPT ![c] = ChainOf(f)]
       /\ IF w \in ChainOf(f)
          THEN at' = [at EXCEPT ![c] = "cycle"] /\ UNCHANGED <<inst, m>>
          ELSE IF f = Outside THEN Materialize(c, w)
          ELSE at' = [at EXCEPT ![c] = "gate"] /\ UNCHANGED <<inst, m>>
    /\ UNCHANGED <<again, waits, behind, sweep, instVars, mail>>

(* Fault: only a call's own chain is looked at. *)
LeaveUnchecked(c) ==
    /\ at[c] = "gate" /\ waits' = [waits EXCEPT ![<<Caller(c), to[c]>>] = @ + 1]
    /\ Materialize(c, to[c])
    /\ UNCHANGED <<callVars, behind, sweep, instVars, mail>>

(* The writes are committed: the call is refused if its target waits on the      *)
(* caller, and recorded otherwise.                                            *)
Leave(c) ==
    /\ at[c] = "gate"
    /\ IF Caller(c) \in WaitPath(to[c])
       THEN at' = [at EXCEPT ![c] = "cycle"] /\ UNCHANGED <<inst, m, waits>>
       ELSE /\ waits' = [waits EXCEPT ![<<Caller(c), to[c]>>] = @ + 1]
            /\ Materialize(c, to[c])
    /\ UNCHANGED <<callVars, behind, sweep, instVars, mail>>

LeaveFails(c) ==
    /\ at[c] = "gate" /\ MayFail /\ at' = [at EXCEPT ![c] = "failed"]
    /\ UNCHANGED <<callVars, inst, waits, openVars, instVars, mail>>

(* The instance refused the call, or its code threw the error of one that was:   *)
(* it is materialized again, once.                                             *)
Refused(c, r) ==
    IF r = "closed" /\ ~again[c]
    THEN again' = [again EXCEPT ![c] = TRUE] /\ Materialize(c, to[c]) /\ UNCHANGED waits
    ELSE Answer(c, r) /\ UNCHANGED <<again, inst, m>>

(* LiveWorker.enqueue. *)
Enqueue(c) ==
    /\ at[c] = "found"
    /\ CASE st[Box(c)] \in Shut ->
              Refused(c, "closed") /\ UNCHANGED mail
         [] st[Box(c)] \notin Shut
            /\ Cardinality(Pending(Box(c))) >= Mailbox ->
              Refused(c, "failed") /\ UNCHANGED mail
         [] OTHER ->
              /\ at' = [at EXCEPT ![c] = "queued"]
              /\ mail' = [mail EXCEPT ![Box(c)] = Append(@, c)]
              /\ UNCHANGED <<again, inst, m, waits>>
    /\ UNCHANGED <<made, from, to, chain, behind, sweep, instVars>>

(* The method returns, and the next one may run. *)
Return(c) ==
    /\ Running(c) /\ Settled(c) /\ at' = [at EXCEPT ![c] = "gating"]
    /\ mail' = [mail EXCEPT ![Box(c)] = Tail(@)]
    /\ UNCHANGED <<callVars, inst, waits, openVars, instVars>>

Throw(c, r) ==
    /\ MayFail /\ Running(c) /\ Settled(c) /\ r \in Errors(c) /\ Refused(c, r)
    /\ mail' = [mail EXCEPT ![Box(c)] = Tail(@)]
    /\ UNCHANGED <<made, from, to, chain, behind, sweep, instVars>>

(* The gate: the writes of the call are committed, or cannot be. *)
Release(c, r) ==
    /\ at[c] = "gating" /\ r \in {"done", "failed"} /\ Answer(c, r)
    /\ r = "failed" => MayFail
    /\ UNCHANGED <<callVars, inst, openVars, instVars, mail>>

-----------------------------------------------------------------------------
(* Fault: a worker that is closing is opened again at once. *)
RegistryAtOnce(w) ==
    /\ m[w] = "registry" /\ m' = [m EXCEPT ![w] = "behind"]
    /\ UNCHANGED <<callVars, at, inst, waits, behind, sweep, instVars, mail>>

(* materialize: the catalog is open; an eviction of the same worker under way    *)
(* is awaited.                                                               *)
Registry(w) ==
    /\ m[w] = "registry" /\ m' = [m EXCEPT ![w] = "behind"]
    /\ behind' = [behind EXCEPT ![w] = closing[w]]
    /\ UNCHANGED <<callVars, at, inst, waits, sweep, instVars, mail>>

(* evict, up to where it awaits: whatever instance is in the map leaves it. *)
EvictFirst(w, list, others) ==
    LET e == Head(list) IN
    /\ live' = [live EXCEPT ![e[1]] = 0] /\ closing' = [others EXCEPT ![e[1]] = w]
    /\ st' = IF st[e] \in {"starting", "open"} THEN [st EXCEPT ![e] = "closing"] ELSE st

Closeable ==
    {<<u, live[u]>> : u \in {v \in Workers :
        live[v] # 0 /\ st[<<v, live[v]>>] = "open" /\ live[v] < MaxLife /\ Pending(<<v, live[v]>>) = {}}}

Lists == UNION {[1..n -> Closeable] : n \in 0..MaxSweep}
Sweeps == {l \in Lists : \A i, j \in DOMAIN l : l[i] = l[j] => i = j}

Evicting(v, w) == m[v] = "sweep" /\ Head(sweep[v])[1] = w

(* evictIdle: the list is made once. *)
Sweep(w) ==
    /\ m[w] = "behind" /\ (behind[w] # NoOne => ~Evicting(behind[w], w))
    /\ behind' = [behind EXCEPT ![w] = NoOne]
    /\ \E list \in Sweeps :
          /\ sweep' = [sweep EXCEPT ![w] = list]
          /\ m' = [m EXCEPT ![w] = IF list = <<>> THEN "open" ELSE "sweep"]
          /\ IF list = <<>> THEN UNCHANGED <<st, live, closing>> ELSE EvictFirst(w, list, closing)
    /\ UNCHANGED <<callVars, at, inst, waits, life, mail>>

(* LiveWorker.close: the mailbox runs empty, stop() runs, the state is flushed    *)
(* and the file closed; stop() or the flush may throw.                          *)
Close(e, end) ==
    /\ st[e] = "closing" /\ mail[e] = <<>> /\ end \in {"closed", "broken"}
    /\ end = "broken" => MayFail
    /\ st' = [st EXCEPT ![e] = end]
    /\ UNCHANGED <<callVars, at, inst, waits, openVars, life, live, closing, mail>>

Opening(w) == {c \in Calls : at[c] = "opening" /\ to[c] = w}

(* Fault: only the call that began the materialization hears of its error. *)
MaterializeFailsForOne(w, r) ==
    /\ m' = [m EXCEPT ![w] = "none"] /\ sweep' = [sweep EXCEPT ![w] = <<>>]
    /\ LET first == {c \in Opening(w) : \A d \in Opening(w) : c <= d} IN
       /\ at' = [c \in Calls |-> IF c \in first THEN r ELSE at[c]]
       /\ waits' = RemoveWaits(first)

(* Every call that awaits the materialization hears of its error. *)
MaterializeFails(w, r) ==
    /\ m' = [m EXCEPT ![w] = "none"] /\ sweep' = [sweep EXCEPT ![w] = <<>>]
    /\ at' = [c \in Calls |-> IF c \in Opening(w) THEN r ELSE at[c]]
    /\ waits' = RemoveWaits(Opening(w))

(* The worker being evicted is closed: the next one, or the opening; its error    *)
(* is the sweep's.                                                            *)
Swept(w) ==
    LET e == Head(sweep[w])
        done == IF closing[e[1]] = w THEN [closing EXCEPT ![e[1]] = NoOne] ELSE closing
        rest == Tail(sweep[w])
    IN
    /\ m[w] = "sweep" /\ st[e] \in {"closed", "broken", "dead"}
    /\ CASE st[e] = "broken" ->
              MaterializeFails(w, "failed") /\ closing' = done /\ UNCHANGED <<st, live>>
         [] st[e] # "broken" /\ rest = <<>> ->
              /\ m' = [m EXCEPT ![w] = "open"] /\ sweep' = [sweep EXCEPT ![w] = rest]
              /\ closing' = done /\ UNCHANGED <<st, live, at, waits>>
         [] OTHER ->
              /\ sweep' = [sweep EXCEPT ![w] = rest] /\ EvictFirst(w, rest, done)
              /\ UNCHANGED <<m, at, waits>>
    /\ UNCHANGED <<callVars, inst, behind, life, mail>>

(* The file is opened and the instance made; it is live before it starts. *)
Open(w) ==
    /\ m[w] = "open" /\ life[w] < MaxLife
    /\ life' = [life EXCEPT ![w] = @ + 1] /\ live' = [live EXCEPT ![w] = life[w] + 1]
    /\ st' = [st EXCEPT ![<<w, life[w] + 1>>] = "starting"] /\ m' = [m EXCEPT ![w] = "start"]
    /\ UNCHANGED <<callVars, at, inst, waits, behind, sweep, closing, mail>>

OpenFails(w) ==
    /\ MayFail /\ m[w] \in {"registry", "open"} /\ MaterializeFails(w, "failed")
    /\ UNCHANGED <<callVars, inst, behind, instVars, mail>>

(* start() returns: the calls that await the worker are given it. *)
Started(w) ==
    /\ m[w] = "start" /\ Settled(w) /\ m' = [m EXCEPT ![w] = "none"]
    /\ st' = [st EXCEPT ![<<w, life[w]>>] = IF @ = "starting" THEN "open" ELSE @]
    /\ at' = [c \in Calls |-> IF c \in Opening(w) THEN "found" ELSE at[c]]
    /\ inst' = [c \in Calls |-> IF c \in Opening(w) THEN life[w] ELSE inst[c]]
    /\ UNCHANGED <<callVars, waits, behind, sweep, life, live, closing, mail>>

StartFails(w, r) ==
    /\ MayFail /\ m[w] = "start" /\ Settled(w) /\ r \in Errors(w) /\ life[w] < MaxLife
    /\ MaterializeFails(w, r) /\ live' = [live EXCEPT ![w] = 0]
    /\ st' = [st EXCEPT ![<<w, life[w]>>] = "dead"]
    /\ UNCHANGED <<callVars, inst, behind, life, closing, mail>>

-----------------------------------------------------------------------------
Code == \E f \in Frames, w \in Workers : MakeCall(f, w)

Calling ==
    \E c \in Calls :
        \/ Leave(c) \/ LeaveFails(c) \/ Enqueue(c) \/ Return(c)
        \/ \E r \in Answers : Throw(c, r) \/ Release(c, r)

Materializing ==
    \/ \E w \in Workers : Registry(w) \/ Sweep(w) \/ Swept(w) \/ Open(w) \/ OpenFails(w)
                             \/ Started(w) \/ \E r \in Answers : StartFails(w, r)
    \/ \E e \in Instances, end \in {"closed", "broken"} : Close(e, end)

Next == Code \/ Calling \/ Materializing

(* Code returns when what it called has answered, and the runtime goes on. *)
Spec == Init /\ [][Next]_vars /\ WF_vars(Calling \/ Materializing)

-----------------------------------------------------------------------------
(* The calls of u's code that wait on v. *)
Waiters(u, v) == {c \in Calls : at[c] \in Waiting /\ Caller(c) = u /\ to[c] = v}

(* The wait-for graph is the truth: an edge counts the calls that wait, whatever  *)
(* way they were answered.                                                    *)
WaitsExact == \A u, v \in Workers : waits[<<u, v>>] = Cardinality(Waiters(u, v))

(* No circle of workers, each busy with code that waits on the next one: calls    *)
(* of different requests are refused before they close it.                      *)
NoCircle ==
    \A S \in SUBSET Workers : (\A u \in S : \E v \in S : Waiters(u, v) # {}) => S = {}

(* Calls are refused early enough, and for no other reason than the calls there    *)
(* are: what a path is looked for in is the truth, and it is never a circle.     *)
WaitInv == WaitsExact /\ NoCircle

(* One writer: a worker's file is written by one instance at a time, so the next  *)
(* one is opened only when the last has ended.                                 *)
OneWriter ==
    \A w \in Workers : \A i, j \in 1..MaxLife :
        {st[<<w, i>>], st[<<w, j>>]} \subseteq {"starting", "open", "closing"} => i = j

(* What holds of calls and instances at all times: their types, and the above. *)
InstancesInv == TypeOK /\ OneWriter

(* Every call is answered, whatever fails and is evicted: no call, sweep or         *)
(* materialization waits for another in a circle.                              *)
Answered == \A c \in Calls : at[c] \in Waiting \cup {"gate"} ~> at[c] \in Answers

(* start() has finished before the first call runs.                            *)
StartsFirst == \A e \in Instances : st[e] = "starting" => mail[e] = <<>>
=============================================================================
