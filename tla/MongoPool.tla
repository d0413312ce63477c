------------------------------ MODULE MongoPool ------------------------------
(***************************************************************************)
(* One server of a MongoDB deployment as the driver sees it                  *)
(* (crates/runtime/src/mongodb): its pool of connections (pool.rs), what the   *)
(* topology knows of it (topology.rs, sdam.rs), the commands sent to it and    *)
(* the checks of its monitor.                                               *)
(*                                                                         *)
(* A command is known by its ticket, a connection by the generation of the    *)
(* pool it was opened in.  An action is what an op does between two awaits:   *)
(* the ops of an agent are polled by one thread.                             *)
(***************************************************************************)
EXTENDS Integers, Sequences, FiniteSets

CONSTANTS
    Tickets,  \* the commands
    Pinned,   \* those sent to this server whatever is known of it (a cursor's)
    Abortable,\* those with a signal or a timeout
    Max,      \* Options.max_pool
    MaxGens   \* bound: failures that start a new generation

ASSUME MongoAssumption ==
    /\ IsFiniteSet(Tickets) /\ Pinned \subseteq Tickets /\ Abortable \subseteq Tickets
    /\ Max \in Nat \ {0} /\ MaxGens \in Nat

VARIABLES
    known,      \* the server's description is not Unknown
    gens,       \* TopologyDescription.generations[address]
    made,       \* Topology.pools holds a pool for it: made by the first command
    missed,     \* failed checks that found no pool to clear
    forgotten,  \* Topology.cancelled: cancelled before they were sent
    generation, \* Pool.generation
    idle,       \* Pool.idle: the generations of the idle connections
    total,      \* Pool.total
    waiters,    \* Pool.waiters
    cancelled,  \* Pool.cancelled
    closed,     \* Topology.closed, and the pool's
    at,         \* where each command is, see Places
    opened,     \* the generation its connection belongs to
    cut,        \* Running.cancelled: cancelled while it had a place
    error,      \* what the topology is still to be told of it
    wasted      \* a woken command left without the place it was woken for

topologyVars == <<known, gens, made, missed, forgotten>>
poolVars == <<generation, idle, total, waiters, cancelled, closed>>
commandVars == <<at, opened, cut, error, wasted>>
vars == <<topologyVars, poolVars, commandVars>>

(* woken: its oneshot was sent, it has not looked yet; leaving: a cancel took   *)
(* it out of the queue; closing: its connection is being closed.               *)
Places == {"new", "waiting", "woken", "leaving", "opening", "using", "closing", "done"}
Outcomes == {"fine", "stepped down", "shutting down", "lost"}

In(p) == {t \in Tickets : at[t] \in p}
Holders == In({"opening", "using"})

TypeOK ==
    /\ known \in BOOLEAN /\ gens \in Nat /\ made \in BOOLEAN /\ missed \in Nat
    /\ forgotten \subseteq Tickets
    /\ generation \in Nat /\ idle \in Seq(Nat) /\ total \in Nat
    /\ waiters \in Seq(Tickets) /\ cancelled \subseteq Tickets /\ closed \in BOOLEAN
    /\ at \in [Tickets -> Places] /\ opened \in [Tickets -> Nat]
    /\ cut \subseteq Tickets /\ error \in [Tickets -> Outcomes] /\ wasted \in BOOLEAN

Init ==
    /\ known = FALSE /\ gens = 0 /\ made = FALSE /\ missed = 0
    /\ forgotten = {}
    /\ generation = 0 /\ idle = <<>> /\ total = 0
    /\ waiters = <<>> /\ cancelled = {} /\ closed = FALSE
    /\ at = [t \in Tickets |-> "new"] /\ opened = [t \in Tickets |-> 0]
    /\ cut = {} /\ error = [t \in Tickets |-> "fine"]
    /\ wasted = FALSE
-----------------------------------------------------------------------------
Moved(t, p) == [at EXCEPT ![t] = p]

(* wake_one, wake_all: commands that wait when the places are these. *)
WakeOne(places) ==
    IF waiters = <<>> THEN at' = places /\ UNCHANGED waiters
    ELSE at' = [places EXCEPT ![Head(waiters)] = "woken"] /\ waiters' = Tail(waiters)
WakeAll(places) ==
    /\ at' = [t \in Tickets |-> IF places[t] = "waiting" THEN "woken" ELSE places[t]]
    /\ waiters' = <<>>

(* checkout takes an idle connection, or a place to open one in, or queues. *)
Take(t) ==
    /\ at' = Moved(t, "using") /\ opened' = [opened EXCEPT ![t] = idle[Len(idle)]]
    /\ idle' = SubSeq(idle, 1, Len(idle) - 1) /\ UNCHANGED <<total, waiters>>
Open(t) ==
    /\ at' = Moved(t, "opening") /\ opened' = [opened EXCEPT ![t] = generation]
    /\ total' = total + 1 /\ UNCHANGED <<idle, waiters>>
Queue(t) ==
    /\ at' = Moved(t, "waiting") /\ waiters' = Append(waiters, t)
    /\ UNCHANGED <<idle, total, opened>>

TakesPlace(t) ==
    IF idle # <<>> THEN Take(t) ELSE IF total < Max THEN Open(t) ELSE Queue(t)

(* The loop of checkout, once round. *)
Checkout(t) ==
    IF closed \/ t \in cancelled
    THEN /\ at' = Moved(t, "done")
         /\ cancelled' = IF closed THEN cancelled ELSE cancelled \ {t}
         /\ UNCHANGED <<idle, total, waiters, opened>>
    ELSE TakesPlace(t) /\ UNCHANGED cancelled

(* Topology::run up to its first await: the command is selected the server, or    *)
(* has it pinned, the pool is made if there is none, and checkout begins.        *)
Run(t) ==
    /\ at[t] = "new" /\ (closed \/ t \in forgotten \/ known \/ t \in Pinned)
    /\ IF closed \/ t \in forgotten
       THEN /\ at' = Moved(t, "done")
            /\ forgotten' = IF closed THEN forgotten ELSE forgotten \ {t}
            /\ UNCHANGED <<made, idle, total, waiters, cancelled, opened>>
       ELSE made' = TRUE /\ Checkout(t) /\ UNCHANGED forgotten
    /\ UNCHANGED <<known, gens, missed, generation, closed, cut, error, wasted>>

(* No server is known until serverSelectionTimeoutMS has passed. *)
Unselected(t) ==
    /\ at[t] = "new" /\ ~known /\ at' = Moved(t, "done")
    /\ UNCHANGED <<topologyVars, poolVars, opened, cut, error, wasted>>

(* A command that waited looks again. *)
Woken(t) ==
    /\ at[t] \in {"woken", "leaving"} /\ Checkout(t)
    /\ wasted' = (wasted \/ (at[t] = "woken" /\ at'[t] = "done"))
    /\ UNCHANGED <<topologyVars, generation, closed, cut, error>>
-----------------------------------------------------------------------------
(* A network error, a failure to open, or a node that shuts down, on a          *)
(* connection of generation g, clears the pool unless it was cleared since.     *)
Clears(outcome, g) == outcome \in {"shutting down", "lost"} /\ g >= gens

(* Fault: an error of the generation that is current counts as stale. *)
JudgeStale(outcome, g) ==
    /\ known' = (known /\ (outcome = "fine" \/ g <= gens))
    /\ gens' = IF Clears(outcome, g - 1) THEN gens + 1 ELSE gens

(* application_error: what the outcome says of the server. *)
Judge(outcome, g) ==
    /\ known' = (known /\ (outcome = "fine" \/ g < gens))
    /\ gens' = IF Clears(outcome, g) THEN gens + 1 ELSE gens

(* Pool::clear when n connections are open, ids of them idle. *)
Clear(places, ids, n) ==
    /\ generation' = generation + 1 /\ total' = n - Len(ids) /\ idle' = <<>>
    /\ WakeAll(places)

(* Fault: nobody is woken. *)
GiveBackSilently(places, ids, n, clears) ==
    /\ missed' = IF clears /\ closed THEN missed + 1 ELSE missed
    /\ IF clears /\ ~closed THEN Clear(places, ids, n)
       ELSE total' = n /\ idle' = ids /\ at' = places /\ UNCHANGED <<waiters, generation>>

(* A command gives its place or its connection back, one waiter is woken, and    *)
(* the clear its outcome calls for follows without an await (apply), if the      *)
(* pool was not drained by close meanwhile.                                    *)
GiveBack(places, ids, n, clears) ==
    /\ missed' = IF clears /\ closed THEN missed + 1 ELSE missed
    /\ IF clears /\ ~closed THEN Clear(places, ids, n)
       ELSE total' = n /\ idle' = ids /\ WakeOne(places) /\ UNCHANGED generation

Bounded(outcome) == outcome \in {"shutting down", "lost"} => gens < MaxGens

(* Pool::open succeeds: the command runs, or was cancelled meanwhile. *)
Opened(t) ==
    /\ at[t] = "opening"
    /\ IF t \in cut
       THEN /\ GiveBack(Moved(t, "closing"), idle, total - 1, FALSE)
            /\ error' = [error EXCEPT ![t] = "fine"]
       ELSE at' = Moved(t, "using") /\ UNCHANGED <<error, total, idle, waiters, generation, missed>>
    /\ UNCHANGED <<known, gens, made, forgotten, cancelled, closed, opened, cut, wasted>>

(* Nothing of a command that is done is kept. *)
Forget(t) ==
    /\ opened' = [opened EXCEPT ![t] = 0] /\ cut' = cut \ {t}
    /\ error' = [error EXCEPT ![t] = "fine"]

(* Fault: a failed open keeps its place in the count. *)
OpenFailsKeepsPlace(t) ==
    /\ at[t] = "opening" /\ Bounded("lost")
    /\ LET outcome == IF t \in cut THEN "fine" ELSE "lost" IN
       /\ Judge(outcome, opened[t])
       /\ GiveBack(Moved(t, "done"), idle, total, Clears(outcome, opened[t]))
    /\ Forget(t) /\ UNCHANGED <<made, forgotten, cancelled, closed, wasted>>

(* It fails: the place is given back and the failure judged at once. *)
OpenFails(t) ==
    /\ at[t] = "opening" /\ Bounded("lost")
    /\ LET outcome == IF t \in cut THEN "fine" ELSE "lost" IN
       /\ Judge(outcome, opened[t])
       /\ GiveBack(Moved(t, "done"), idle, total - 1, Clears(outcome, opened[t]))
    /\ Forget(t) /\ UNCHANGED <<made, forgotten, cancelled, closed, wasted>>

(* What checkin keeps: a sound connection of the current generation. *)
Keeps(t, outcome) == outcome # "lost" /\ ~closed /\ t \notin cut /\ opened[t] = generation

(* The exchange ends and checkin takes the connection back; one it does not      *)
(* keep is closed, over an await, before the outcome is judged.                 *)
Reply(t, outcome) ==
    /\ at[t] = "using" /\ Bounded(outcome)
    /\ IF Keeps(t, outcome)
       THEN /\ Judge(outcome, generation) /\ Forget(t)
            /\ GiveBack(Moved(t, "done"), Append(idle, opened[t]), total,
                        Clears(outcome, generation))
       ELSE /\ GiveBack(Moved(t, "closing"), idle, total - 1, FALSE)
            /\ error' = [error EXCEPT ![t] = IF t \in cut /\ outcome = "lost" THEN "fine"
                                             ELSE outcome]
            /\ UNCHANGED <<known, gens, opened, cut>>
    /\ UNCHANGED <<made, forgotten, cancelled, closed, wasted>>

(* Its connection is closed: the rest of Topology::run.  A reply that carries an  *)
(* error is judged by the generation of now, a lost connection by its own.       *)
Settle(t) ==
    /\ at[t] = "closing"
    /\ LET g == IF error[t] = "lost" THEN opened[t] ELSE generation
           clears == Clears(error[t], g) IN
       /\ Judge(error[t], g)
       /\ missed' = IF clears /\ closed THEN missed + 1 ELSE missed
       /\ IF clears /\ ~closed THEN Clear(Moved(t, "done"), idle, total)
          ELSE at' = Moved(t, "done") /\ UNCHANGED <<generation, idle, total, waiters>>
    /\ Forget(t) /\ UNCHANGED <<made, forgotten, cancelled, closed, wasted>>
-----------------------------------------------------------------------------
(* check, of the monitor: it reads nothing of this before it has its answer. *)
CheckAnswers ==
    /\ known' = TRUE
    /\ UNCHANGED <<gens, made, missed, forgotten, poolVars, commandVars>>

CheckFails ==
    /\ gens < MaxGens /\ gens' = gens + 1 /\ known' = FALSE
    /\ IF made /\ ~closed
       THEN Clear(at, idle, total) /\ UNCHANGED missed
       ELSE missed' = missed + 1 /\ UNCHANGED <<generation, idle, total, waiters, at>>
    /\ UNCHANGED <<made, forgotten, cancelled, closed, opened, cut, error, wasted>>

(* The queue without t, which is in it once. *)
Without(t) ==
    IF \E i \in DOMAIN waiters : waiters[i] = t
    THEN LET i == CHOOSE i \in DOMAIN waiters : waiters[i] = t
         IN  SubSeq(waiters, 1, i - 1) \o SubSeq(waiters, i + 1, Len(waiters))
    ELSE waiters

(* cancel, of the topology and of the pool. *)
Cancel(t) ==
    /\ t \in Abortable /\ ~closed /\ at[t] # "done" /\ t \notin forgotten \cup cancelled \cup cut
    /\ CASE at[t] = "new" ->
            forgotten' = forgotten \cup {t} /\ UNCHANGED <<cancelled, waiters, at, cut>>
         [] at[t] \in {"opening", "using"} ->
            cut' = cut \cup {t} /\ UNCHANGED <<forgotten, cancelled, waiters, at>>
         [] at[t] = "waiting" ->
            /\ cancelled' = cancelled \cup {t} /\ at' = Moved(t, "leaving")
            /\ waiters' = Without(t)
            /\ UNCHANGED <<forgotten, cut>>
         [] at[t] \in {"woken", "leaving", "closing"} ->
            cancelled' = cancelled \cup {t} /\ UNCHANGED <<forgotten, waiters, at, cut>>
    /\ UNCHANGED <<known, gens, made, missed, generation, idle, total, closed,
                   opened, error, wasted>>

(* close, of the topology and of the pool. *)
Close ==
    /\ ~closed /\ closed' = TRUE
    /\ total' = total - Len(idle) /\ idle' = <<>> /\ WakeAll(at)
    /\ UNCHANGED <<topologyVars, generation, cancelled, opened, cut, error, wasted>>
-----------------------------------------------------------------------------
Progress(t) ==
    \/ Woken(t) \/ Opened(t) \/ OpenFails(t) \/ Settle(t)
    \/ \E outcome \in Outcomes : Reply(t, outcome)

Stopped == (\A t \in Tickets : at[t] = "done") /\ UNCHANGED vars

Next ==
    \/ \E t \in Tickets : Run(t) \/ Unselected(t) \/ Progress(t) \/ Cancel(t)
    \/ CheckAnswers \/ CheckFails \/ Close \/ Stopped

(* A woken task is polled; connects, exchanges and closes end. *)
Spec == Init /\ [][Next]_vars /\ \A t \in Tickets : WF_vars(Progress(t))
-----------------------------------------------------------------------------
(* The count is exact on every path (failed and cancelled opens, check-ins that   *)
(* keep or close, clears, the close) and the limit holds: a place that is not     *)
(* given back would be lost to the pool for good.                              *)
CountExact == total = Len(idle) + Cardinality(Holders) /\ total <= Max

(* A clear takes effect on every idle connection, also on one that was checked    *)
(* out or being opened when it came: none of an earlier generation, and none in   *)
(* a closed pool, is ever there to be handed out.                              *)
IdleCurrent == \A i \in DOMAIN idle : idle[i] = generation /\ ~closed

(* The topology's generation of the server is ahead of its pool's by exactly the  *)
(* failed checks that came before the pool was made.                            *)
GenerationGap == ~closed => gens = generation + missed

Free == Len(idle) + (Max - total)

(* Every place that became free while commands wait has a command on its way to   *)
(* it, unless one that was on its way was cancelled.                           *)
NobodyStranded ==
    waiters # <<>> /\ ~wasted => Cardinality(In({"woken"})) >= Free

(* A connection of the current generation that is lost marks the server Unknown    *)
(* and clears its pool, so that no other command is sent down its like.           *)
LostClears(t) ==
    /\ at[t] = "closing" /\ at'[t] = "done" /\ ~closed
    /\ error[t] = "lost" /\ opened[t] = generation
    => ~known' /\ generation' = generation + 1

LossClears == [][missed = 0 => \A t \in Tickets : LostClears(t)]_vars

(* What a client of the pool sees of a place. *)
Seen(p) ==
    CASE p = "new" -> "out"
      [] p \in {"waiting", "woken", "leaving"} -> "queued"
      [] p \in {"opening", "using"} -> "served"
      [] p \in {"closing", "done"} -> "left"

(* MongoPool implements BoundedPool: at no time more than Max commands have a      *)
(* connection or open one, and one is queued only when Max have (checkout).      *)
Bounds == INSTANCE BoundedPool WITH
    Clients <- Tickets, Max <- Max, place <- [t \in Tickets |-> Seen(at[t])]
ImplementsBounded == Bounds!Spec
=============================================================================
