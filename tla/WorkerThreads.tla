---------------------------- MODULE WorkerThreads ----------------------------
(***************************************************************************)
(* Worker threads: who started whom, and how agents end                        *)
(* (default-providers/src/worker.rs, with class Worker of prelude/worker.js).   *)
(* Each agent has a thread; the main agent, which starts the first ones and is   *)
(* no entry of the registry, is Main.  An action is what one thread does while   *)
(* it holds the registry's lock, or between two awaits.                          *)
(***************************************************************************)
EXTENDS Integers, FiniteSets

CONSTANTS
    Agents,    \* the ids of workers: they count up and none is used twice
    Main,      \* the agent that drives the process
    MaxWorkers \* max_workers

ASSUME WorkerAssumption ==
    /\ Agents \subseteq Nat /\ IsFiniteSet(Agents) /\ Main \notin Agents
    /\ MaxWorkers \in Nat \ {0}

VARIABLES
    registry, \* ThreadWorkerHost.registry
    children, \* Live.children
    parent,   \* Live.parent
    stage,    \* where each thread is in run_worker
    closing,  \* Live.closed: terminate, self.close or the end of the agent set it
    killed,   \* its isolate was terminated
    joins,    \* the threads it waits for before it says it is closed
    strays    \* agents started by one that was no longer in the registry

agentVars == <<registry, children, parent, stage, closing, killed, joins, strays>>

(* building: the interrupt handle is not published yet; loading: the entry         *)
(* module is pending; running: it has settled; reaping: the drive is over.         *)
Stages == {"none", "building", "loading", "running", "reaping", "joining", "over"}

AtWork(a) == a = Main \/ (a \in Agents /\ stage[a] \in {"loading", "running"})
Threads == {a \in Agents : stage[a] \notin {"none", "over"}}

AgentTypeOK ==
    /\ registry \subseteq Agents /\ children \in [Agents -> SUBSET Agents]
    /\ parent \in [Agents -> Agents \cup {Main}] /\ stage \in [Agents -> Stages]
    /\ closing \subseteq Agents /\ killed \subseteq closing
    /\ joins \in [Agents -> SUBSET Agents] /\ strays \subseteq Agents
    /\ Cardinality(registry) <= MaxWorkers
    /\ \A a \in Agents : stage[a] = "none" => a \notin registry \cup closing

AgentInit ==
    /\ registry = {} /\ children = [a \in Agents |-> {}]
    /\ parent = [a \in Agents |-> Main] /\ stage = [a \in Agents |-> "none"]
    /\ closing = {} /\ killed = {} /\ joins = [a \in Agents |-> {}] /\ strays = {}
-----------------------------------------------------------------------------
To(a, s) == stage' = [stage EXCEPT ![a] = s]
NextId(a) == stage[a] = "none" /\ \A b \in Agents : stage[b] = "none" => a <= b

(* spawn, by an agent that runs code; it may have been terminated meanwhile and   *)
(* not have noticed.                                                           *)
Spawn(p, a) ==
    /\ AtWork(p) /\ NextId(a) /\ Cardinality(registry) < MaxWorkers
    /\ registry' = registry \cup {a} /\ parent' = [parent EXCEPT ![a] = p] /\ To(a, "building")
    /\ children' = IF p \in registry THEN [children EXCEPT ![p] = @ \cup {a}] ELSE children
    /\ strays' = IF p \in registry \cup {Main} THEN strays ELSE strays \cup {a}
    /\ UNCHANGED <<closing, killed, joins>>

(* run_worker: the runtime is built and the interrupt handle published, or not.    *)
Publish(a) ==
    /\ stage[a] = "building" /\ To(a, "loading")
    /\ UNCHANGED <<registry, children, parent, closing, killed, joins, strays>>
BuildFails(a) ==
    /\ stage[a] = "building" /\ To(a, "over")
    /\ UNCHANGED <<registry, children, parent, closing, killed, joins, strays>>

(* The entry module settles.  Until then the first drive does not look at closed.  *)
EntrySettles(a) ==
    /\ stage[a] = "loading" /\ To(a, "running")
    /\ UNCHANGED <<registry, children, parent, closing, killed, joins, strays>>

(* self.close, and what report_error does for an uncaught error. *)
SelfClose(a) ==
    /\ stage[a] \in {"loading", "running"} /\ a \notin closing
    /\ closing' = closing \cup {a}
    /\ UNCHANGED <<registry, children, parent, stage, killed, joins, strays>>

(* It runs out of work, its entry module fails, or its heap ends. *)
Finish(a) ==
    /\ stage[a] \in {"loading", "running"} /\ To(a, "reaping")
    /\ UNCHANGED <<registry, children, parent, closing, killed, joins, strays>>

(* Its drive notices that it is to end. *)
Notice(a) ==
    /\ \/ stage[a] = "running" /\ a \in closing
       \/ stage[a] = "loading" /\ a \in killed
    /\ To(a, "reaping")
    /\ UNCHANGED <<registry, children, parent, closing, killed, joins, strays>>
-----------------------------------------------------------------------------
(* take_subtree: a and whom it reaches through the child lists of entries.         *)
Subtree(a) ==
    {b \in registry : a \in registry /\ \A S \in SUBSET registry :
        a \in S /\ (\A x \in S : children[x] \cap registry \subseteq S) => b \in S}

(* unhook, for each of A. *)
Unhooked(A) ==
    [p \in Agents |-> IF p \in registry \ A THEN children[p] \ A ELSE children[p]]

(* stop_live, for each of A: the flag, and the isolate if its handle is there.      *)
Stop(A) ==
    /\ closing' = closing \cup A
    /\ killed' = killed \cup {b \in A : stage[b] # "building"}

(* terminate, by whoever started it: the subtree leaves the registry and every one  *)
(* of it is told to stop, before any is waited for.                               *)
Terminate(a) ==
    /\ AtWork(parent[a]) /\ a \in registry
    /\ registry' = registry \ Subtree(a) /\ children' = Unhooked({a})
    /\ Stop(Subtree(a)) /\ UNCHANGED <<parent, stage, joins, strays>>

(* Fault: an agent that ends leaves its children running. *)
ReapNothing(a) ==
    /\ stage[a] = "reaping" /\ To(a, "joining") /\ closing' = closing \cup {a}
    /\ UNCHANGED <<registry, children, parent, killed, joins, strays>>

(* Fault: it tells its children, and waits for their threads and those below. *)
ReapTellsChildren(a) ==
    /\ stage[a] = "reaping" /\ To(a, "joining")
    /\ LET orphans == UNION {Subtree(c) : c \in children[a]} IN
       /\ registry' = registry \ orphans /\ joins' = [joins EXCEPT ![a] = orphans]
       /\ children' = Unhooked(children[a] \cap registry)
       /\ Stop((children[a] \cap registry) \cup {a})
    /\ UNCHANGED <<parent, strays>>

(* The end of run_worker: the workers it started are stopped, *)
Reap(a) ==
    /\ stage[a] = "reaping" /\ To(a, "joining")
    /\ LET orphans == UNION {Subtree(c) : c \in children[a]} IN
       /\ registry' = registry \ orphans /\ joins' = [joins EXCEPT ![a] = orphans]
       /\ children' = Unhooked(children[a] \cap registry)
       /\ closing' = closing \cup orphans \cup {a}
       /\ killed' = killed \cup {b \in orphans : stage[b] # "building"}
    /\ UNCHANGED <<parent, strays>>

(* their threads joined, and Closed sent. *)
Joined(a) ==
    /\ stage[a] = "joining" /\ (\A b \in joins[a] : stage[b] = "over")
    /\ To(a, "over")
    /\ UNCHANGED <<registry, children, parent, closing, killed, joins, strays>>

(* recv: the parent sees Closed and retires it. *)
Retire(a) ==
    /\ a \in registry /\ stage[a] = "over" /\ AtWork(parent[a])
    /\ registry' = registry \ {a} /\ children' = Unhooked({a})
    /\ UNCHANGED <<parent, stage, closing, killed, joins, strays>>
-----------------------------------------------------------------------------
Ending(a) == Publish(a) \/ BuildFails(a) \/ Notice(a) \/ Reap(a) \/ Joined(a)

AgentNext ==
    \/ \E a \in Agents : \/ EntrySettles(a) \/ SelfClose(a) \/ Finish(a) \/ Terminate(a)
                         \/ Ending(a) \/ Retire(a)
                         \/ \E p \in Agents \cup {Main} : Spawn(p, a)
    \/ (\A a \in Agents : stage[a] = "over") /\ UNCHANGED agentVars

(* A thread that has something to do runs: a drive ticks again at the latest after  *)
(* its timer or the fallback park.  Nothing makes an entry module settle.           *)
AgentSpec ==
    /\ AgentInit /\ [][AgentNext]_agentVars
    /\ \A a \in Agents : WF_agentVars(Ending(a)) /\ WF_agentVars(Retire(a))
-----------------------------------------------------------------------------
(* An agent that was not told to end can be: it is in the registry, in the list of   *)
(* the agent that started it, and that one has not ended.  So no terminate and no    *)
(* end of an agent leaves one behind that nobody reaches, but for a stray and those  *)
(* it starts.                                                                     *)
Reachable ==
    \A a \in Threads \ closing :
        a \in strays \/ (a \in registry /\ (parent[a] = Main \/
            (a \in children[parent[a]] /\ stage[parent[a]] \in {"loading", "running", "reaping"})))

(* A child list holds entries only: an agent that starts one worker per job does      *)
(* not collect the ids of all of them.                                             *)
ListsPruned == \A p \in registry : children[p] \subseteq registry

(* Closed flag without interrupt, and an entry module that may never settle.           *)
Deaf == \E a \in closing \ killed : stage[a] \in {"building", "loading"}

(* What holds of the worker registry at all times, part by part as above. *)
AgentInv == AgentTypeOK /\ Reachable /\ ListsPruned

(* Whoever is told to end does, and nobody waits for ever for somebody else's thread,   *)
(* unless one is deaf for good; and an agent that has ended leaves the registry, for    *)
(* as long as the one that started it runs: it is no reason to keep the process.       *)
ToldEnd == <>[]~Deaf => <>[](\A a \in closing : stage[a] = "over")
Retired == <>[](\A a \in registry : stage[a] = "over" => ~AtWork(parent[a]))
AllEnd == ToldEnd /\ Retired
=============================================================================
