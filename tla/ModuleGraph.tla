---------------------------- MODULE ModuleGraph ----------------------------
(***************************************************************************)
(* The module registry: build_graph loads a module graph and its imports      *)
(* (crates/runtime/src/lib.rs), the engine instantiates and evaluates it and  *)
(* records which modules failed, so that import() of one rejects instead of   *)
(* evaluating it again (crates/engine/src/module.rs). V8's own part, the       *)
(* depth-first linking and evaluation of ECMA-262, is external.               *)
(***************************************************************************)
EXTENDS Naturals, Sequences, FiniteSets

CONSTANTS
    Modules, Entry,
    Imports,     \* the static imports of each module
    Throws,      \* modules whose body may throw
    Tla,         \* modules with a top-level await
    Flaky,       \* modules whose load may fail
    Requests     \* the import() calls the program makes

None == "none"
Main == "main"   \* the request for the entry module

ASSUME ModuleGraphAssumption ==
    /\ Entry \in Modules /\ Imports \in [Modules -> SUBSET Modules]
    /\ Throws \cup Tla \cup Flaky \subseteq Modules
    /\ None \notin Modules /\ Main \notin Requests

VARIABLES
    pc,         \* tick, settle, micro: the phases of a tick; host: the driver's
                \* process_dynamic_imports; load, link, evaluate: within it
    job,        \* the request being loaded and evaluated
    frontier,   \* build_graph's frontier
    walked,     \* the modules whose imports are in its resolved map
    compiled,   \* Runtime.module_map
    deps,       \* ModuleRegistry.deps, as the referrers recorded
    errored, evaluated_ok,
    pending,    \* pending_dynamic
    batch,      \* what process_dynamic_imports took of it
    settling,   \* dynamic_settling, in link order
    rejecting,  \* dynamic_rejecting
    target,     \* the module each request names
    promise,    \* the state of each import() promise
    status,     \* V8: the state of each module
    stack,      \* V8: the path of the evaluation under way
    awaiting,   \* V8: the async modules each async module waits for
    cycleRoot   \* V8: the module each evaluated module settles with

loader == <<frontier, walked, compiled>>
tables == <<deps, errored, evaluated_ok>>
queues == <<pending, batch, settling, rejecting>>
v8 == <<status, stack, awaiting, cycleRoot>>
vars == <<pc, job, loader, tables, queues, target, promise, v8>>

(* The modules that are in every set with m that is closed under next: those   *)
(* that next leads to from m.                                                *)
Reach(next, m) ==
    {x \in Modules :
        \A S \in SUBSET Modules : m \in S /\ (\A y \in S : next[y] \subseteq S) => x \in S}

(* reachable: over the imports that these referrers have recorded. *)
ReachOver(referrers, m) ==
    Reach([r \in Modules |-> IF r \in referrers THEN Imports[r] ELSE {}], m)

GraphOf == [m \in Modules |-> Reach(Imports, m)]
Graph(m) == GraphOf[m]
Cycle(m) == {x \in Graph(m) : m \in Graph(x)}

(* What a module's evaluation promise says: that of its cycle's root. *)
SettlesWith(m) == IF cycleRoot[m] = None THEN m ELSE cycleRoot[m]
Fulfilled(m) == status[SettlesWith(m)] = "evaluated"
Rejected(m) == status[SettlesWith(m)] = "errored"

TypeOK ==
    /\ pc \in {"load", "link", "evaluate", "tick", "settle", "micro", "host", "dead"}
    /\ job \in Requests \cup {Main}
    /\ frontier \cup walked \subseteq compiled /\ compiled \subseteq Modules
    /\ deps \cup errored \cup evaluated_ok \subseteq compiled
    /\ pending \cup batch \cup rejecting \subseteq Requests
    /\ settling \in Seq(Requests)
    /\ target \in [Requests \cup {Main} -> Modules \cup {None}]
    /\ promise \in [Requests -> {"idle", "pending", "resolved", "failed", "rejected"}]
    /\ status \in [Modules -> {"unlinked", "linked", "evaluating", "ran", "async",
                               "evaluated", "errored"}]
    /\ stack \in Seq(Modules) /\ awaiting \in [Modules -> SUBSET Modules]
    /\ cycleRoot \in [Modules -> Modules \cup {None}]

Init ==
    /\ pc = "load" /\ job = Main /\ frontier = {Entry} /\ walked = {} /\ compiled = {Entry}
    /\ deps = {} /\ errored = {} /\ evaluated_ok = {}
    /\ pending = {} /\ batch = {} /\ settling = <<>> /\ rejecting = {}
    /\ target = [q \in Requests \cup {Main} |-> IF q = Main THEN Entry ELSE None]
    /\ promise = [q \in Requests |-> "idle"]
    /\ status = [m \in Modules |-> "unlinked"] /\ stack = <<>>
    /\ awaiting = [m \in Modules |-> {}] /\ cycleRoot = [m \in Modules |-> None]

-----------------------------------------------------------------------------
(* JavaScript calls import(): dynamic_import_inner queues the request. *)
Import(q, m) ==
    /\ pc \in {"tick", "micro", "evaluate"} /\ promise[q] = "idle"
    /\ pending' = pending \cup {q} /\ target' = [target EXCEPT ![q] = m]
    /\ promise' = [promise EXCEPT ![q] = "pending"]
    /\ UNCHANGED <<pc, job, loader, tables, batch, settling, rejecting, v8>>

(* The job's graph could not be loaded or linked. *)
JobFails ==
    /\ frontier' = {} /\ walked' = {}
    /\ IF job = Main THEN pc' = "dead" /\ UNCHANGED rejecting
                     ELSE pc' = "host" /\ rejecting' = rejecting \cup {job}

(* process_dynamic_imports takes what is pending, then one request at a time;  *)
(* the module it names is compiled, unless it is known.                       *)
TakePending ==
    /\ pc = "host" /\ batch = {} /\ pending # {}
    /\ batch' = pending /\ pending' = {}
    /\ UNCHANGED <<pc, job, loader, tables, settling, rejecting, target, promise, v8>>

LoadForDynamicImport(q) ==
    /\ pc = "host" /\ q \in batch /\ batch' = batch \ {q} /\ job' = q
    /\ \/ /\ pc' = "load" /\ frontier' = {target[q]} /\ walked' = {}
          /\ compiled' = compiled \cup {target[q]}
          /\ UNCHANGED rejecting
       \/ /\ target[q] \in Flaky \ compiled
          /\ rejecting' = rejecting \cup {q} /\ UNCHANGED <<pc, frontier, walked, compiled>>
    /\ UNCHANGED <<tables, pending, settling, target, promise, v8>>

(* Fault: only imports of the root are walked themselves. *)
WalkRootOnly(m) ==
    /\ pc = "load" /\ m \in frontier
    /\ compiled' = compiled \cup Imports[m] /\ walked' = walked \cup {m}
    /\ frontier' = (frontier \ {m}) \cup (IF m = target[job] THEN Imports[m] \ compiled ELSE {})
    /\ UNCHANGED <<pc, job, tables, queues, target, promise, v8>>

(* build_graph resolves the imports of one module; the ones not yet compiled   *)
(* are loaded and join the frontier.                                         *)
Walk(m) ==
    /\ pc = "load" /\ m \in frontier
    /\ compiled' = compiled \cup Imports[m] /\ walked' = walked \cup {m}
    /\ frontier' = (frontier \ {m}) \cup (Imports[m] \ compiled)
    /\ UNCHANGED <<pc, job, tables, queues, target, promise, v8>>

(* A load fails: what was compiled before it stays in the module map. *)
WalkFails(m, before) ==
    /\ pc = "load" /\ m \in frontier
    /\ before \subseteq Imports[m] \ compiled /\ (Imports[m] \ (compiled \cup before)) \cap Flaky # {}
    /\ JobFails /\ compiled' = compiled \cup before
    /\ UNCHANGED <<job, tables, pending, batch, settling, target, promise, v8>>

(* The modules linking a root would link: V8 stops at linked ones. *)
ToLink(root) ==
    IF status[root] # "unlinked" THEN {}
    ELSE LET fresh == {m \in Modules : status[m] = "unlinked"}
         IN  Reach([m \in Modules |-> IF m \in fresh THEN Imports[m] \cap fresh ELSE {}], root)

(* The referrers the resolve callback will be asked about. *)
Resolving == {m \in ToLink(target[job]) : Imports[m] # {}}

Linked == [m \in Modules |-> IF m \in ToLink(target[job]) THEN "linked" ELSE status[m]]

(* instantiate records the edges and links what is not linked. *)
Instantiate ==
    /\ pc = "load" /\ frontier = {} /\ Resolving \subseteq walked
    /\ pc' = "link" /\ deps' = deps \cup walked /\ status' = Linked
    /\ UNCHANGED <<job, loader, errored, evaluated_ok, queues, target, promise,
                   stack, awaiting, cycleRoot>>

(* An import that is not in the resolved map fails the instantiation. *)
InstantiateFails ==
    /\ pc = "load" /\ frontier = {} /\ ~ Resolving \subseteq walked
    /\ deps' = deps \cup walked /\ JobFails
    /\ UNCHANGED <<job, compiled, errored, evaluated_ok, pending, batch, settling, target,
                   promise, v8>>

(* The root is evaluated: V8 starts unless it has been started before. *)
Evaluate(m) ==
    /\ IF status[m] = "linked"
       THEN /\ pc' = "evaluate" /\ stack' = <<m>>
            /\ status' = [status EXCEPT ![m] = "evaluating"] /\ UNCHANGED settling
       ELSE /\ pc' = "host" /\ settling' = Append(settling, job)
            /\ UNCHANGED <<status, stack>>
    /\ UNCHANGED <<job, loader, tables, pending, batch, rejecting, target, promise,
                   awaiting, cycleRoot>>

EvaluateEntry == pc = "link" /\ job = Main /\ Evaluate(Entry)

(* link_dynamic rejects a module known to have failed, and evaluates another. *)
LinkDynamic ==
    /\ pc = "link" /\ job # Main
    /\ IF target[job] \in errored
       THEN /\ pc' = "host" /\ rejecting' = rejecting \cup {job}
            /\ UNCHANGED <<job, loader, tables, pending, batch, settling, target, promise, v8>>
       ELSE Evaluate(target[job])

-----------------------------------------------------------------------------
(* V8's evaluation: down to imports that have not run, then the module itself. *)
Top == stack[Len(stack)]
Below == SubSeq(stack, 1, Len(stack) - 1)
OnPath(s) == {s[i] : i \in 1..Len(s)}
Needs == {SettlesWith(d) : d \in Imports[Top]}

Descend(d) ==
    /\ pc = "evaluate" /\ d \in Imports[Top] /\ status[d] = "linked"
    /\ stack' = Append(stack, d) /\ status' = [status EXCEPT ![d] = "evaluating"]
    /\ UNCHANGED <<pc, job, loader, tables, queues, target, promise, awaiting, cycleRoot>>

(* The evaluation of the job is over when the path is. *)
Pop(s) ==
    /\ stack' = s
    /\ IF s # <<>> THEN UNCHANGED <<pc, settling>>
       ELSE IF job = Main THEN pc' = "tick" /\ UNCHANGED settling
       ELSE pc' = "host" /\ settling' = Append(settling, job)

ReadyToRun == pc = "evaluate" /\ \A d \in Imports[Top] : status[d] # "linked"

(* The body ends, or awaits; a cycle whose modules have all run is closed. *)
Run ==
    /\ ReadyToRun /\ \A d \in Needs : status[d] # "errored"
    /\ LET waits == {d \in Needs : status[d] = "async"}
           ran == IF Top \in Tla \/ waits # {} THEN "async" ELSE "ran"
           closed == Cycle(Top) \cap OnPath(Below) = {}
       IN  /\ awaiting' = [awaiting EXCEPT ![Top] = waits]
           /\ status' = [m \in Modules |->
                IF closed /\ m \in Cycle(Top) /\ (m = Top \/ status[m] = "ran")
                THEN (IF m = Top /\ ran = "async" THEN "async" ELSE "evaluated")
                ELSE IF m = Top THEN ran ELSE status[m]]
           /\ cycleRoot' = [m \in Modules |->
                IF closed /\ m \in Cycle(Top) /\ status[m] \in {"evaluating", "ran", "async"}
                THEN Top ELSE cycleRoot[m]]
    /\ Pop(Below)
    /\ UNCHANGED <<job, loader, tables, pending, batch, rejecting, target, promise>>

(* The body throws, or an import has failed: everything under way has. *)
Throw ==
    /\ ReadyToRun
    /\ \/ \E d \in Needs : status[d] = "errored"
       \/ Top \in Throws \ Tla /\ \A d \in Needs : status[d] # "async"
    /\ status' = [m \in Modules |->
          IF status[m] \in {"evaluating", "ran"} \/ (status[m] = "async" /\ cycleRoot[m] = None)
          THEN "errored" ELSE status[m]]
    /\ Pop(<<>>)
    /\ UNCHANGED <<job, loader, tables, pending, batch, rejecting, target, promise, awaiting, cycleRoot>>

(* A microtask ends an async module; a failure fails what waits for it. *)
Waiters(m) == {m} \cup {x \in Modules : status[x] = "async" /\ m \in Reach(awaiting, x)}

AsyncEnds(m, fails) ==
    /\ pc = "micro" /\ status[m] = "async" /\ \A d \in awaiting[m] : status[d] # "async"
    /\ fails => m \in Throws
    /\ status' = [x \in Modules |->
          IF x = m /\ ~fails THEN "evaluated"
          ELSE IF fails /\ x \in Waiters(m) THEN "errored" ELSE status[x]]
    /\ UNCHANGED <<pc, job, loader, tables, queues, target, promise, stack, awaiting, cycleRoot>>

-----------------------------------------------------------------------------
(* settle_dynamic: the queued rejections, then each import whose evaluation    *)
(* has ended.                                                                *)
SettleBegin ==
    /\ pc = "tick" /\ pc' = "settle" /\ rejecting' = {}
    /\ promise' = [q \in Requests |-> IF q \in rejecting THEN "rejected" ELSE promise[q]]
    /\ UNCHANGED <<job, loader, tables, pending, batch, settling, target, v8>>

(* The imports whose evaluation has ended, the first one next. *)
Ended(i) == Fulfilled(target[settling[i]]) \/ Rejected(target[settling[i]])
NextToSettle(i) == Ended(i) /\ \A j \in 1..(i - 1) : ~ Ended(j)
Without(i) == SubSeq(settling, 1, i - 1) \o SubSeq(settling, i + 1, Len(settling))

(* Fault: an import resolves once its evaluation has begun. *)
SettleOkEarly(i) ==
    /\ pc = "settle" /\ ~ Rejected(target[settling[i]])
    /\ evaluated_ok' = evaluated_ok \cup ReachOver(deps, target[settling[i]])
    /\ promise' = [promise EXCEPT ![settling[i]] = "resolved"] /\ settling' = Without(i)
    /\ UNCHANGED <<pc, job, loader, deps, errored, pending, batch, rejecting, target, v8>>

(* mark_graph_ok *)
SettleOk(i) ==
    /\ pc = "settle" /\ NextToSettle(i) /\ Fulfilled(target[settling[i]])
    /\ evaluated_ok' = evaluated_ok \cup ReachOver(deps, target[settling[i]])
    /\ promise' = [promise EXCEPT ![settling[i]] = "resolved"] /\ settling' = Without(i)
    /\ UNCHANGED <<pc, job, loader, deps, errored, pending, batch, rejecting, target, v8>>

(* Fault: only the root of the graph is marked. *)
SettleFailedRoot(i) ==
    /\ pc = "settle" /\ NextToSettle(i) /\ Rejected(target[settling[i]])
    /\ errored' = errored \cup {target[settling[i]]}
    /\ promise' = [promise EXCEPT ![settling[i]] = "failed"] /\ settling' = Without(i)
    /\ UNCHANGED <<pc, job, loader, deps, evaluated_ok, pending, batch, rejecting, target, v8>>

(* mark_graph_errored *)
SettleFailed(i) ==
    /\ pc = "settle" /\ NextToSettle(i) /\ Rejected(target[settling[i]])
    /\ errored' = errored \cup (ReachOver(deps, target[settling[i]]) \ evaluated_ok)
    /\ promise' = [promise EXCEPT ![settling[i]] = "failed"] /\ settling' = Without(i)
    /\ UNCHANGED <<pc, job, loader, deps, evaluated_ok, pending, batch, rejecting, target, v8>>

(* Fault: the imports still evaluating are not put back. *)
SettleDoneDropsPending ==
    /\ pc = "settle" /\ (\A i \in DOMAIN settling : ~ Ended(i)) /\ pc' = "micro"
    /\ settling' = <<>>
    /\ UNCHANGED <<job, loader, tables, pending, batch, rejecting, target, promise, v8>>

(* The imports still evaluating stay. *)
SettleDone ==
    /\ pc = "settle" /\ (\A i \in DOMAIN settling : ~ Ended(i)) /\ pc' = "micro"
    /\ UNCHANGED <<job, loader, tables, queues, target, promise, v8>>

Microtasks ==
    /\ pc = "micro" /\ pc' = "host"
    /\ UNCHANGED <<job, loader, tables, queues, target, promise, v8>>

(* The driver goes on unless the entry module has failed. *)
HostDone ==
    /\ pc = "host" /\ batch = {} /\ pending = {}
    /\ pc' = IF Rejected(Entry) THEN "dead" ELSE "tick"
    /\ UNCHANGED <<job, loader, tables, queues, target, promise, v8>>

Dead == pc = "dead" /\ UNCHANGED vars

Host ==
    \/ TakePending \/ Instantiate \/ InstantiateFails \/ EvaluateEntry \/ LinkDynamic
    \/ (\E q \in Requests : LoadForDynamicImport(q))
    \/ (\E i \in DOMAIN settling : SettleOk(i) \/ SettleFailed(i))
    \/ (\E m \in Modules : Walk(m) \/ Descend(m) \/ \E b \in SUBSET Modules : WalkFails(m, b))
    \/ Run \/ Throw \/ SettleBegin \/ SettleDone \/ Microtasks \/ HostDone

Guest == \E q \in Requests, m \in Modules : Import(q, m)

Ending == \E m \in Modules, b \in BOOLEAN : AsyncEnds(m, b)

Next == Host \/ Guest \/ Ending \/ Dead

(* Every await ends sooner or later, in some microtask checkpoint. *)
Spec == Init /\ [][Next]_vars /\ WF_vars(Host) /\ SF_vars(Ending)

-----------------------------------------------------------------------------
(* Once a failed import has been told so, import() of any module that failed    *)
(* with it is refused: the failure has reached every one of them.              *)
FailuresRecorded ==
    \A q \in Requests : promise[q] = "failed" =>
        \A m \in Graph(target[q]) : Rejected(m) => m \in errored

(* What holds of the tables of the loader at all times: their types, and the above. *)
GraphInv == TypeOK /\ FailuresRecorded

(* An import() that resolves hands out a module whose whole graph has run.     *)
ResolvesEvaluated ==
    \A q \in Requests : promise[q] = "resolved" =>
        \A m \in Graph(target[q]) : status[m] = "evaluated"

(* Every import() settles, unless the program fails.                          *)
ImportsSettle ==
    \A q \in Requests : promise[q] = "pending" ~> promise[q] # "pending" \/ pc = "dead"

(* The resolved map covers the graph to be linked, so that no instantiation fails  *)
(* on an import that was loaded, whatever graphs share modules.                   *)
CoversGraph == pc = "load" /\ frontier = {} => Resolving \subseteq walked

(* It does as long as no load has failed: a failed one leaves modules in the module  *)
(* map whose imports no later build_graph walks.                                 *)
CoversUnlessFailed ==
    rejecting = {} /\ (\A q \in Requests : promise[q] # "rejected") => CoversGraph
=============================================================================
