-------------------------- MODULE ModuleGraphProofs --------------------------
(***************************************************************************)
(* Theorems about ModuleGraph for every import graph and any requests: the    *)
(* tables of the registry hold what they say (GraphInv), an import() that      *)
(* resolves hands out a graph that has run whole (ResolvesEvaluated), and the  *)
(* resolved map covers what is linked until a load fails (CoversUnlessFailed). *)
(*                                                                          *)
(* They rest on what V8's evaluation keeps, EvalInv: a module that has run     *)
(* waits for those of its imports that have not ended, and a cycle ends when   *)
(* its root does.                                                            *)
(***************************************************************************)
EXTENDS ModuleGraph, TLAPS, SequenceTheorems

-----------------------------------------------------------------------------
(* V8's evaluation. A module has left the path, with its cycle still under way. *)
Left(m) == status[m] = "ran" \/ (status[m] = "async" /\ cycleRoot[m] = None)

(* Its cycle has run to its end. *)
Shut(m) == cycleRoot[m] # None

(* The modules on the path. *)
Under == OnPath(stack)

(* The path leads over imports from the root of the evaluation to the module that *)
(* runs, and holds the modules under evaluation, once each.                   *)
PathInv ==
    /\ pc = "evaluate" <=> stack # <<>>
    /\ \A m \in Modules : status[m] = "evaluating" <=> m \in Under
    /\ \A i, j \in 1..Len(stack) : i # j => stack[i] # stack[j]
    /\ \A i \in 1..Len(stack) - 1 : stack[i + 1] \in Imports[stack[i]]
    /\ \A i, j \in 1..Len(stack) : i <= j => stack[j] \in Graph(stack[i])

(* Imports are linked with their module. *)
LinkInv == \A m \in Modules : status[m] # "unlinked" => \A d \in Imports[m] : status[d] # "unlinked"

(* A module that has left the path is in a cycle with one that is on it, and so are  *)
(* its imports, but for those whose cycle has ended.                           *)
LeftInv ==
    \A m \in Modules : Left(m) =>
        /\ \E s \in Under : s \in Cycle(m)
        /\ \A d \in Imports[m] : Shut(d) \/ (d \in Cycle(m) /\ (Left(d) \/ d \in Under))

(* A cycle ends as a whole, after its imports. *)
ShutInv ==
    /\ \A m \in Modules : Shut(m) =>
        /\ cycleRoot[m] \in Cycle(m)
        /\ status[m] \in {"async", "evaluated", "errored"}
        /\ \A x \in Cycle(m) : cycleRoot[x] = cycleRoot[m]
        /\ \A d \in Imports[m] : Shut(d)
    /\ \A m \in Modules : status[m] = "evaluated" => Shut(m)

(* What has begun and awaits is awaited in turn: before its cycle ends by an import  *)
(* of a module on the path, then by the root of the cycle.                      *)
AwaitedInv ==
    /\ \A m \in Modules : Left(m) /\ status[m] = "async" =>
        \E s \in Under : s \in Cycle(m) /\
            \E y \in Imports[s] : /\ y \in Cycle(m) /\ status[y] = "async" /\ Left(y)
                                  /\ m \in Reach(awaiting, y)
    /\ \A m \in Modules : Shut(m) /\ status[m] = "async" => m \in Reach(awaiting, cycleRoot[m])

(* A cycle has ended well only if all of it has, and badly if any of it has. *)
RootInv ==
    \A m \in Modules : Shut(m) =>
        /\ status[cycleRoot[m]] = "evaluated" => status[m] = "evaluated"
        /\ status[m] = "errored" => status[cycleRoot[m]] = "errored"

(* What a module waits for has not failed while it waits, and has ended when it ends. *)
WaitsInv ==
    \A m \in Modules :
        /\ status[m] \notin {"async", "evaluated", "errored"} => awaiting[m] = {}
        /\ \A d \in awaiting[m] :
              /\ status[m] = "evaluated" => status[d] = "evaluated"
              /\ status[m] = "async" => status[d] \in {"async", "evaluated"}
              /\ Left(m) \/ Shut(m) => Shut(d) \/ d \in Imports[m]

(* A module that has run waits for the cycles it imports that have not ended. *)
NeedsInv ==
    \A m \in Modules : Left(m) \/ Shut(m) =>
        \A d \in Imports[m] : Shut(d) /\ d \notin Cycle(m) =>
            status[cycleRoot[d]] = "evaluated" \/ cycleRoot[d] \in awaiting[m]

(* What V8's evaluation keeps. *)
EvalInv ==
    PathInv /\ LinkInv /\ LeftInv /\ ShutInv /\ AwaitedInv /\ RootInv /\ WaitsInv /\ NeedsInv

-----------------------------------------------------------------------------
(* The registry. What was walked has its imports in the module map, and so does what *)
(* is being loaded or settled; a linked referrer is in deps.                    *)
InFlight(q) ==
    \/ q = job /\ pc \in {"load", "link", "evaluate"}
    \/ q \in OnPath(settling)

MapInv ==
    /\ \A m \in deps \cup walked : Imports[m] \subseteq compiled
    /\ \A m \in Modules : status[m] # "unlinked" /\ Imports[m] # {} => m \in deps
    /\ \A q \in Requests \cup {Main} : InFlight(q) => target[q] \in compiled
    /\ target[Main] = Entry
    /\ \A q \in Requests : promise[q] # "idle" => target[q] \in Modules
    /\ job = Main =>
          /\ pc = "load" => \A m \in Modules : status[m] = "unlinked"
          /\ pc = "link" => status[Entry] = "linked"

(* What the tables say of modules that have been told. *)
ToldInv ==
    /\ \A m \in evaluated_ok : Fulfilled(m)
    /\ \A q \in Requests : promise[q] = "resolved" => Fulfilled(target[q])
    /\ \A q \in Requests : promise[q] = "failed" => Graph(target[q]) \subseteq errored \cup evaluated_ok

(* A request is in one place, from import() to its answer. *)
PlacesInv ==
    /\ pending \cap batch = {} /\ (pending \cup batch) \cap rejecting = {}
    /\ \A i, j \in DOMAIN settling : i # j => settling[i] # settling[j]
    /\ OnPath(settling) \cap (pending \cup batch \cup rejecting) = {}
    /\ pc \in {"load", "link", "evaluate"} =>
          job \notin pending \cup batch \cup rejecting \cup OnPath(settling)
    /\ \A q \in Requests : q \in pending \cup batch \cup rejecting \/ InFlight(q) => promise[q] = "pending"

(* Until a load fails, the module map is what is linked and what this build_graph has  *)
(* found, all of it on the way from the root over modules not linked.            *)
LoadFailed == pc = "dead" \/ rejecting # {} \/ \E q \in Requests : promise[q] = "rejected"
CoverInv ==
    ~LoadFailed =>
        /\ \A m \in Modules : status[m] # "unlinked" => m \in compiled
        /\ \A m \in compiled :
              status[m] # "unlinked" \/ (pc = "load" /\ m \in walked \cup frontier)
        /\ pc = "load" => \A m \in walked \cup frontier :
              status[m] # "unlinked" \/ m \in ToLink(target[job])

(* The inductive invariant. *)
AllInv == TypeOK /\ EvalInv /\ MapInv /\ ToldInv /\ PlacesInv /\ CoverInv

-----------------------------------------------------------------------------
(* What Reach returns: a set of modules with its start, closed under next, and the *)
(* least such set.                                                           *)
LEMMA ReachSelf == ASSUME NEW next, NEW m \in Modules PROVE m \in Reach(next, m)
  BY DEF Reach

(* Reach names modules only. *)
LEMMA ReachModules == ASSUME NEW next, NEW m PROVE Reach(next, m) \subseteq Modules
  BY DEF Reach

(* A closed set that holds the start holds all that is reached. *)
LEMMA ReachLeast ==
    ASSUME NEW next, NEW S \in SUBSET Modules, NEW m \in S, \A y \in S : next[y] \subseteq S
    PROVE  Reach(next, m) \subseteq S
  BY DEF Reach

(* What is reached is closed under next. *)
LEMMA ReachNext ==
    ASSUME NEW next \in [Modules -> SUBSET Modules], NEW m, NEW x \in Reach(next, m)
    PROVE  next[x] \subseteq Reach(next, m)
<1> SUFFICES ASSUME NEW d \in next[x] PROVE d \in Reach(next, m)
  OBVIOUS
<1>1. x \in Modules
  BY ReachModules
<1>2. d \in Modules
  BY <1>1
<1> SUFFICES ASSUME NEW S \in SUBSET Modules, m \in S, \A y \in S : next[y] \subseteq S
             PROVE  d \in S
  BY <1>2 DEF Reach
<1>3. x \in S
  BY DEF Reach
<1> QED
  BY <1>3

(* Reach is transitive. *)
LEMMA ReachTrans ==
    ASSUME NEW next \in [Modules -> SUBSET Modules], NEW m, NEW x \in Reach(next, m)
    PROVE  Reach(next, x) \subseteq Reach(next, m)
<1>1. Reach(next, m) \in SUBSET Modules
  BY ReachModules
<1>2. \A y \in Reach(next, m) : next[y] \subseteq Reach(next, m)
  BY ReachNext
<1> QED
  BY <1>1, <1>2, ReachLeast

(* More edges reach no less. *)
LEMMA ReachMono ==
    ASSUME NEW f \in [Modules -> SUBSET Modules], NEW g \in [Modules -> SUBSET Modules],
           \A x \in Modules : f[x] \subseteq g[x], NEW m \in Modules
    PROVE  Reach(f, m) \subseteq Reach(g, m)
<1>1. Reach(g, m) \in SUBSET Modules /\ m \in Reach(g, m)
  BY ReachModules, ReachSelf
<1>2. \A y \in Reach(g, m) : f[y] \subseteq Reach(g, m)
  <2> TAKE y \in Reach(g, m)
  <2>1. y \in Modules
    BY <1>1
  <2>2. g[y] \subseteq Reach(g, m)
    BY ReachNext
  <2> QED
    BY <2>1, <2>2
<1> QED
  BY <1>1, <1>2, ReachLeast

(* The graph of a module: itself, its imports, and theirs. *)
LEMMA GraphFacts ==
    ASSUME NEW m \in Modules
    PROVE  /\ m \in Graph(m) /\ Graph(m) \subseteq Modules /\ Imports[m] \subseteq Graph(m)
           /\ \A x \in Graph(m) : Imports[x] \subseteq Graph(m) /\ Graph(x) \subseteq Graph(m)
<1>i. Imports \in [Modules -> SUBSET Modules]
  BY ModuleGraphAssumption
<1>1. \A x \in Modules : Graph(x) = Reach(Imports, x)
  BY DEF Graph, GraphOf
<1>2. m \in Graph(m) /\ Graph(m) \subseteq Modules
  BY <1>1, ReachSelf, ReachModules
<1>3. \A x \in Graph(m) : Imports[x] \subseteq Graph(m)
  BY <1>i, <1>1, ReachNext
<1>4. \A x \in Graph(m) : Graph(x) \subseteq Graph(m)
  BY <1>i, <1>1, <1>2, ReachTrans
<1> QED
  BY <1>2, <1>3, <1>4

(* A set closed under imports that has a module has its graph. *)
LEMMA GraphLeast ==
    ASSUME NEW S \in SUBSET Modules, NEW m \in S, \A y \in S : Imports[y] \subseteq S
    PROVE  Graph(m) \subseteq S
<1>1. Graph(m) = Reach(Imports, m)
  BY DEF Graph, GraphOf
<1> QED
  BY <1>1, ReachLeast

(* To be in one cycle is an equivalence. *)
LEMMA CycleFacts ==
    ASSUME NEW m \in Modules
    PROVE  /\ m \in Cycle(m) /\ Cycle(m) \subseteq Modules /\ Cycle(m) \subseteq Graph(m)
           /\ \A x \in Cycle(m) : m \in Cycle(x) /\ Cycle(x) = Cycle(m) /\ m \in Graph(x)
<1>1. m \in Cycle(m) /\ Cycle(m) \subseteq Modules /\ Cycle(m) \subseteq Graph(m)
  BY GraphFacts DEF Cycle
<1>2. ASSUME NEW x \in Cycle(m) PROVE m \in Cycle(x) /\ Cycle(x) = Cycle(m) /\ m \in Graph(x)
  <2>1. x \in Modules /\ x \in Graph(m) /\ m \in Graph(x)
    BY <1>1, <1>2 DEF Cycle
  <2>2. Graph(x) = Graph(m)
    BY <2>1, GraphFacts
  <2>3. \A y \in Graph(m) : x \in Graph(y) <=> m \in Graph(y)
    <3> TAKE y \in Graph(m)
    <3>1. y \in Modules
      BY GraphFacts
    <3> QED
      BY <2>1, <3>1, GraphFacts
  <2> QED
    BY <2>1, <2>2, <2>3 DEF Cycle
<1> QED
  BY <1>1, <1>2

(* A module that a cycle reaches and that reaches the cycle is of it. *)
LEMMA CycleBetween ==
    ASSUME NEW m \in Modules, NEW x \in Modules, x \in Graph(m), m \in Graph(x)
    PROVE  x \in Cycle(m) /\ m \in Cycle(x)
  BY DEF Cycle

-----------------------------------------------------------------------------
(* A step that leaves V8 alone keeps EvalInv, unless it begins or ends an evaluation. *)
LEMMA EvalFrame ==
    ASSUME EvalInv, UNCHANGED v8, pc' = "evaluate" <=> pc = "evaluate"
    PROVE  EvalInv'
<1> USE DEF v8, Shut, Left, Under, OnPath
<1>1. PathInv' /\ LinkInv'
  BY DEF EvalInv, PathInv, LinkInv
<1>2. LeftInv' /\ ShutInv'
  BY DEF EvalInv, LeftInv, ShutInv
<1>3. AwaitedInv'
  BY DEF EvalInv, AwaitedInv, Reach
<1>4. RootInv' /\ WaitsInv' /\ NeedsInv'
  BY DEF EvalInv, RootInv, WaitsInv, NeedsInv
<1> QED
  BY <1>1, <1>2, <1>3, <1>4 DEF EvalInv

(* What linking a root links: modules that are not linked, with those of their imports *)
(* that are not, and the root.                                               *)
LEMMA ToLinkFacts ==
    ASSUME NEW root \in Modules
    PROVE  /\ ToLink(root) \subseteq {m \in Modules : status[m] = "unlinked"}
           /\ \A m \in ToLink(root) : \A d \in Imports[m] :
                 status[d] = "unlinked" => d \in ToLink(root)
           /\ status[root] = "unlinked" => root \in ToLink(root)
<1> DEFINE fresh == {m \in Modules : status[m] = "unlinked"}
           next == [m \in Modules |-> IF m \in fresh THEN Imports[m] \cap fresh ELSE {}]
<1>1. CASE status[root] # "unlinked"
  BY <1>1 DEF ToLink
<1>2. CASE status[root] = "unlinked"
  <2>1. ToLink(root) = Reach(next, root)
    BY <1>2 DEF ToLink
  <2>2. next \in [Modules -> SUBSET Modules] /\ fresh \in SUBSET Modules /\ root \in fresh
    BY <1>2, ModuleGraphAssumption
  <2>3. \A y \in fresh : next[y] \subseteq fresh
    OBVIOUS
  <2>n. \A m \in fresh : next[m] = Imports[m] \cap fresh
    OBVIOUS
  <2>f. \A d : d \in fresh <=> d \in Modules /\ status[d] = "unlinked"
    OBVIOUS
  <2> HIDE DEF next, fresh
  <2>4. Reach(next, root) \subseteq fresh
    BY <2>2, <2>3, ReachLeast
  <2>5. root \in Reach(next, root)
    BY ReachSelf
  <2>6. \A m \in Reach(next, root) : next[m] \subseteq Reach(next, root)
    BY <2>2, ReachNext
  <2>7. \A m \in Reach(next, root) : \A d \in Imports[m] : status[d] = "unlinked" => d \in Reach(next, root)
    <3> TAKE m \in Reach(next, root)
    <3> TAKE d \in Imports[m]
    <3> HAVE status[d] = "unlinked"
    <3>1. m \in fresh /\ m \in Modules
      BY <2>4, <2>f
    <3>2. d \in fresh
      BY <3>1, <2>f, ModuleGraphAssumption
    <3> QED
      BY <3>1, <3>2, <2>n, <2>6
  <2> QED
    BY <2>1, <2>4, <2>5, <2>7, <2>f
<1> QED
  BY <1>1, <1>2

(* Linking keeps EvalInv: it makes unlinked modules linked, with their imports. *)
LEMMA EvalInstantiate ==
    ASSUME TypeOK, EvalInv, Instantiate, target[job] \in Modules
    PROVE  EvalInv'
<1> DEFINE root == target[job]
<1>1. /\ status' = [m \in Modules |-> IF m \in ToLink(root) THEN "linked" ELSE status[m]]
      /\ UNCHANGED <<stack, awaiting, cycleRoot>> /\ pc # "evaluate" /\ pc' # "evaluate"
  BY DEF Instantiate, Linked
<1>2. \A m \in Modules : m \in ToLink(root) => status[m] = "unlinked"
  BY ToLinkFacts
<1>3. \A m \in Modules : \/ status'[m] = status[m]
                         \/ status[m] = "unlinked" /\ status'[m] = "linked"
  BY <1>1, <1>2
<1>i. \A m \in Modules : Imports[m] \subseteq Modules
  BY ModuleGraphAssumption
<1>c. \A m \in Modules : Cycle(m) \subseteq Modules
  BY CycleFacts
<1>s. Under' = Under /\ Under \subseteq Modules
  BY <1>1 DEF Under, OnPath, TypeOK
<1>4. \A m \in Modules : Left(m)' = Left(m) /\ Shut(m)' = Shut(m)
  BY <1>1, <1>3 DEF Left, Shut
<1>5. PathInv'
  <2>1. \A m \in Modules : status'[m] = "evaluating" <=> m \in Under
    BY <1>3 DEF EvalInv, PathInv
  <2> QED
    BY <1>1, <1>s, <2>1 DEF EvalInv, PathInv
<1>6. LinkInv'
  <2> SUFFICES ASSUME NEW m \in Modules, status'[m] # "unlinked", NEW d \in Imports[m]
               PROVE  status'[d] # "unlinked"
    BY DEF LinkInv
  <2>1. d \in Modules
    BY <1>i
  <2>2. CASE m \in ToLink(root)
    BY <2>1, <2>2, <1>1, ToLinkFacts
  <2>3. CASE m \notin ToLink(root)
    <3>1. status[d] # "unlinked"
      BY <2>3, <1>1 DEF EvalInv, LinkInv
    <3> QED
      BY <2>1, <3>1, <1>3
  <2> QED
    BY <2>2, <2>3
<1>7. LeftInv'
  BY <1>4, <1>i, <1>s DEF EvalInv, LeftInv
<1>8. ShutInv'
  <2>1. \A m \in Modules : Shut(m) => status'[m] = status[m]
    BY <1>3 DEF EvalInv, ShutInv
  <2>2. \A m \in Modules : status'[m] = "evaluated" => status[m] = "evaluated"
    BY <1>3
  <2> QED
    BY <1>1, <1>4, <1>i, <2>1, <2>2 DEF EvalInv, ShutInv
<1>r. \A m \in Modules : Reach(awaiting, m)' = Reach(awaiting, m)
  BY <1>1 DEF Reach
<1>9. AwaitedInv'
  <2>1. \A m \in Modules : status'[m] = "async" <=> status[m] = "async"
    BY <1>3
  <2>2. ASSUME NEW m \in Modules, Left(m)', status'[m] = "async"
        PROVE  \E s \in Under' : s \in Cycle(m) /\
            \E y \in Imports[s] : /\ y \in Cycle(m) /\ status'[y] = "async" /\ Left(y)'
                                  /\ m \in Reach(awaiting, y)'
    <3>1. PICK s \in Under : s \in Cycle(m) /\
            \E y \in Imports[s] : /\ y \in Cycle(m) /\ status[y] = "async" /\ Left(y)
                                  /\ m \in Reach(awaiting, y)
      BY <2>1, <2>2, <1>4 DEF EvalInv, AwaitedInv
    <3>2. PICK y \in Imports[s] : /\ y \in Cycle(m) /\ status[y] = "async" /\ Left(y)
                                  /\ m \in Reach(awaiting, y)
      BY <3>1
    <3> QED
      BY <3>1, <3>2, <2>1, <1>s, <1>i, <1>4, <1>r
  <2>3. ASSUME NEW m \in Modules, Shut(m)', status'[m] = "async"
        PROVE  m \in Reach(awaiting, cycleRoot[m])'
    BY <2>1, <2>3, <1>1, <1>4 DEF EvalInv, AwaitedInv, Reach
  <2> QED
    BY <2>2, <2>3 DEF AwaitedInv
<1>10. RootInv'
  <2>1. \A m \in Modules : Shut(m) => status'[m] = status[m] /\ cycleRoot[m] \in Modules
                                      /\ Shut(cycleRoot[m])
    BY <1>3, <1>c DEF EvalInv, ShutInv, Shut
  <2> QED
    BY <1>1, <1>4, <2>1 DEF EvalInv, RootInv
<1>11. WaitsInv'
  <2>1. \A m \in Modules : awaiting[m] \subseteq Modules
    BY DEF TypeOK
  <2>2. \A m \in Modules : status'[m] \in {"async", "evaluated", "errored"} => status'[m] = status[m]
    BY <1>3
  <2>3. \A m \in Modules : status[m] \in {"async", "evaluated", "errored"} => status'[m] = status[m]
    BY <1>3
  <2> QED
    BY <1>1, <1>4, <1>i, <2>1, <2>2, <2>3 DEF EvalInv, WaitsInv
<1>12. NeedsInv'
  <2>1. \A m \in Modules : Shut(m) => cycleRoot[m] \in Modules /\ Shut(cycleRoot[m])
                                      /\ status'[cycleRoot[m]] = status[cycleRoot[m]]
    BY <1>3, <1>c DEF EvalInv, ShutInv, Shut
  <2> QED
    BY <1>1, <1>4, <1>i, <2>1 DEF EvalInv, NeedsInv
<1> QED
  BY <1>5, <1>6, <1>7, <1>8, <1>9, <1>10, <1>11, <1>12 DEF EvalInv

(* When nothing is evaluated, no module is under evaluation and none has just left it. *)
LEMMA NothingLeft ==
    ASSUME EvalInv, stack = <<>>
    PROVE  \A m \in Modules : ~Left(m) /\ status[m] # "evaluating"
<1>1. Under = {}
  BY DEF Under, OnPath
<1> QED
  BY <1>1 DEF EvalInv, PathInv, LeftInv

(* The evaluation of a linked root begins: nothing was under way. *)
LEMMA EvalBegins ==
    ASSUME TypeOK, EvalInv, pc = "link", NEW m \in Modules, Evaluate(m)
    PROVE  EvalInv'
<1>0. stack = <<>> /\ pc # "evaluate"
  BY DEF EvalInv, PathInv
<1>1. CASE status[m] # "linked"
  <2>1. UNCHANGED v8 /\ pc' = "host"
    BY <1>1 DEF Evaluate, v8
  <2> QED
    BY <1>0, <2>1, EvalFrame
<1>2. CASE status[m] = "linked"
  <2>1. /\ pc' = "evaluate" /\ stack' = <<m>> /\ UNCHANGED <<awaiting, cycleRoot>>
        /\ status' = [status EXCEPT ![m] = "evaluating"]
    BY <1>2 DEF Evaluate
  <2>2. \A x \in Modules : ~Left(x) /\ status[x] # "evaluating"
    BY <1>0, NothingLeft
  <2>3. \A x \in Modules : status'[x] = IF x = m THEN "evaluating" ELSE status[x]
    BY <2>1 DEF TypeOK
  <2>4. Under' = {m}
    BY <2>1 DEF Under, OnPath
  <2>i. \A x \in Modules : Imports[x] \subseteq Modules
    BY ModuleGraphAssumption
  <2>l. \A x \in Modules : ~Left(x)'
    BY <1>2, <2>1, <2>2, <2>3 DEF Left
  <2>s. \A x \in Modules : Shut(x)' = Shut(x) /\ (Shut(x) => x # m)
    BY <1>2, <2>1 DEF Shut, EvalInv, ShutInv
  <2>5. PathInv'
    <3>1. Len(stack') = 1 /\ stack'[1] = m
      BY <2>1
    <3>2. \A i \in 1..Len(stack)' : stack'[i] = m
      BY <3>1
    <3>3. m \in Graph(m)
      BY GraphFacts
    <3>4. \A x \in Modules : (status[x] = "evaluating" <=> x \in Under)'
      BY <2>2, <2>3, <2>4
    <3> QED
      BY <2>1, <3>1, <3>2, <3>3, <3>4 DEF PathInv
  <2>6. LinkInv'
    BY <1>2, <2>3, <2>i DEF EvalInv, LinkInv
  <2>7. LeftInv'
    BY <2>l DEF LeftInv
  <2>8. ShutInv'
    BY <2>1, <2>3, <2>s, <2>i DEF EvalInv, ShutInv
  <2>9. AwaitedInv'
    <3>1. \A x \in Modules : Shut(x) /\ status'[x] = "async" =>
            x \in Reach(awaiting, cycleRoot[x])'
      BY <2>1, <2>3 DEF EvalInv, AwaitedInv, Reach
    <3> QED
      BY <2>l, <2>s, <3>1 DEF AwaitedInv
  <2>c. \A x \in Modules : Shut(x) => /\ cycleRoot[x] \in Modules /\ Shut(cycleRoot[x])
                                      /\ status'[cycleRoot[x]] = status[cycleRoot[x]]
    BY <2>3, <2>s, CycleFacts DEF EvalInv, ShutInv, Shut
  <2>10. RootInv'
    BY <2>1, <2>3, <2>s, <2>c DEF EvalInv, RootInv
  <2>11. WaitsInv'
    <3>1. \A x \in Modules : awaiting[x] \subseteq Modules
      BY DEF TypeOK
    <3> QED
      BY <1>2, <2>1, <2>3, <2>l, <2>s, <3>1 DEF EvalInv, WaitsInv
  <2>12. NeedsInv'
    BY <2>1, <2>s, <2>l, <2>c, <2>i DEF EvalInv, NeedsInv
  <2> QED
    BY <2>5, <2>6, <2>7, <2>8, <2>9, <2>10, <2>11, <2>12 DEF EvalInv
<1> QED
  BY <1>1, <1>2

(* The module that runs is on the path, and everything on the path leads to it. *)
LEMMA TopFacts ==
    ASSUME TypeOK, PathInv, pc = "evaluate"
    PROVE  /\ Len(stack) \in Nat \ {0} /\ Top \in Modules /\ Top \in Under
           /\ status[Top] = "evaluating"
           /\ \A s \in Under : s \in Modules /\ Top \in Graph(s)
<1>1. stack \in Seq(Modules) /\ stack # <<>>
  BY DEF TypeOK, PathInv
<1>2. Len(stack) \in Nat \ {0} /\ Top = stack[Len(stack)] /\ Len(stack) \in 1..Len(stack)
  BY <1>1 DEF Top
<1>3. Top \in Modules /\ Top \in Under /\ Under \subseteq Modules
  BY <1>1, <1>2 DEF Under, OnPath
<1>4. \A s \in Under : Top \in Graph(s)
  BY <1>2 DEF PathInv, Under, OnPath
<1> QED
  BY <1>2, <1>3, <1>4 DEF PathInv

(* A step down to an import that has not run keeps EvalInv. *)
LEMMA EvalDescend ==
    ASSUME TypeOK, EvalInv, NEW d \in Modules, Descend(d)
    PROVE  EvalInv'
<1>1. /\ pc = "evaluate" /\ pc' = pc /\ d \in Imports[Top] /\ status[d] = "linked"
      /\ stack' = Append(stack, d) /\ status' = [status EXCEPT ![d] = "evaluating"]
      /\ UNCHANGED <<awaiting, cycleRoot>>
  BY DEF Descend
<1>t. stack \in Seq(Modules)
  BY DEF TypeOK
<1>0. /\ Len(stack) \in Nat \ {0} /\ Top \in Modules /\ Top = stack[Len(stack)]
      /\ \A s \in Under : s \in Modules /\ Top \in Graph(s)
  BY <1>1, TopFacts DEF EvalInv, Top
<1>2. \A x \in Modules : status'[x] = IF x = d THEN "evaluating" ELSE status[x]
  BY <1>1 DEF TypeOK
<1>3. /\ Len(stack') = Len(stack) + 1 /\ stack'[Len(stack) + 1] = d
      /\ \A i \in 1..Len(stack) : stack'[i] = stack[i]
  BY <1>1, <1>t
<1>4. Under' = Under \cup {d}
  BY <1>0, <1>3 DEF Under, OnPath
<1>5. d \notin Under
  BY <1>1 DEF EvalInv, PathInv
<1>i. \A x \in Modules : Imports[x] \subseteq Modules
  BY ModuleGraphAssumption
<1>l. \A x \in Modules : Left(x)' = Left(x) /\ (Left(x) => x # d)
  BY <1>1, <1>2 DEF Left
<1>s. \A x \in Modules : Shut(x)' = Shut(x) /\ (Shut(x) => x # d)
  BY <1>1 DEF Shut, EvalInv, ShutInv
<1>6. PathInv'
  <2>1. \A x \in Modules : (status[x] = "evaluating" <=> x \in Under)'
    BY <1>2, <1>4 DEF EvalInv, PathInv
  <2>n. \A i \in 1..Len(stack) : stack[i] \in Under
    BY DEF Under, OnPath
  <2>2. \A i, j \in 1..Len(stack') : i # j => stack'[i] # stack'[j]
    BY <1>0, <1>3, <1>5, <2>n DEF EvalInv, PathInv
  <2>3. \A i \in 1..Len(stack') - 1 : stack'[i + 1] \in Imports[stack'[i]]
    BY <1>0, <1>1, <1>3 DEF EvalInv, PathInv
  <2>4. \A i, j \in 1..Len(stack') : i <= j => stack'[j] \in Graph(stack'[i])
    <3> SUFFICES ASSUME NEW i \in 1..Len(stack'), NEW j \in 1..Len(stack'), i <= j
                 PROVE  stack'[j] \in Graph(stack'[i])
      OBVIOUS
    <3>1. CASE j \in 1..Len(stack)
      BY <1>0, <1>3, <3>1 DEF EvalInv, PathInv
    <3>2. CASE j = Len(stack) + 1 /\ i \in 1..Len(stack)
      <4>1. stack'[i] \in Under
        BY <1>3, <2>n, <3>2
      <4>2. Top \in Graph(stack'[i]) /\ stack'[i] \in Modules
        BY <1>0, <4>1
      <4> QED
        BY <1>1, <1>3, <3>2, <4>2, GraphFacts
    <3>3. CASE j = Len(stack) + 1 /\ i = Len(stack) + 1
      BY <1>3, <3>3, GraphFacts
    <3> QED
      BY <1>0, <1>3, <3>1, <3>2, <3>3
  <2>5. pc' = "evaluate" /\ stack' # <<>>
    BY <1>0, <1>1, <1>3
  <2> QED
    BY <2>1, <2>2, <2>3, <2>4, <2>5 DEF PathInv
<1>7. LinkInv'
  BY <1>1, <1>2, <1>i DEF EvalInv, LinkInv
<1>8. LeftInv'
  BY <1>4, <1>l, <1>s, <1>i DEF EvalInv, LeftInv
<1>9. ShutInv'
  BY <1>1, <1>2, <1>s, <1>i DEF EvalInv, ShutInv
<1>r. \A x \in Modules : Reach(awaiting, x)' = Reach(awaiting, x)
  BY <1>1 DEF Reach
<1>10. AwaitedInv'
  <2>1. ASSUME NEW m \in Modules, Left(m)', status'[m] = "async"
        PROVE  \E s \in Under' : s \in Cycle(m) /\
            \E y \in Imports[s] : /\ y \in Cycle(m) /\ status'[y] = "async" /\ Left(y)'
                                  /\ m \in Reach(awaiting, y)'
    <3>1. PICK s \in Under : s \in Cycle(m) /\
            \E y \in Imports[s] : /\ y \in Cycle(m) /\ status[y] = "async" /\ Left(y)
                                  /\ m \in Reach(awaiting, y)
      BY <2>1, <1>l, <1>2 DEF EvalInv, AwaitedInv
    <3>2. PICK y \in Imports[s] : /\ y \in Cycle(m) /\ status[y] = "async" /\ Left(y)
                                  /\ m \in Reach(awaiting, y)
      BY <3>1
    <3>3. y \in Modules
      BY <3>1, <3>2, <1>0, <1>i
    <3> QED
      BY <3>1, <3>2, <3>3, <1>2, <1>4, <1>l, <1>r
  <2>2. ASSUME NEW m \in Modules, Shut(m)', status'[m] = "async"
        PROVE  m \in Reach(awaiting, cycleRoot[m])'
    BY <2>2, <1>1, <1>2, <1>s DEF EvalInv, AwaitedInv, Reach
  <2> QED
    BY <2>1, <2>2 DEF AwaitedInv
<1>c. \A x \in Modules : Shut(x) => /\ cycleRoot[x] \in Modules /\ Shut(cycleRoot[x])
                                    /\ status'[cycleRoot[x]] = status[cycleRoot[x]]
  BY <1>2, <1>s, CycleFacts DEF EvalInv, ShutInv, Shut
<1>11. RootInv'
  BY <1>1, <1>2, <1>s, <1>c DEF EvalInv, RootInv
<1>12. WaitsInv'
  <2>1. \A x \in Modules : awaiting[x] \subseteq Modules
    BY DEF TypeOK
  <2> QED
    BY <1>1, <1>2, <1>l, <1>s, <2>1 DEF EvalInv, WaitsInv
<1>13. NeedsInv'
  BY <1>1, <1>s, <1>l, <1>c, <1>i DEF EvalInv, NeedsInv
<1> QED
  BY <1>6, <1>7, <1>8, <1>9, <1>10, <1>11, <1>12, <1>13 DEF EvalInv

(* A failure ends the evaluation: what was under way has failed, and nothing that had  *)
(* ended before waits for it.                                                *)
LEMMA EvalThrow ==
    ASSUME TypeOK, EvalInv, Throw
    PROVE  EvalInv'
<1>1. /\ pc' # "evaluate" /\ stack' = <<>> /\ UNCHANGED <<awaiting, cycleRoot>>
      /\ status' = [m \in Modules |->
          IF status[m] \in {"evaluating", "ran"} \/ (status[m] = "async" /\ cycleRoot[m] = None)
          THEN "errored" ELSE status[m]]
  BY DEF Throw, Pop
<1>2. \A x \in Modules : status'[x] = IF status[x] = "evaluating" \/ Left(x) THEN "errored" ELSE status[x]
  BY <1>1 DEF Left
<1>3. Under' = {}
  BY <1>1 DEF Under, OnPath
<1>i. \A x \in Modules : Imports[x] \subseteq Modules
  BY ModuleGraphAssumption
<1>l. \A x \in Modules : ~Left(x)'
  BY <1>1, <1>2 DEF Left
<1>s. \A x \in Modules : /\ Shut(x)' = Shut(x)
                         /\ Shut(x) => status'[x] = status[x]
                         /\ Shut(x) => cycleRoot[x] \in Modules /\ Shut(cycleRoot[x])
  BY <1>1, CycleFacts DEF Shut, EvalInv, ShutInv
<1>4. PathInv'
  BY <1>1, <1>2, <1>3 DEF PathInv, Left
<1>5. LinkInv'
  BY <1>2, <1>i DEF EvalInv, LinkInv, Left
<1>6. LeftInv'
  BY <1>l DEF LeftInv
<1>7. ShutInv'
  BY <1>1, <1>2, <1>s, <1>i DEF EvalInv, ShutInv
<1>8. AwaitedInv'
  <2>1. \A x \in Modules : Shut(x) /\ status'[x] = "async" =>
          x \in Reach(awaiting, cycleRoot[x])'
    BY <1>1, <1>s DEF EvalInv, AwaitedInv, Reach
  <2> QED
    BY <1>l, <1>s, <2>1 DEF AwaitedInv
<1>9. RootInv'
  BY <1>1, <1>s DEF EvalInv, RootInv
<1>10. WaitsInv'
  <2>1. \A x \in Modules : awaiting[x] \subseteq Modules
    BY DEF TypeOK
  <2>2. ASSUME NEW m \in Modules PROVE status'[m] \notin {"async", "evaluated", "errored"} => awaiting'[m] = {}
    BY <1>1, <1>2, <2>2 DEF EvalInv, WaitsInv, Left
  <2>3. ASSUME NEW m \in Modules, NEW d \in awaiting[m], status'[m] \in {"async", "evaluated"}
        PROVE  Shut(d)
    <3>1. status'[m] = status[m]
      BY <2>3, <1>2
    <3>2. Shut(m)
      BY <2>3, <3>1, <1>l, <1>1 DEF EvalInv, ShutInv, Left, Shut
    <3> QED
      BY <3>2 DEF EvalInv, WaitsInv, ShutInv
  <2>4. ASSUME NEW m \in Modules, NEW d \in awaiting[m]
        PROVE  /\ status'[m] = "evaluated" => status'[d] = "evaluated"
               /\ status'[m] = "async" => status'[d] \in {"async", "evaluated"}
               /\ Left(m)' \/ Shut(m)' => Shut(d)' \/ d \in Imports[m]
    <3>1. d \in Modules
      BY <2>1
    <3>2. status'[m] \in {"async", "evaluated"} => status'[m] = status[m] /\ status'[d] = status[d]
      BY <2>3, <1>2, <1>s, <3>1
    <3> QED
      BY <3>1, <3>2, <1>l, <1>s DEF EvalInv, WaitsInv
  <2> QED
    BY <1>1, <2>2, <2>4 DEF WaitsInv
<1>11. NeedsInv'
  BY <1>1, <1>s, <1>l, <1>i DEF EvalInv, NeedsInv
<1> QED
  BY <1>4, <1>5, <1>6, <1>7, <1>8, <1>9, <1>10, <1>11 DEF EvalInv

(* An async module is told: it has ended, and with it its cycle if it is the root; or  *)
(* it has failed, and so have the ones that wait for it.                       *)
LEMMA EvalAsync ==
    ASSUME TypeOK, EvalInv, NEW m \in Modules, NEW fails \in BOOLEAN, AsyncEnds(m, fails)
    PROVE  EvalInv'
<1>1. /\ pc = "micro" /\ pc' = pc /\ UNCHANGED <<stack, awaiting, cycleRoot>>
      /\ status[m] = "async" /\ \A d \in awaiting[m] : status[d] # "async"
      /\ status' = [x \in Modules |->
            IF x = m /\ ~fails THEN "evaluated"
            ELSE IF fails /\ x \in Waiters(m) THEN "errored" ELSE status[x]]
  BY DEF AsyncEnds
<1>a. awaiting \in [Modules -> SUBSET Modules]
  BY DEF TypeOK
<1>0. stack = <<>> /\ Under = {} /\ Under' = {}
  BY <1>1 DEF EvalInv, PathInv, Under, OnPath
<1>l. \A x \in Modules : ~Left(x) /\ status[x] # "evaluating"
  BY <1>0, NothingLeft
<1>w. \A x \in Modules : x \in Waiters(m) <=> status[x] = "async" /\ m \in Reach(awaiting, x)
  BY <1>1, ReachSelf DEF Waiters
<1>2. \A x \in Modules :
        /\ status[x] # "async" => status'[x] = status[x]
        /\ ~fails => status'[x] = IF x = m THEN "evaluated" ELSE status[x]
        /\ fails => status'[x] = IF status[x] = "async" /\ m \in Reach(awaiting, x)
                                 THEN "errored" ELSE status[x]
  BY <1>1, <1>w
<1>i. \A x \in Modules : Imports[x] \subseteq Modules
  BY ModuleGraphAssumption
<1>m. \A x \in Modules : status[x] = "async" => Shut(x)
  BY <1>l DEF Left, Shut
<1>ll. \A x \in Modules : ~Left(x)'
  BY <1>1, <1>2, <1>l, <1>m DEF Left, Shut
<1>s. \A x \in Modules : /\ Shut(x)' = Shut(x)
                         /\ Shut(x) => /\ cycleRoot[x] \in Modules /\ Shut(cycleRoot[x])
                                       /\ cycleRoot[cycleRoot[x]] = cycleRoot[x]
                                       /\ status[x] \in {"async", "evaluated", "errored"}
  BY <1>1, CycleFacts DEF Shut, EvalInv, ShutInv
<1>3. PathInv'
  BY <1>0, <1>1, <1>2, <1>l DEF EvalInv, PathInv
<1>4. LinkInv'
  BY <1>2, <1>i DEF EvalInv, LinkInv
<1>5. LeftInv'
  BY <1>ll DEF LeftInv
<1>6. ShutInv'
  <2>1. \A x \in Modules : Shut(x) => status'[x] \in {"async", "evaluated", "errored"}
    BY <1>2, <1>s
  <2>2. \A x \in Modules : status'[x] = "evaluated" => Shut(x)
    BY <1>2, <1>m DEF EvalInv, ShutInv
  <2> QED
    BY <1>1, <1>s, <1>i, <2>1, <2>2 DEF EvalInv, ShutInv
<1>7. AwaitedInv'
  <2>1. \A x \in Modules : Shut(x) /\ status'[x] = "async" =>
          x \in Reach(awaiting, cycleRoot[x])'
    <3>1. \A x \in Modules : status'[x] = "async" => status[x] = "async"
      BY <1>2
    <3> QED
      BY <1>1, <3>1 DEF EvalInv, AwaitedInv, Reach
  <2> QED
    BY <1>ll, <1>s, <2>1 DEF AwaitedInv
<1>8. ASSUME ~fails, NEW x \in Modules, cycleRoot[x] = m PROVE status'[x] = "evaluated"
  <2>1. Shut(x) /\ status[m] # "errored" /\ status[m] # "evaluated"
    BY <1>1, <1>8, ModuleGraphAssumption DEF Shut
  <2>2. status[x] \in {"async", "evaluated"}
    BY <1>8, <1>s, <2>1 DEF EvalInv, RootInv
  <2>3. CASE status[x] = "async"
    <3> DEFINE S == {m} \cup {y \in Modules : status[y] = "evaluated"}
    <3>1. x \in Reach(awaiting, m)
      BY <1>8, <2>1, <2>3 DEF EvalInv, AwaitedInv
    <3>2. awaiting[m] \subseteq S
      BY <1>1, <1>a DEF EvalInv, WaitsInv
    <3>3. \A y \in S : awaiting[y] \subseteq S
      <4> TAKE y \in S
      <4>1. CASE y = m
        BY <3>2, <4>1
      <4>2. CASE y # m
        BY <1>a, <4>2 DEF EvalInv, WaitsInv
      <4> QED
        BY <4>1, <4>2
    <3>4. S \in SUBSET Modules /\ m \in S
      OBVIOUS
    <3> HIDE DEF S
    <3>5. Reach(awaiting, m) \subseteq S
      BY <3>3, <3>4, ReachLeast
    <3>6. x = m
      BY <2>3, <3>1, <3>5 DEF S
    <3> QED
      BY <1>2, <1>8, <3>6
  <2>4. CASE status[x] = "evaluated"
    BY <1>2, <2>4
  <2> QED
    BY <2>2, <2>3, <2>4
<1>9. RootInv'
  <2> SUFFICES ASSUME NEW x \in Modules, Shut(x)
               PROVE  /\ status'[cycleRoot[x]] = "evaluated" => status'[x] = "evaluated"
                      /\ status'[x] = "errored" => status'[cycleRoot[x]] = "errored"
    BY <1>1, <1>s DEF RootInv
  <2> DEFINE r == cycleRoot[x]
  <2>1. /\ r \in Modules /\ Shut(r) /\ status[x] \in {"async", "evaluated", "errored"}
        /\ status[r] \in {"async", "evaluated", "errored"}
        /\ status[r] = "evaluated" => status[x] = "evaluated"
        /\ status[x] = "errored" => status[r] = "errored"
        /\ status[x] = "async" => x \in Reach(awaiting, r)
    BY <1>s DEF EvalInv, RootInv, AwaitedInv
  <2> HIDE DEF r
  <2>2. CASE ~fails
    <3>1. status'[r] = "evaluated" => status'[x] = "evaluated"
      <4>1. CASE r = m
        BY <1>8, <2>2, <4>1 DEF r
      <4>2. CASE r # m
        BY <1>2, <2>1, <2>2, <4>2
      <4> QED
        BY <4>1, <4>2
    <3>2. status'[x] = "errored" => status'[r] = "errored"
      BY <1>2, <2>1, <2>2
    <3> QED
      BY <3>1, <3>2 DEF r
  <2>3. CASE fails
    <3>1. status'[r] = "evaluated" => status'[x] = "evaluated"
      BY <1>2, <2>1, <2>3
    <3>2. status'[x] = "errored" => status'[r] = "errored"
      <4>1. CASE status[x] = "errored"
        BY <1>2, <2>1, <4>1
      <4>2. CASE status'[x] = "errored" /\ status[x] # "errored"
        <5>1. status[x] = "async" /\ m \in Reach(awaiting, x)
          BY <1>2, <2>3, <4>2
        <5>2. m \in Reach(awaiting, r)
          BY <1>a, <2>1, <5>1, ReachTrans
        <5> QED
          BY <1>2, <2>1, <2>3, <5>1, <5>2
      <4> QED
        BY <4>1, <4>2
    <3> QED
      BY <3>1, <3>2 DEF r
  <2> QED
    BY <2>2, <2>3
<1>10. WaitsInv'
  <2>1. ASSUME NEW x \in Modules
        PROVE status'[x] \notin {"async", "evaluated", "errored"} => awaiting'[x] = {}
    BY <1>1, <1>2, <2>1 DEF EvalInv, WaitsInv
  <2>2. ASSUME NEW x \in Modules, NEW d \in awaiting[x]
        PROVE  /\ status'[x] = "evaluated" => status'[d] = "evaluated"
               /\ status'[x] = "async" => status'[d] \in {"async", "evaluated"}
               /\ Left(x)' \/ Shut(x)' => Shut(d)' \/ d \in Imports[x]
    <3>1. d \in Modules
      BY <1>a
    <3>2. /\ status[x] = "evaluated" => status[d] = "evaluated"
          /\ status[x] = "async" => status[d] \in {"async", "evaluated"}
          /\ Shut(x) => Shut(d) \/ d \in Imports[x]
      BY DEF EvalInv, WaitsInv
    <3>3. Left(x)' \/ Shut(x)' => Shut(d)' \/ d \in Imports[x]
      BY <1>ll, <1>s, <3>1, <3>2
    <3>4. CASE ~fails
      <4>1. x = m => status[d] = "evaluated"
        BY <1>1, <3>2
      <4> QED
        BY <1>1, <1>2, <3>1, <3>2, <3>3, <3>4, <4>1
    <3>5. CASE fails
      <4>1. status'[x] = "evaluated" => status'[d] = "evaluated"
        BY <1>2, <3>1, <3>2, <3>5
      <4>2. ASSUME status'[x] = "async" PROVE status'[d] \in {"async", "evaluated"}
        <5>1. status[x] = "async" /\ m \notin Reach(awaiting, x)
          BY <1>2, <3>5, <4>2
        <5>2. d \in Reach(awaiting, x)
          BY <1>a, ReachSelf, ReachNext
        <5>3. m \notin Reach(awaiting, d)
          BY <1>a, <5>1, <5>2, ReachTrans
        <5> QED
          BY <1>2, <3>1, <3>2, <3>5, <5>1, <5>3
      <4> QED
        BY <3>3, <4>1, <4>2
    <3> QED
      BY <3>4, <3>5
  <2> QED
    BY <1>1, <2>1, <2>2 DEF WaitsInv
<1>11. NeedsInv'
  <2>1. \A x \in Modules : status[x] = "evaluated" => status'[x] = "evaluated"
    BY <1>2
  <2> QED
    BY <1>1, <1>s, <1>ll, <1>i, <2>1 DEF EvalInv, NeedsInv
<1> QED
  BY <1>3, <1>4, <1>5, <1>6, <1>7, <1>9, <1>10, <1>11 DEF EvalInv

-----------------------------------------------------------------------------
(* The path below the module that runs, and the module it was reached from.       *)
LEMMA BelowFacts ==
    ASSUME TypeOK, PathInv, pc = "evaluate"
    PROVE  /\ Below \in Seq(Modules) /\ Len(Below) = Len(stack) - 1
           /\ \A i \in 1..Len(Below) : Below[i] = stack[i]
           /\ Top \notin OnPath(Below) /\ Under = OnPath(Below) \cup {Top}
           /\ Below # <<>> => \E p \in OnPath(Below) :
                 Top \in Imports[p] /\ \A s \in OnPath(Below) : p \in Graph(s)
<1>1. stack \in Seq(Modules) /\ Len(stack) \in Nat \ {0} /\ Top = stack[Len(stack)]
  BY TopFacts DEF TypeOK, Top
<1> DEFINE n == Len(stack) - 1
<1>2. Below = [i \in 1..n |-> stack[i]] /\ n \in Nat
  BY <1>1 DEF Below
<1>3. Below \in Seq(Modules) /\ Len(Below) = n /\ \A i \in 1..n : Below[i] = stack[i]
  BY <1>1, <1>2
<1>4. Top \notin OnPath(Below)
  BY <1>1, <1>3 DEF PathInv, OnPath
<1>5. Under = OnPath(Below) \cup {Top}
  <2>1. 1..Len(stack) = (1..n) \cup {Len(stack)}
    BY <1>1
  <2> QED
    BY <1>1, <1>3, <2>1 DEF Under, OnPath
<1>6. ASSUME Below # <<>>
      PROVE  \E p \in OnPath(Below) : Top \in Imports[p] /\ \A s \in OnPath(Below) : p \in Graph(s)
  <2>1. n \in 1..n /\ n \in 1..Len(stack) - 1 /\ n + 1 = Len(stack)
    BY <1>1, <1>3, <1>6
  <2>2. stack[n] \in OnPath(Below) /\ Top \in Imports[stack[n]]
    BY <1>1, <1>3, <2>1 DEF OnPath, PathInv
  <2>3. \A s \in OnPath(Below) : stack[n] \in Graph(s)
    BY <1>1, <1>3, <2>1 DEF OnPath, PathInv
  <2> QED
    BY <2>2, <2>3
<1> QED
  BY <1>3, <1>4, <1>5, <1>6

(* What the imports of a module are whose body may run: each has ended with its cycle, *)
(* and that has not failed, or is of the module's own cycle.                    *)
LEMMA RunImports ==
    ASSUME TypeOK, EvalInv, ReadyToRun, \A d \in Needs : status[d] # "errored",
           NEW d \in Imports[Top]
    PROVE  \/ /\ Shut(d) /\ cycleRoot[d] \in Needs
              /\ status[cycleRoot[d]] \in {"async", "evaluated"}
           \/ ~Shut(d) /\ d \in Needs /\ d \in Cycle(Top) /\ (Left(d) \/ d \in Under)
<1>1. pc = "evaluate" /\ status[d] # "linked"
  BY DEF ReadyToRun
<1>2. /\ Top \in Modules /\ status[Top] = "evaluating"
      /\ \A s \in Under : s \in Modules /\ Top \in Graph(s)
  BY <1>1, TopFacts DEF EvalInv
<1>3. d \in Modules /\ d \in Graph(Top) /\ status[d] # "unlinked"
  BY <1>2, GraphFacts, ModuleGraphAssumption DEF EvalInv, LinkInv
<1>4. CASE Shut(d)
  <2>1. SettlesWith(d) = cycleRoot[d]
    BY <1>4 DEF SettlesWith, Shut
  <2>2. cycleRoot[d] \in Needs
    BY <2>1 DEF Needs
  <2>3. Shut(cycleRoot[d]) /\ cycleRoot[d] \in Modules
    BY <1>3, <1>4, CycleFacts DEF EvalInv, ShutInv, Shut
  <2> QED
    BY <1>4, <2>2, <2>3 DEF EvalInv, ShutInv
<1>5. CASE ~Shut(d)
  <2>1. SettlesWith(d) = d
    BY <1>5 DEF SettlesWith, Shut
  <2>2. d \in Needs /\ status[d] # "errored"
    BY <2>1 DEF Needs
  <2>3. status[d] # "evaluated"
    BY <1>3, <1>5 DEF EvalInv, ShutInv
  <2>4. Left(d) \/ d \in Under
    BY <1>1, <1>3, <1>5, <2>2, <2>3 DEF TypeOK, Left, Shut, EvalInv, PathInv
  <2>5. Top \in Graph(d)
    <3>1. CASE d \in Under
      BY <1>2, <3>1
    <3>2. CASE Left(d)
      <4>1. PICK s \in Under : s \in Cycle(d)
        BY <1>3, <3>2 DEF EvalInv, LeftInv
      <4>2. s \in Graph(d) /\ Top \in Graph(s)
        BY <1>2, <1>3, <4>1, CycleFacts
      <4> QED
        BY <1>3, <4>2, GraphFacts
    <3> QED
      BY <2>4, <3>1, <3>2
  <2> QED
    BY <1>2, <1>3, <1>5, <2>2, <2>4, <2>5, CycleBetween
<1> QED
  BY <1>4, <1>5

(* What a body that ends waits for, the state it leaves, and whether its cycle ends.   *)
WaitedFor == {d \in Needs : status[d] = "async"}
Outcome == IF Top \in Tla \/ WaitedFor # {} THEN "async" ELSE "ran"
Ends == Cycle(Top) \cap OnPath(Below) = {}

(* The step of Run in these terms.                                             *)
LEMMA RunStep ==
    ASSUME TypeOK, EvalInv, Run
    PROVE  /\ pc = "evaluate" /\ Top \in Modules /\ status[Top] = "evaluating"
           /\ \A d \in Needs : status[d] # "errored"
           /\ Outcome \in {"async", "ran"} /\ (WaitedFor # {} => Outcome = "async")
           /\ stack' = Below /\ Under' = OnPath(Below) /\ (pc' = "evaluate" <=> Below # <<>>)
           /\ \A m \in Modules : awaiting'[m] = IF m = Top THEN WaitedFor ELSE awaiting[m]
           /\ \A m \in Modules : status'[m] =
                 IF Ends /\ m \in Cycle(Top) /\ (m = Top \/ status[m] = "ran")
                 THEN (IF m = Top /\ Outcome = "async" THEN "async" ELSE "evaluated")
                 ELSE IF m = Top THEN Outcome ELSE status[m]
           /\ \A m \in Modules : cycleRoot'[m] =
                 IF Ends /\ m \in Cycle(Top) /\ status[m] \in {"evaluating", "ran", "async"}
                 THEN Top ELSE cycleRoot[m]
<1>1. pc = "evaluate"
  BY DEF Run, ReadyToRun
<1>2. Top \in Modules /\ status[Top] = "evaluating"
  BY <1>1, TopFacts DEF EvalInv
<1>3. awaiting' = [awaiting EXCEPT ![Top] = WaitedFor] /\ awaiting \in [Modules -> SUBSET Modules]
  BY DEF Run, WaitedFor, TypeOK
<1>4. stack' = Below /\ (pc' = "evaluate" <=> Below # <<>>)
  BY <1>1 DEF Run, Pop
<1>5. Under' = OnPath(Below)
  BY <1>4 DEF Under, OnPath
<1>6. /\ \A m \in Modules : status'[m] =
                 IF Ends /\ m \in Cycle(Top) /\ (m = Top \/ status[m] = "ran")
                 THEN (IF m = Top /\ Outcome = "async" THEN "async" ELSE "evaluated")
                 ELSE IF m = Top THEN Outcome ELSE status[m]
      /\ \A m \in Modules : cycleRoot'[m] =
                 IF Ends /\ m \in Cycle(Top) /\ status[m] \in {"evaluating", "ran", "async"}
                 THEN Top ELSE cycleRoot[m]
  BY DEF Run, Ends, Outcome, WaitedFor
<1>7. \A d \in Needs : status[d] # "errored"
  BY DEF Run
<1> QED
  BY <1>1, <1>2, <1>3, <1>4, <1>5, <1>6, <1>7 DEF Outcome

(* The path after a body has run. *)
LEMMA RunPath ==
    ASSUME TypeOK, EvalInv, Run
    PROVE  PathInv' /\ LinkInv'
<1> USE RunStep, BelowFacts
<1>1. /\ Below \in Seq(Modules) /\ Len(Below) = Len(stack) - 1 /\ Len(stack) \in Nat \ {0}
      /\ \A i \in 1..Len(Below) : Below[i] = stack[i]
      /\ Top \notin OnPath(Below) /\ Under = OnPath(Below) \cup {Top} /\ stack' = Below
      /\ Under' = OnPath(Below) /\ (pc' = "evaluate" <=> Below # <<>>)
  BY TopFacts DEF EvalInv
<1>2. \A m \in Modules : status'[m] = "evaluating" <=> status[m] = "evaluating" /\ m # Top
  BY DEF Outcome
<1>3. \A m \in Modules : status'[m] = "evaluating" <=> m \in Under'
  BY <1>1, <1>2 DEF EvalInv, PathInv
<1>4. PathInv'
  <2>1. /\ Len(stack') \in Nat /\ Len(stack') < Len(stack)
        /\ \A i \in 1..Len(stack') : stack'[i] = stack[i] /\ i \in 1..Len(stack)
    BY <1>1
  <2>2. \A i, j \in 1..Len(stack') : i # j => stack'[i] # stack'[j]
    BY <2>1 DEF EvalInv, PathInv
  <2>3. \A i \in 1..Len(stack') - 1 : stack'[i + 1] \in Imports[stack'[i]]
    <3> TAKE i \in 1..Len(stack') - 1
    <3>1. i \in 1..Len(stack') /\ i + 1 \in 1..Len(stack') /\ i \in 1..Len(stack) - 1
      BY <1>1, <2>1
    <3> QED
      BY <2>1, <3>1 DEF EvalInv, PathInv
  <2>4. \A i, j \in 1..Len(stack') : i <= j => stack'[j] \in Graph(stack'[i])
    BY <2>1 DEF EvalInv, PathInv
  <2> QED
    BY <1>1, <1>3, <2>2, <2>3, <2>4 DEF PathInv
<1>5. \A m \in Modules : status'[m] = "unlinked" <=> status[m] = "unlinked"
  BY DEF Outcome
<1>6. LinkInv'
  <2>1. \A m \in Modules : Imports[m] \subseteq Modules
    BY ModuleGraphAssumption
  <2> QED
    BY <1>5, <2>1 DEF EvalInv, LinkInv
<1> QED
  BY <1>4, <1>6

(* What a module waits for, after a body has run: its own is set once, and no other's   *)
(* is changed.                                                                *)
LEMMA RunWaits ==
    ASSUME TypeOK, EvalInv, Run
    PROVE  /\ \A m \in Modules : awaiting[m] \subseteq awaiting'[m]
           /\ \A m \in Modules : Reach(awaiting, m) \subseteq Reach(awaiting', m)
           /\ awaiting' \in [Modules -> SUBSET Modules]
           /\ WaitedFor \subseteq Modules
<1>1. Top \in Modules /\ status[Top] = "evaluating"
  BY RunStep
<1>2. awaiting[Top] = {}
  BY <1>1 DEF EvalInv, WaitsInv
<1>3. WaitedFor \subseteq Modules
  <2>1. \A d \in Imports[Top] : SettlesWith(d) \in Modules
    BY <1>1, ModuleGraphAssumption DEF SettlesWith, TypeOK
  <2> QED
    BY <2>1 DEF WaitedFor, Needs
<1>4. awaiting' \in [Modules -> SUBSET Modules]
  <2>1. awaiting' = [awaiting EXCEPT ![Top] = WaitedFor]
    BY DEF Run, WaitedFor
  <2> QED
    BY <1>1, <1>3, <2>1 DEF TypeOK
<1>5. \A m \in Modules : awaiting[m] \subseteq awaiting'[m]
  BY <1>2, RunStep
<1>6. awaiting \in [Modules -> SUBSET Modules]
  BY DEF TypeOK
<1>7. \A m \in Modules : Reach(awaiting, m) \subseteq Reach(awaiting', m)
  BY <1>4, <1>5, <1>6, ReachMono
<1> QED
  BY <1>3, <1>4, <1>5, <1>7

(* What has begun and awaits below the module that runs is reached from what that waits *)
(* for, if it hangs on that module.                                           *)
LEMMA RunHangs ==
    ASSUME TypeOK, EvalInv, Run, NEW m \in Modules, NEW y \in Imports[Top],
           status[y] = "async", Left(y), m \in Reach(awaiting, y)
    PROVE  Outcome = "async" /\ m \in Reach(awaiting', Top)
<1>1. y \in Modules /\ Top \in Modules
  BY RunStep, ModuleGraphAssumption
<1>2. SettlesWith(y) = y
  BY DEF SettlesWith, Left
<1>3. y \in WaitedFor
  BY <1>2 DEF WaitedFor, Needs
<1>4. y \in awaiting'[Top] /\ Outcome = "async"
  BY <1>1, <1>3, RunStep
<1>5. y \in Reach(awaiting', Top)
  BY <1>1, <1>4, RunWaits, ReachSelf, ReachNext
<1>6. m \in Reach(awaiting', y)
  BY <1>1, RunWaits
<1> QED
  BY <1>4, <1>5, <1>6, RunWaits, ReachTrans

(* When a body has run and its cycle goes on below it. *)
LEMMA RunLeaves ==
    ASSUME TypeOK, EvalInv, Run, ~Ends
    PROVE  EvalInv'
<1>1. /\ pc = "evaluate" /\ Top \in Modules /\ status[Top] = "evaluating"
      /\ \A d \in Needs : status[d] # "errored"
      /\ Outcome \in {"async", "ran"} /\ (WaitedFor # {} => Outcome = "async")
      /\ Under' = OnPath(Below)
      /\ \A m \in Modules : /\ awaiting'[m] = IF m = Top THEN WaitedFor ELSE awaiting[m]
                            /\ status'[m] = IF m = Top THEN Outcome ELSE status[m]
                            /\ cycleRoot'[m] = cycleRoot[m]
  BY RunStep
<1>2. Under = OnPath(Below) \cup {Top} /\ \A s \in Under : s \in Modules /\ Top \in Graph(s)
  BY <1>1, BelowFacts, TopFacts DEF EvalInv
<1>i. \A m \in Modules : Imports[m] \subseteq Modules
  BY ModuleGraphAssumption
<1>c. \A m \in Modules : m \in Cycle(m) /\ Cycle(m) \subseteq Modules
                         /\ \A x \in Cycle(m) : m \in Cycle(x) /\ Cycle(x) = Cycle(m)
  BY CycleFacts
<1>0. ~Shut(Top) /\ ~Left(Top)
  BY <1>1 DEF Left, Shut, EvalInv, ShutInv
<1>s. \A m \in Modules : Shut(m)' = Shut(m)
  BY <1>1 DEF Shut
<1>l. \A m \in Modules : Left(m)' = (Left(m) \/ m = Top)
  BY <1>0, <1>1 DEF Left, Shut
<1>3. PICK q \in OnPath(Below) : q \in Cycle(Top)
  BY DEF Ends
<1>4. PICK p \in OnPath(Below) : /\ Top \in Imports[p] /\ p \in Cycle(Top)
                                 /\ p \in Modules
  <2>1. Below # <<>>
    BY <1>3 DEF OnPath
  <2>2. PICK p \in OnPath(Below) : Top \in Imports[p] /\ \A s \in OnPath(Below) : p \in Graph(s)
    BY <1>1, <2>1, BelowFacts DEF EvalInv
  <2>3. p \in Modules /\ q \in Modules /\ p \in Graph(q) /\ Top \in Graph(p) /\ q \in Graph(Top)
    BY <1>1, <1>2, <1>3, <2>2, CycleFacts
  <2>4. p \in Graph(Top)
    BY <1>1, <2>3, GraphFacts
  <2> QED
    BY <1>1, <2>2, <2>3, <2>4, CycleBetween
<1>5. LeftInv'
  <2> SUFFICES ASSUME NEW m \in Modules, Left(m) \/ m = Top
               PROVE  /\ \E s \in OnPath(Below) : s \in Cycle(m)
                      /\ \A d \in Imports[m] : Shut(d)' \/ (d \in Cycle(m) /\ (Left(d)' \/ d \in OnPath(Below)))
    BY <1>1, <1>l DEF LeftInv
  <2>1. \E s \in OnPath(Below) : s \in Cycle(m)
    <3>1. CASE m = Top
      BY <1>3, <3>1
    <3>2. CASE Left(m)
      <4>1. PICK s \in Under : s \in Cycle(m)
        BY <3>2 DEF EvalInv, LeftInv
      <4>2. s = Top => q \in Cycle(m)
        BY <1>3, <1>c, <4>1
      <4> QED
        BY <1>2, <4>1, <4>2
    <3> QED
      BY <3>1, <3>2
  <2>2. ASSUME NEW d \in Imports[m]
        PROVE  Shut(d)' \/ (d \in Cycle(m) /\ (Left(d)' \/ d \in OnPath(Below)))
    <3>1. d \in Modules
      BY <1>i
    <3>2. Shut(d) \/ (d \in Cycle(m) /\ (Left(d) \/ d \in Under))
      <4>1. CASE m = Top
        BY <1>1, <4>1, RunImports DEF Run
      <4>2. CASE Left(m)
        BY <4>2 DEF EvalInv, LeftInv
      <4> QED
        BY <4>1, <4>2
    <3> QED
      BY <1>2, <1>l, <1>s, <3>1, <3>2
  <2> QED
    BY <2>1, <2>2
<1>6. ShutInv'
  <2>1. \A m \in Modules : Shut(m) => m # Top
    BY <1>0
  <2>2. \A m \in Modules : status'[m] = "evaluated" => status[m] = "evaluated"
    BY <1>1
  <2>3. \A m \in Modules : Shut(m) => /\ cycleRoot[m] \in Cycle(m)
                                      /\ \A x \in Cycle(m) : cycleRoot'[x] = cycleRoot'[m]
                                      /\ \A d \in Imports[m] : Shut(d)'
    BY <1>1, <1>s, <1>i, <1>c DEF EvalInv, ShutInv
  <2> QED
    BY <1>1, <1>s, <2>1, <2>2, <2>3 DEF EvalInv, ShutInv
<1>7. AwaitedInv'
  <2>1. ASSUME NEW m \in Modules, Left(m) \/ m = Top, status'[m] = "async"
        PROVE  \E s \in OnPath(Below) : s \in Cycle(m) /\
            \E y \in Imports[s] : /\ y \in Cycle(m) /\ status'[y] = "async" /\ Left(y)'
                                  /\ m \in Reach(awaiting', y)
    <3>1. CASE m = Top
      <4>1. Top \in Cycle(Top) /\ Top \in Reach(awaiting', Top)
        BY <1>1, <1>c, ReachSelf
      <4> QED
        BY <1>1, <1>4, <1>l, <2>1, <3>1, <4>1
    <3>2. CASE m # Top
      <4>1. Left(m) /\ status[m] = "async"
        BY <1>1, <2>1, <3>2
      <4>2. PICK s \in Under : s \in Cycle(m) /\
            \E y \in Imports[s] : /\ y \in Cycle(m) /\ status[y] = "async" /\ Left(y)
                                  /\ m \in Reach(awaiting, y)
        BY <4>1 DEF EvalInv, AwaitedInv
      <4>3. PICK y \in Imports[s] : /\ y \in Cycle(m) /\ status[y] = "async" /\ Left(y)
                                    /\ m \in Reach(awaiting, y)
        BY <4>2
      <4>4. y \in Modules /\ y # Top
        BY <1>0, <1>c, <4>3
      <4>5. CASE s # Top
        <5>1. s \in OnPath(Below)
          BY <1>2, <4>5
        <5>2. m \in Reach(awaiting', y)
          BY <4>3, <4>4, RunWaits
        <5> QED
          BY <1>1, <1>l, <4>2, <4>3, <4>4, <5>1, <5>2
      <4>6. CASE s = Top
        <5>1. Outcome = "async" /\ m \in Reach(awaiting', Top)
          BY <4>3, <4>6, RunHangs
        <5>2. Top \in Cycle(m) /\ p \in Cycle(m)
          BY <1>4, <1>c, <4>2, <4>6
        <5> QED
          BY <1>1, <1>4, <1>l, <5>1, <5>2
      <4> QED
        BY <4>5, <4>6
    <3> QED
      BY <3>1, <3>2
  <2>2. ASSUME NEW m \in Modules, Shut(m), status'[m] = "async"
        PROVE  m \in Reach(awaiting', cycleRoot[m])
    <3>1. m # Top /\ status[m] = "async" /\ cycleRoot[m] \in Modules
      BY <1>0, <1>1, <1>c, <2>2 DEF EvalInv, ShutInv
    <3>2. m \in Reach(awaiting, cycleRoot[m])
      BY <2>2, <3>1 DEF EvalInv, AwaitedInv
    <3> QED
      BY <3>1, <3>2, RunWaits
  <2>3. \A m \in Modules : Reach(awaiting, m)' = Reach(awaiting', m)
    BY DEF Reach
  <2>i. \A s \in OnPath(Below) : s \in Modules
    BY <1>2
  <2>4. \A m \in Modules : Left(m)' /\ status'[m] = "async" =>
            \E s \in Under' : s \in Cycle(m) /\
               \E y \in Imports[s] : /\ y \in Cycle(m) /\ status'[y] = "async" /\ Left(y)'
                                     /\ m \in Reach(awaiting, y)'
    BY <2>1, <2>3, <2>i, <1>1, <1>l, <1>i
  <2>5. \A m \in Modules : Shut(m)' /\ status'[m] = "async" => m \in Reach(awaiting, cycleRoot[m])'
    BY <2>2, <1>1, <1>s DEF Reach
  <2> QED
    BY <2>4, <2>5 DEF AwaitedInv
<1>r. \A m \in Modules : Shut(m) => /\ cycleRoot[m] \in Modules /\ Shut(cycleRoot[m])
                                    /\ cycleRoot[m] # Top /\ m # Top
  BY <1>0, <1>c DEF EvalInv, ShutInv, Shut
<1>8. RootInv'
  BY <1>1, <1>s, <1>r DEF EvalInv, RootInv
<1>t. \A m \in Modules : \A d \in awaiting[m] :
        status[m] \in {"async", "evaluated"} => d # Top
  BY <1>1 DEF EvalInv, WaitsInv
<1>u. \A d \in WaitedFor : /\ status[d] = "async" /\ d # Top /\ d \in Modules
                           /\ Shut(d) \/ d \in Imports[Top]
  <2> SUFFICES ASSUME NEW e \in Imports[Top], status[SettlesWith(e)] = "async"
               PROVE  LET d == SettlesWith(e) IN
                      d # Top /\ d \in Modules /\ (Shut(d) \/ d \in Imports[Top])
    BY DEF WaitedFor, Needs
  <2>1. e \in Modules
    BY <1>1, <1>i
  <2>2. CASE Shut(e)
    BY <1>1, <1>r, <2>1, <2>2 DEF SettlesWith, Shut
  <2>3. CASE ~Shut(e)
    BY <1>1, <2>1, <2>3 DEF SettlesWith, Shut
  <2> QED
    BY <2>2, <2>3
<1>9. WaitsInv'
  <2>1. ASSUME NEW m \in Modules
        PROVE status'[m] \notin {"async", "evaluated", "errored"} => awaiting'[m] = {}
    <3>1. CASE m = Top
      BY <1>1, <3>1
    <3>2. CASE m # Top
      BY <1>1, <3>2 DEF EvalInv, WaitsInv
    <3> QED
      BY <3>1, <3>2
  <2>2. ASSUME NEW m \in Modules, NEW d \in awaiting'[m]
        PROVE  /\ status'[m] = "evaluated" => status'[d] = "evaluated"
               /\ status'[m] = "async" => status'[d] \in {"async", "evaluated"}
               /\ Left(m)' \/ Shut(m)' => Shut(d)' \/ d \in Imports[m]
    <3>1. d \in Modules
      BY RunWaits
    <3>2. CASE m = Top
      BY <1>1, <1>s, <1>u, <2>2, <3>1, <3>2
    <3>3. CASE m # Top
      <4>1. d \in awaiting[m]
        BY <1>1, <2>2, <3>3
      <4> QED
        BY <1>1, <1>s, <1>l, <1>t, <3>1, <3>3, <4>1 DEF EvalInv, WaitsInv
    <3> QED
      BY <3>2, <3>3
  <2> QED
    BY <2>1, <2>2 DEF WaitsInv
<1>10. NeedsInv'
  <2> SUFFICES ASSUME NEW m \in Modules, Left(m) \/ Shut(m) \/ m = Top, NEW d \in Imports[m],
                      Shut(d), d \notin Cycle(m)
               PROVE  status'[cycleRoot[d]] = "evaluated" \/ cycleRoot[d] \in awaiting'[m]
    BY <1>1, <1>s, <1>l, <1>i DEF NeedsInv
  <2>1. d \in Modules /\ status'[cycleRoot[d]] = status[cycleRoot[d]]
    BY <1>1, <1>i, <1>r
  <2>2. CASE m = Top
    <3>1. cycleRoot[d] \in Needs /\ status[cycleRoot[d]] \in {"async", "evaluated"}
      BY <1>1, <2>2, RunImports DEF Run
    <3> QED
      BY <1>1, <2>1, <2>2, <3>1 DEF WaitedFor
  <2>3. CASE m # Top
    BY <1>1, <2>1, <2>3 DEF EvalInv, NeedsInv
  <2> QED
    BY <2>2, <2>3
<1> QED
  BY <1>5, <1>6, <1>7, <1>8, <1>9, <1>10, RunPath DEF EvalInv

(* When a body has run and its cycle ends with it: all of the cycle has run, and hangs on *)
(* the module that ran last, its root.                                        *)
LEMMA RunCycle ==
    ASSUME TypeOK, EvalInv, Run, Ends
    PROVE  /\ \A x \in Cycle(Top) : x = Top \/ Left(x)
           /\ \A m \in Modules : Left(m) /\ m \notin Cycle(Top) =>
                 \A s \in Cycle(m) : s \notin Cycle(Top)
           /\ \A x \in Cycle(Top) : Left(x) /\ status[x] = "async" =>
                 Outcome = "async" /\ x \in Reach(awaiting', Top)
<1>1. pc = "evaluate" /\ Top \in Modules /\ status[Top] = "evaluating"
  BY RunStep
<1>2. Under = OnPath(Below) \cup {Top} /\ \A s \in Under : s \in Modules /\ Top \in Graph(s)
  BY <1>1, BelowFacts, TopFacts DEF EvalInv
<1>c. \A m \in Modules : m \in Cycle(m) /\ Cycle(m) \subseteq Modules
                         /\ \A x \in Cycle(m) : m \in Cycle(x) /\ Cycle(x) = Cycle(m)
  BY CycleFacts
<1>3. \A s \in Under : s \in Cycle(Top) => s = Top
  BY <1>2 DEF Ends
<1>4. \A x \in Cycle(Top) : ~Shut(x)
  BY <1>1, <1>c DEF EvalInv, ShutInv, Shut
<1>5. ASSUME NEW x \in Cycle(Top) PROVE x = Top \/ Left(x)
  <2> DEFINE S == {y \in Modules : Shut(y) \/ (y \in Cycle(Top) /\ (y = Top \/ Left(y)))}
  <2>1. S \in SUBSET Modules /\ Top \in S
    BY <1>1, <1>c
  <2>2. \A y \in S : Imports[y] \subseteq S
    <3> SUFFICES ASSUME NEW y \in S, NEW d \in Imports[y] PROVE d \in S
      OBVIOUS
    <3>1. d \in Modules
      BY ModuleGraphAssumption
    <3>2. CASE Shut(y)
      BY <3>1, <3>2 DEF EvalInv, ShutInv
    <3>3. CASE ~Shut(y)
      <4>1. Shut(d) \/ (d \in Cycle(y) /\ (Left(d) \/ d \in Under))
        <5>1. CASE y = Top
          BY <1>1, <5>1, RunImports DEF Run
        <5>2. CASE Left(y)
          BY <5>2 DEF EvalInv, LeftInv
        <5> QED
          BY <3>3, <5>1, <5>2
      <4>2. Cycle(y) = Cycle(Top)
        BY <1>1, <1>c, <3>3
      <4> QED
        BY <1>3, <3>1, <4>1, <4>2
    <3> QED
      BY <3>2, <3>3
  <2> HIDE DEF S
  <2>3. Graph(Top) \subseteq S
    BY <2>1, <2>2, GraphLeast
  <2>4. x \in S
    BY <1>1, <2>3, CycleFacts
  <2> QED
    BY <1>4, <2>4 DEF S
<1>6. ASSUME NEW m \in Modules, m \notin Cycle(Top), NEW s \in Cycle(m) PROVE s \notin Cycle(Top)
  BY <1>1, <1>6, <1>c
<1>7. ASSUME NEW x \in Cycle(Top), Left(x), status[x] = "async"
      PROVE  Outcome = "async" /\ x \in Reach(awaiting', Top)
  <2>1. x \in Modules /\ Cycle(x) = Cycle(Top)
    BY <1>1, <1>c
  <2>2. PICK s \in Under : s \in Cycle(x) /\
            \E y \in Imports[s] : /\ y \in Cycle(x) /\ status[y] = "async" /\ Left(y)
                                  /\ x \in Reach(awaiting, y)
    BY <1>7, <2>1 DEF EvalInv, AwaitedInv
  <2>3. s = Top
    BY <1>3, <2>1, <2>2
  <2> QED
    BY <2>1, <2>2, <2>3, RunHangs
<1> QED
  BY <1>5, <1>6, <1>7

(* When a body has run and its cycle ends with it. *)
LEMMA RunEnds ==
    ASSUME TypeOK, EvalInv, Run, Ends
    PROVE  EvalInv'
<1>1. /\ pc = "evaluate" /\ Top \in Modules /\ status[Top] = "evaluating"
      /\ \A d \in Needs : status[d] # "errored"
      /\ Outcome \in {"async", "ran"} /\ (WaitedFor # {} => Outcome = "async")
      /\ Under' = OnPath(Below)
      /\ \A m \in Modules : awaiting'[m] = IF m = Top THEN WaitedFor ELSE awaiting[m]
      /\ \A m \in Modules : status'[m] =
            IF m \in Cycle(Top) /\ (m = Top \/ status[m] = "ran")
            THEN (IF m = Top /\ Outcome = "async" THEN "async" ELSE "evaluated")
            ELSE IF m = Top THEN Outcome ELSE status[m]
      /\ \A m \in Modules : cycleRoot'[m] =
            IF m \in Cycle(Top) /\ status[m] \in {"evaluating", "ran", "async"}
            THEN Top ELSE cycleRoot[m]
  BY RunStep
<1>2. Under = OnPath(Below) \cup {Top} /\ \A s \in Under : s \in Modules /\ Top \in Graph(s)
  BY <1>1, BelowFacts, TopFacts DEF EvalInv
<1>i. \A m \in Modules : Imports[m] \subseteq Modules
  BY ModuleGraphAssumption
<1>c. \A m \in Modules : m \in Cycle(m) /\ Cycle(m) \subseteq Modules
                         /\ \A x \in Cycle(m) : m \in Cycle(x) /\ Cycle(x) = Cycle(m)
  BY CycleFacts
<1>n. Top # None
  BY <1>1, ModuleGraphAssumption
<1>3. \A x \in Cycle(Top) : /\ x \in Modules /\ (x = Top \/ Left(x)) /\ ~Shut(x)
                            /\ cycleRoot'[x] = Top
  <2>1. \A x \in Cycle(Top) : x \in Modules /\ (x = Top \/ Left(x)) /\ Cycle(x) = Cycle(Top)
    BY <1>1, <1>c, RunCycle
  <2>2. \A x \in Cycle(Top) : ~Shut(x)
    BY <1>1, <1>c, <2>1 DEF EvalInv, ShutInv, Shut
  <2>3. \A x \in Cycle(Top) : status[x] \in {"evaluating", "ran", "async"}
    BY <1>1, <2>1 DEF Left
  <2> QED
    BY <1>1, <2>1, <2>2, <2>3
<1>4. \A x \in Cycle(Top) : status'[x] = IF x = Top THEN (IF Outcome = "async" THEN "async" ELSE "evaluated")
                                         ELSE IF status[x] = "ran" THEN "evaluated" ELSE "async"
  BY <1>1, <1>3 DEF Left
<1>5. \A m \in Modules : m \notin Cycle(Top) => status'[m] = status[m] /\ cycleRoot'[m] = cycleRoot[m]
  BY <1>1, <1>c
<1>s. \A m \in Modules : Shut(m)' = (Shut(m) \/ m \in Cycle(Top))
  BY <1>3, <1>5, <1>n DEF Shut
<1>l. \A m \in Modules : Left(m)' = (Left(m) /\ m \notin Cycle(Top))
  BY <1>3, <1>4, <1>5, <1>n DEF Left
<1>o. \A m \in Modules : Left(m) /\ m \notin Cycle(Top) =>
        \A s \in Cycle(m) : s \notin Cycle(Top) /\ s # Top
  BY <1>1, <1>c, RunCycle
<1>d. \A m \in Cycle(Top) : \A d \in Imports[m] : Shut(d) \/ d \in Cycle(Top)
  <2> TAKE m \in Cycle(Top)
  <2> TAKE d \in Imports[m]
  <2>1. CASE m = Top
    BY <1>1, <2>1, RunImports DEF Run
  <2>2. CASE Left(m)
    BY <1>1, <1>3, <1>c, <2>2 DEF EvalInv, LeftInv
  <2> QED
    BY <1>3, <2>1, <2>2
<1>r. \A m \in Modules : Shut(m) => /\ cycleRoot[m] \in Modules /\ Shut(cycleRoot[m])
                                    /\ cycleRoot[m] \notin Cycle(Top) /\ m \notin Cycle(Top)
  BY <1>3, <1>c DEF EvalInv, ShutInv, Shut
<1>6. LeftInv'
  <2> SUFFICES ASSUME NEW m \in Modules, Left(m), m \notin Cycle(Top)
               PROVE  /\ \E s \in OnPath(Below) : s \in Cycle(m)
                      /\ \A d \in Imports[m] : Shut(d)' \/ (d \in Cycle(m) /\ (Left(d)' \/ d \in OnPath(Below)))
    BY <1>1, <1>l DEF LeftInv
  <2>1. PICK s \in Under : s \in Cycle(m)
    BY DEF EvalInv, LeftInv
  <2>2. s \in OnPath(Below)
    BY <1>2, <1>o, <2>1
  <2>3. ASSUME NEW d \in Imports[m]
        PROVE  Shut(d)' \/ (d \in Cycle(m) /\ (Left(d)' \/ d \in OnPath(Below)))
    <3>1. d \in Modules /\ (Shut(d) \/ (d \in Cycle(m) /\ (Left(d) \/ d \in Under)))
      BY <1>i DEF EvalInv, LeftInv
    <3>2. d \in Cycle(m) => d \notin Cycle(Top) /\ d # Top
      BY <1>o
    <3> QED
      BY <1>2, <1>l, <1>s, <3>1, <3>2
  <2> QED
    BY <2>1, <2>2, <2>3
<1>7. ShutInv'
  <2> SUFFICES /\ \A m \in Modules : Shut(m) \/ m \in Cycle(Top) =>
                    /\ cycleRoot'[m] \in Cycle(m)
                    /\ status'[m] \in {"async", "evaluated", "errored"}
                    /\ \A x \in Cycle(m) : cycleRoot'[x] = cycleRoot'[m]
                    /\ \A d \in Imports[m] : Shut(d)'
               /\ \A m \in Modules : status'[m] = "evaluated" => Shut(m) \/ m \in Cycle(Top)
    BY <1>s DEF ShutInv
  <2>1. ASSUME NEW m \in Cycle(Top)
        PROVE  /\ cycleRoot'[m] \in Cycle(m)
               /\ status'[m] \in {"async", "evaluated", "errored"}
               /\ \A x \in Cycle(m) : cycleRoot'[x] = cycleRoot'[m]
               /\ \A d \in Imports[m] : Shut(d)'
    <3>1. Cycle(m) = Cycle(Top) /\ Top \in Cycle(m)
      BY <1>1, <1>c
    <3>2. \A d \in Imports[m] : Shut(d)'
      BY <1>3, <1>d, <1>i, <1>s
    <3> QED
      BY <1>3, <1>4, <3>1, <3>2
  <2>2. ASSUME NEW m \in Modules, Shut(m)
        PROVE  /\ cycleRoot'[m] \in Cycle(m)
               /\ status'[m] \in {"async", "evaluated", "errored"}
               /\ \A x \in Cycle(m) : cycleRoot'[x] = cycleRoot'[m]
               /\ \A d \in Imports[m] : Shut(d)'
    <3>1. m \notin Cycle(Top) /\ \A x \in Cycle(m) : x \in Modules /\ x \notin Cycle(Top)
      BY <1>1, <1>c, <1>r, <2>2
    <3>2. \A d \in Imports[m] : Shut(d) /\ d \in Modules
      BY <1>i, <2>2 DEF EvalInv, ShutInv
    <3> QED
      BY <1>5, <1>s, <2>2, <3>1, <3>2 DEF EvalInv, ShutInv
  <2>3. \A m \in Modules : status'[m] = "evaluated" => Shut(m) \/ m \in Cycle(Top)
    BY <1>5 DEF EvalInv, ShutInv
  <2> QED
    BY <2>1, <2>2, <2>3
<1>8. AwaitedInv'
  <2>1. ASSUME NEW m \in Modules, Left(m), m \notin Cycle(Top), status'[m] = "async"
        PROVE  \E s \in OnPath(Below) : s \in Modules /\ s \in Cycle(m) /\
            \E y \in Imports[s] : /\ y \in Cycle(m) /\ status'[y] = "async" /\ Left(y)'
                                  /\ m \in Reach(awaiting', y)
    <3>1. status[m] = "async"
      BY <1>5, <2>1
    <3>2. PICK s \in Under : s \in Cycle(m) /\
            \E y \in Imports[s] : /\ y \in Cycle(m) /\ status[y] = "async" /\ Left(y)
                                  /\ m \in Reach(awaiting, y)
      BY <2>1, <3>1 DEF EvalInv, AwaitedInv
    <3>3. PICK y \in Imports[s] : /\ y \in Cycle(m) /\ status[y] = "async" /\ Left(y)
                                  /\ m \in Reach(awaiting, y)
      BY <3>2
    <3>4. s \in OnPath(Below) /\ s \in Modules /\ y \in Modules /\ y \notin Cycle(Top)
      BY <1>2, <1>c, <1>o, <2>1, <3>2, <3>3
    <3>5. m \in Reach(awaiting', y)
      BY <3>3, <3>4, RunWaits
    <3> QED
      BY <1>5, <1>l, <3>2, <3>3, <3>4, <3>5
  <2>2. ASSUME NEW m \in Modules, Shut(m) \/ m \in Cycle(Top), status'[m] = "async"
        PROVE  m \in Reach(awaiting', cycleRoot'[m])
    <3>1. CASE m \in Cycle(Top)
      <4>1. CASE m = Top
        BY <1>3, <3>1, <4>1, ReachSelf
      <4>2. CASE m # Top
        BY <1>3, <1>4, <2>2, <3>1, <4>2, RunCycle DEF Left
      <4> QED
        BY <4>1, <4>2
    <3>2. CASE m \notin Cycle(Top)
      <4>1. /\ status[m] = "async" /\ cycleRoot'[m] = cycleRoot[m] /\ cycleRoot[m] \in Modules
            /\ m \in Reach(awaiting, cycleRoot[m])
        BY <1>5, <1>r, <2>2, <3>2 DEF EvalInv, AwaitedInv
      <4> QED
        BY <4>1, RunWaits
    <3> QED
      BY <3>1, <3>2
  <2>3. \A m \in Modules : Left(m)' /\ status'[m] = "async" =>
            \E s \in Under' : s \in Cycle(m) /\
               \E y \in Imports[s] : /\ y \in Cycle(m) /\ status'[y] = "async" /\ Left(y)'
                                     /\ m \in Reach(awaiting', y)
    BY <2>1, <1>1, <1>l
  <2>4. \A m \in Modules : Shut(m)' /\ status'[m] = "async" => m \in Reach(awaiting', cycleRoot'[m])
    BY <2>2, <1>s
  <2> QED
    BY <2>3, <2>4 DEF AwaitedInv, Reach
<1>9. RootInv'
  <2>1. ASSUME NEW m \in Cycle(Top)
        PROVE  /\ status'[Top] = "evaluated" => status'[m] = "evaluated"
               /\ status'[m] # "errored"
    <3>1. Top \in Cycle(Top) /\ (status[m] = "async" /\ Left(m) => Outcome = "async")
      BY <1>1, <1>c, RunCycle
    <3> QED
      BY <1>1, <1>3, <1>4, <3>1 DEF Left
  <2>2. ASSUME NEW m \in Modules, Shut(m)
        PROVE  /\ status'[cycleRoot'[m]] = "evaluated" => status'[m] = "evaluated"
               /\ status'[m] = "errored" => status'[cycleRoot'[m]] = "errored"
    BY <1>5, <1>r, <2>2 DEF EvalInv, RootInv
  <2> QED
    BY <1>3, <1>s, <2>1, <2>2 DEF RootInv
<1>t. \A m \in Modules : \A d \in awaiting[m] :
        status[m] \in {"async", "evaluated"} => d \in Modules /\ d # Top
  BY <1>1 DEF EvalInv, WaitsInv, TypeOK
<1>e. \A d \in Modules : status[d] \in {"async", "evaluated"} /\ d # Top => status'[d] = status[d]
  BY <1>1, <1>4, <1>5
<1>u. \A d \in WaitedFor : /\ status[d] = "async" /\ d # Top /\ d \in Modules
                           /\ Shut(d) \/ d \in Imports[Top]
  <2> SUFFICES ASSUME NEW e \in Imports[Top], status[SettlesWith(e)] = "async"
               PROVE  LET d == SettlesWith(e) IN
                      d # Top /\ d \in Modules /\ (Shut(d) \/ d \in Imports[Top])
    BY DEF WaitedFor, Needs
  <2>1. e \in Modules
    BY <1>1, <1>i
  <2>2. CASE Shut(e)
    BY <1>1, <1>r, <2>1, <2>2 DEF SettlesWith, Shut
  <2>3. CASE ~Shut(e)
    BY <1>1, <2>1, <2>3 DEF SettlesWith, Shut
  <2> QED
    BY <2>2, <2>3
<1>10. WaitsInv'
  <2>1. ASSUME NEW m \in Modules
        PROVE status'[m] \notin {"async", "evaluated", "errored"} => awaiting'[m] = {}
    <3>1. CASE m \in Cycle(Top)
      BY <1>4, <3>1
    <3>2. CASE m \notin Cycle(Top)
      BY <1>1, <1>5, <1>c, <3>2 DEF EvalInv, WaitsInv
    <3> QED
      BY <3>1, <3>2
  <2>2. ASSUME NEW m \in Modules, NEW d \in awaiting'[m]
        PROVE  /\ status'[m] = "evaluated" => status'[d] = "evaluated"
               /\ status'[m] = "async" => status'[d] \in {"async", "evaluated"}
               /\ Left(m)' \/ Shut(m)' => Shut(d)' \/ d \in Imports[m]
    <3>1. d \in Modules
      BY RunWaits
    <3>2. CASE m = Top
      <4>1. d \in WaitedFor /\ Outcome = "async" /\ Top \in Cycle(Top)
        BY <1>1, <1>c, <2>2, <3>2
      <4>2. status'[m] = "async" /\ status'[d] = "async"
        BY <1>4, <1>e, <1>u, <3>1, <3>2, <4>1
      <4> QED
        BY <1>s, <1>u, <3>1, <3>2, <4>1, <4>2
    <3>3. CASE m # Top
      <4>1. d \in awaiting[m]
        BY <1>1, <2>2, <3>3
      <4>2. Left(m)' \/ Shut(m)' => Shut(d)' \/ d \in Imports[m]
        BY <1>3, <1>l, <1>s, <3>1, <3>3, <4>1 DEF EvalInv, WaitsInv
      <4>3. status[m] # "ran"
        BY <4>1 DEF EvalInv, WaitsInv
      <4>4. status'[m] = status[m]
        BY <1>1, <3>3, <4>3
      <4>5. status'[m] = "evaluated" => status'[d] = "evaluated"
        BY <1>e, <1>t, <4>1, <4>4 DEF EvalInv, WaitsInv
      <4>6. status'[m] = "async" => status'[d] \in {"async", "evaluated"}
        BY <1>e, <1>t, <4>1, <4>4 DEF EvalInv, WaitsInv
      <4> QED
        BY <4>2, <4>5, <4>6
    <3> QED
      BY <3>2, <3>3
  <2> QED
    BY <2>1, <2>2 DEF WaitsInv
<1>11. NeedsInv'
  <2> SUFFICES ASSUME NEW m \in Modules, Left(m) \/ Shut(m) \/ m = Top, NEW d \in Imports[m],
                      Shut(d) \/ d \in Cycle(Top), d \notin Cycle(m)
               PROVE  status'[cycleRoot'[d]] = "evaluated" \/ cycleRoot'[d] \in awaiting'[m]
    <3>1. \A m \in Modules : Left(m)' \/ Shut(m)' => Left(m) \/ Shut(m) \/ m = Top
      BY <1>3, <1>l, <1>s
    <3> QED
      BY <1>s, <1>i, <3>1 DEF NeedsInv
  <2>1. d \in Modules
    BY <1>i
  <2>2. Shut(d)
    <3>1. CASE m = Top
      BY <1>1, <3>1, RunImports DEF Run
    <3>2. CASE Left(m)
      BY <3>2 DEF EvalInv, LeftInv
    <3>3. CASE Shut(m)
      BY <3>3 DEF EvalInv, ShutInv
    <3> QED
      BY <3>1, <3>2, <3>3
  <2>3. cycleRoot'[d] = cycleRoot[d] /\ status'[cycleRoot[d]] = status[cycleRoot[d]]
    BY <1>5, <1>r, <2>1, <2>2
  <2>4. CASE m = Top
    <3>1. cycleRoot[d] \in Needs /\ status[cycleRoot[d]] \in {"async", "evaluated"}
      BY <1>1, <2>2, <2>4, RunImports DEF Run
    <3> QED
      BY <1>1, <2>3, <2>4, <3>1 DEF WaitedFor
  <2>5. CASE m # Top
    BY <1>1, <2>2, <2>3, <2>5 DEF EvalInv, NeedsInv
  <2> QED
    BY <2>4, <2>5
<1> QED
  BY <1>6, <1>7, <1>8, <1>9, <1>10, <1>11, RunPath DEF EvalInv

(* A body that ends keeps EvalInv. *)
LEMMA EvalRun == ASSUME TypeOK, EvalInv, Run PROVE EvalInv'
  BY RunLeaves, RunEnds

-----------------------------------------------------------------------------
(* The sequence that is left when one of its members is taken out.             *)
LEMMA WithoutFacts ==
    ASSUME NEW S, settling \in Seq(S), NEW i \in DOMAIN settling
    PROVE  /\ Without(i) \in Seq(S) /\ OnPath(Without(i)) \subseteq OnPath(settling)
           /\ (\A j, k \in DOMAIN settling : j # k => settling[j] # settling[k]) =>
                 /\ OnPath(Without(i)) = OnPath(settling) \ {settling[i]}
                 /\ \A j, k \in DOMAIN Without(i) : j # k => Without(i)[j] # Without(i)[k]
<1> DEFINE n == Len(settling)
           r == Without(i)
<1>1. n \in Nat /\ i \in 1..n /\ DOMAIN settling = 1..n
  OBVIOUS
<1> DEFINE A == SubSeq(settling, 1, i - 1)
           B == SubSeq(settling, i + 1, n)
<1>2. A \in Seq(S) /\ Len(A) = i - 1 /\ \A k \in 1..i - 1 : A[k] = settling[k]
  BY <1>1
<1>3. B \in Seq(S) /\ Len(B) = n - i /\ \A k \in 1..n - i : B[k] = settling[k + i]
  BY <1>1
<1>a. r = A \o B
  BY DEF Without
<1> HIDE DEF A, B, r
<1>c. /\ A \o B \in Seq(S) /\ Len(A \o B) = Len(A) + Len(B)
      /\ \A k \in 1..Len(A) + Len(B) :
            (A \o B)[k] = IF k <= Len(A) THEN A[k] ELSE B[k - Len(A)]
  BY <1>2, <1>3, ConcatProperties
<1>b. r \in Seq(S) /\ Len(r) = n - 1
  <2>1. Len(A) + Len(B) = n - 1
    BY <1>1, <1>2, <1>3
  <2> QED
    BY <1>a, <1>c, <2>1
<1>d. \A k \in 1..i - 1 : r[k] = settling[k]
  <2> TAKE k \in 1..i - 1
  <2>1. k \in 1..Len(A) + Len(B) /\ k <= Len(A)
    BY <1>1, <1>2, <1>3
  <2> QED
    BY <1>2, <1>a, <1>c, <2>1
<1>e. ASSUME NEW k \in i..n - 1 PROVE r[k] = settling[k + 1]
  <2>1. k \in 1..Len(A) + Len(B) /\ ~(k <= Len(A)) /\ k - Len(A) = k - i + 1
    BY <1>1, <1>2, <1>3
  <2>2. r[k] = B[k - Len(A)]
    BY <1>a, <1>c, <2>1
  <2>3. k - i + 1 \in 1..n - i /\ (k - i + 1) + i = k + 1
    BY <1>1
  <2> QED
    BY <1>3, <2>1, <2>2, <2>3
<1>4. /\ r \in Seq(S) /\ Len(r) = n - 1 /\ DOMAIN r = 1..n - 1
      /\ \A k \in 1..i - 1 : r[k] = settling[k]
      /\ \A k \in i..n - 1 : r[k] = settling[k + 1]
  BY <1>b, <1>d, <1>e
<1>5. OnPath(r) \subseteq OnPath(settling)
  BY <1>1, <1>4 DEF OnPath
<1>6. ASSUME \A j, k \in DOMAIN settling : j # k => settling[j] # settling[k]
      PROVE  /\ OnPath(r) = OnPath(settling) \ {settling[i]}
             /\ \A j, k \in DOMAIN r : j # k => r[j] # r[k]
  <2>1. settling[i] \notin OnPath(r)
    BY <1>1, <1>4, <1>6 DEF OnPath
  <2>2. ASSUME NEW k \in 1..n, k # i PROVE settling[k] \in OnPath(r)
    <3>1. CASE k < i
      <4>1. k \in 1..i - 1 /\ k \in 1..Len(r)
        BY <1>1, <1>4, <3>1
      <4> QED
        BY <1>4, <4>1 DEF OnPath
    <3>2. CASE k > i
      <4>1. k - 1 \in i..n - 1 /\ k - 1 \in 1..Len(r) /\ (k - 1) + 1 = k
        BY <1>1, <1>4, <3>2
      <4> QED
        BY <1>4, <4>1 DEF OnPath
    <3> QED
      BY <1>1, <2>2, <3>1, <3>2
  <2>3. OnPath(r) = OnPath(settling) \ {settling[i]}
    BY <1>1, <1>5, <2>1, <2>2 DEF OnPath
  <2> DEFINE at(j) == IF j < i THEN j ELSE j + 1
  <2>5. \A j \in 1..n - 1 : r[j] = settling[at(j)] /\ at(j) \in 1..n
    BY <1>1, <1>4
  <2>6. \A j, k \in 1..n - 1 : j # k => at(j) # at(k)
    BY <1>1
  <2> HIDE DEF at
  <2>4. \A j, k \in DOMAIN r : j # k => r[j] # r[k]
    BY <1>1, <1>4, <1>6, <2>5, <2>6
  <2> QED
    BY <2>3, <2>4
<1> QED
  BY <1>4, <1>5, <1>6 DEF r

(* The sequence that a request joins. *)
LEMMA AppendFacts ==
    ASSUME NEW S, NEW s \in Seq(S), NEW x \in S
    PROVE  /\ Append(s, x) \in Seq(S) /\ OnPath(Append(s, x)) = OnPath(s) \cup {x}
           /\ (\A j, k \in DOMAIN s : j # k => s[j] # s[k]) /\ x \notin OnPath(s) =>
                 \A j, k \in DOMAIN Append(s, x) : j # k => Append(s, x)[j] # Append(s, x)[k]
<1>1. /\ Append(s, x) \in Seq(S) /\ Len(Append(s, x)) = Len(s) + 1 /\ Len(s) \in Nat
      /\ \A i \in 1..Len(s) : Append(s, x)[i] = s[i]
      /\ Append(s, x)[Len(s) + 1] = x
  OBVIOUS
<1>2. 1..Len(s) + 1 = (1..Len(s)) \cup {Len(s) + 1}
  BY <1>1
<1>3. OnPath(Append(s, x)) = OnPath(s) \cup {x}
  BY <1>1, <1>2 DEF OnPath
<1>4. ASSUME \A j, k \in DOMAIN s : j # k => s[j] # s[k], x \notin OnPath(s)
      PROVE  \A j, k \in DOMAIN Append(s, x) : j # k => Append(s, x)[j] # Append(s, x)[k]
  <2>1. \A j \in 1..Len(s) : s[j] # x
    BY <1>4 DEF OnPath
  <2> QED
    BY <1>1, <1>2, <1>4, <2>1
<1> QED
  BY <1>1, <1>3, <1>4

(* What the recorded edges reach is in the module map, with a referrer's imports. *)
LEMMA ReachOverFacts ==
    ASSUME TypeOK, NEW m \in compiled, \A r \in deps : Imports[r] \subseteq compiled
    PROVE  /\ ReachOver(deps, m) \subseteq compiled /\ ReachOver(deps, m) \subseteq Graph(m)
           /\ m \in ReachOver(deps, m)
           /\ \A r \in ReachOver(deps, m) : r \in deps => Imports[r] \subseteq ReachOver(deps, m)
<1> DEFINE next == [r \in Modules |-> IF r \in deps THEN Imports[r] ELSE {}]
<1>1. compiled \in SUBSET Modules /\ m \in Modules
  BY DEF TypeOK
<1>2. next \in [Modules -> SUBSET Modules]
  BY ModuleGraphAssumption
<1>3. \A r \in Modules : next[r] = IF r \in deps THEN Imports[r] ELSE {}
  OBVIOUS
<1>4. ReachOver(deps, m) = Reach(next, m)
  BY DEF ReachOver
<1> HIDE DEF next
<1>5. Reach(next, m) \subseteq compiled
  BY <1>1, <1>3, ReachLeast
<1>6. Reach(next, m) \subseteq Graph(m)
  <2>1. Graph(m) \in SUBSET Modules /\ m \in Graph(m)
    BY <1>1, GraphFacts
  <2>2. \A y \in Graph(m) : next[y] \subseteq Graph(m)
    BY <1>1, <1>3, <2>1, GraphFacts
  <2> QED
    BY <2>1, <2>2, ReachLeast
<1>7. m \in Reach(next, m)
  BY <1>1, ReachSelf
<1>8. \A r \in Reach(next, m) : r \in deps => Imports[r] \subseteq Reach(next, m)
  <2> TAKE r \in Reach(next, m)
  <2>1. next[r] \subseteq Reach(next, m) /\ r \in Modules
    BY <1>2, ReachNext, ReachModules
  <2> QED
    BY <1>3, <2>1
<1> QED
  BY <1>4, <1>5, <1>6, <1>7, <1>8

(* The graph of a linked module is in what its edges reach. *)
LEMMA LinkedGraph ==
    ASSUME TypeOK, LinkInv, MapInv, NEW m \in compiled, status[m] # "unlinked"
    PROVE  Graph(m) \subseteq ReachOver(deps, m)
<1> DEFINE S == {x \in ReachOver(deps, m) : status[x] # "unlinked"}
<1>1. m \in Modules /\ compiled \subseteq Modules
  BY DEF TypeOK
<1>2. \A r \in deps : Imports[r] \subseteq compiled
  BY DEF MapInv
<1>3. /\ ReachOver(deps, m) \subseteq compiled /\ m \in ReachOver(deps, m)
      /\ \A r \in ReachOver(deps, m) : r \in deps => Imports[r] \subseteq ReachOver(deps, m)
  BY <1>2, ReachOverFacts
<1>4. S \in SUBSET Modules /\ m \in S
  BY <1>1, <1>3
<1>5. \A y \in S : Imports[y] \subseteq S
  <2> SUFFICES ASSUME NEW y \in S, NEW d \in Imports[y] PROVE d \in S
    OBVIOUS
  <2>1. y \in deps /\ status[d] # "unlinked"
    BY <1>1, <1>3 DEF MapInv, LinkInv
  <2> QED
    BY <1>3, <2>1
<1> HIDE DEF S
<1>6. Graph(m) \subseteq S
  BY <1>4, <1>5, GraphLeast
<1> QED
  BY <1>6 DEF S

-----------------------------------------------------------------------------
(* Types are kept. A settled import names a compiled module, so that the tables only  *)
(* take in modules of the module map.                                          *)
LEMMA TypeHost ==
    ASSUME TypeOK, EvalInv, MapInv, PlacesInv, Host
    PROVE  TypeOK'
<1>t. /\ job \in Requests \cup {Main} /\ frontier \cup walked \subseteq compiled
      /\ compiled \subseteq Modules /\ deps \cup errored \cup evaluated_ok \subseteq compiled
      /\ pending \cup batch \cup rejecting \subseteq Requests /\ settling \in Seq(Requests)
      /\ target \in [Requests \cup {Main} -> Modules \cup {None}]
      /\ promise \in [Requests -> {"idle", "pending", "resolved", "failed", "rejected"}]
      /\ status \in [Modules -> {"unlinked", "linked", "evaluating", "ran", "async",
                                 "evaluated", "errored"}]
      /\ stack \in Seq(Modules) /\ awaiting \in [Modules -> SUBSET Modules]
      /\ cycleRoot \in [Modules -> Modules \cup {None}]
      /\ pc \in {"load", "link", "evaluate", "tick", "settle", "micro", "host", "dead"}
  BY DEF TypeOK
<1>i. \A m \in Modules : Imports[m] \subseteq Modules
  BY ModuleGraphAssumption
<1>b. \A q \in Requests : q \in batch => target[q] \in Modules
  BY DEF MapInv, PlacesInv
<1>1. ASSUME TakePending \/ Microtasks \/ HostDone \/ SettleDone PROVE TypeOK'
  BY <1>1, <1>t DEF TypeOK, TakePending, Microtasks, HostDone, SettleDone, loader, tables, queues, v8
<1>2. ASSUME NEW q \in Requests, LoadForDynamicImport(q) PROVE TypeOK'
  BY <1>2, <1>t, <1>b DEF TypeOK, LoadForDynamicImport, loader, tables, v8
<1>3. ASSUME NEW m \in Modules, Walk(m) PROVE TypeOK'
  BY <1>3, <1>t, <1>i DEF TypeOK, Walk, tables, queues, v8
<1>4. ASSUME NEW m \in Modules, NEW b \in SUBSET Modules, WalkFails(m, b) PROVE TypeOK'
  BY <1>4, <1>t, <1>i DEF TypeOK, WalkFails, JobFails, tables, v8
<1>5. ASSUME InstantiateFails PROVE TypeOK'
  BY <1>5, <1>t DEF TypeOK, InstantiateFails, JobFails, v8
<1>6. ASSUME Instantiate PROVE TypeOK'
  <2>1. status' \in [Modules -> {"unlinked", "linked", "evaluating", "ran", "async",
                                 "evaluated", "errored"}]
    BY <1>6, <1>t DEF Instantiate, Linked
  <2> QED
    BY <1>6, <1>t, <2>1 DEF TypeOK, Instantiate, loader, queues
<1>7. ASSUME NEW m \in Modules, Evaluate(m), status[m] # "linked" => job # Main PROVE TypeOK'
  <2>1. CASE status[m] = "linked"
    <3>1. /\ pc' = "evaluate" /\ stack' = <<m>> /\ status' = [status EXCEPT ![m] = "evaluating"]
          /\ UNCHANGED <<settling, job, loader, tables, pending, batch, rejecting, target, promise,
                         awaiting, cycleRoot>>
      BY <1>7, <2>1 DEF Evaluate
    <3>2. <<m>> \in Seq(Modules)
      OBVIOUS
    <3>3. status' \in [Modules -> {"unlinked", "linked", "evaluating", "ran", "async",
                                   "evaluated", "errored"}]
      BY <1>t, <3>1
    <3> QED
      BY <3>1, <3>2, <3>3, <1>t DEF TypeOK, loader, tables
  <2>2. CASE status[m] # "linked"
    <3>1. job \in Requests /\ settling' = Append(settling, job)
      BY <1>7, <2>2, <1>t DEF Evaluate
    <3>2. settling' \in Seq(Requests)
      BY <1>t, <3>1, AppendFacts
    <3> QED
      BY <1>7, <2>2, <3>2, <1>t DEF TypeOK, Evaluate, loader, tables
  <2> QED
    BY <2>1, <2>2
<1>8. ASSUME EvaluateEntry PROVE TypeOK'
  <2>1. Evaluate(Entry) /\ status[Entry] = "linked" /\ Entry \in Modules
    BY <1>8, ModuleGraphAssumption DEF EvaluateEntry, MapInv
  <2> QED
    BY <1>7, <2>1
<1>9. ASSUME LinkDynamic PROVE TypeOK'
  <2>1. CASE target[job] \in errored
    BY <1>9, <2>1, <1>t DEF TypeOK, LinkDynamic, loader, tables, v8
  <2>2. CASE target[job] \notin errored
    <3>1. Evaluate(target[job]) /\ job # Main /\ target[job] \in Modules
      BY <1>9, <2>2, <1>t DEF LinkDynamic, MapInv, InFlight
    <3> QED
      BY <1>7, <3>1
  <2> QED
    BY <2>1, <2>2
<1>10. ASSUME NEW d \in Modules, Descend(d) PROVE TypeOK'
  <2>1. stack' \in Seq(Modules)
    BY <1>10, <1>t DEF Descend
  <2> QED
    BY <1>10, <2>1, <1>t DEF TypeOK, Descend, loader, tables, queues
<1>11. ASSUME NEW s \in Seq(Modules), Pop(s)
       PROVE  /\ pc' \in {"load", "link", "evaluate", "tick", "settle", "micro", "host", "dead"}
              /\ settling' \in Seq(Requests) /\ stack' \in Seq(Modules)
  <2>1. job # Main => job \in Requests /\ Append(settling, job) \in Seq(Requests)
    BY <1>t, AppendFacts
  <2> QED
    BY <1>11, <1>t, <2>1 DEF Pop
<1>12. ASSUME Run PROVE TypeOK'
  <2>1. Below \in Seq(Modules) /\ Top \in Modules /\ Pop(Below)
    BY <1>12, BelowFacts, TopFacts DEF Run, ReadyToRun, EvalInv
  <2>2. /\ status' = [m \in Modules |-> status'[m]] /\ cycleRoot' = [m \in Modules |-> cycleRoot'[m]]
        /\ UNCHANGED <<job, loader, tables, pending, batch, rejecting, target, promise>>
    BY <1>12 DEF Run
  <2>3. \A m \in Modules : status'[m] \in {"unlinked", "linked", "evaluating", "ran", "async",
                                           "evaluated", "errored"}
    BY <1>12, <1>t, RunStep
  <2>4. \A m \in Modules : cycleRoot'[m] \in Modules \cup {None}
    BY <1>12, <1>t, <2>1, RunStep
  <2>5. awaiting' \in [Modules -> SUBSET Modules]
    BY <1>12, RunWaits
  <2>6. /\ status' \in [Modules -> {"unlinked", "linked", "evaluating", "ran", "async",
                                    "evaluated", "errored"}]
        /\ cycleRoot' \in [Modules -> Modules \cup {None}]
    BY <2>2, <2>3, <2>4
  <2> QED
    BY <1>t, <1>11, <2>1, <2>2, <2>5, <2>6 DEF TypeOK, loader, tables
<1>13. ASSUME Throw PROVE TypeOK'
  <2>1. /\ <<>> \in Seq(Modules) /\ Pop(<<>>)
        /\ status' \in [Modules -> {"unlinked", "linked", "evaluating", "ran", "async",
                                    "evaluated", "errored"}]
    BY <1>13, <1>t DEF Throw
  <2> QED
    BY <1>13, <1>t, <1>11, <2>1 DEF TypeOK, Throw, loader, tables
<1>14. ASSUME SettleBegin PROVE TypeOK'
  <2>1. promise' \in [Requests -> {"idle", "pending", "resolved", "failed", "rejected"}]
    BY <1>14, <1>t DEF SettleBegin
  <2> QED
    BY <1>14, <2>1, <1>t DEF TypeOK, SettleBegin, loader, tables, v8
<1>15. ASSUME NEW i \in DOMAIN settling, SettleOk(i) \/ SettleFailed(i) PROVE TypeOK'
  <2>1. settling[i] \in Requests /\ InFlight(settling[i])
    BY <1>t DEF InFlight, OnPath
  <2>2. target[settling[i]] \in compiled /\ \A r \in deps : Imports[r] \subseteq compiled
    BY <2>1 DEF MapInv
  <2>3. ReachOver(deps, target[settling[i]]) \subseteq compiled
    BY <2>2, ReachOverFacts
  <2>4. Without(i) \in Seq(Requests)
    BY <1>t, WithoutFacts
  <2> HIDE DEF Without
  <2>5. CASE SettleOk(i)
    BY <1>t, <2>3, <2>4, <2>5 DEF TypeOK, SettleOk, loader, v8
  <2>6. CASE SettleFailed(i)
    BY <1>t, <2>3, <2>4, <2>6 DEF TypeOK, SettleFailed, loader, v8
  <2> QED
    BY <1>15, <2>5, <2>6
<1> QED
  BY <1>1, <1>2, <1>3, <1>4, <1>5, <1>6, <1>8, <1>9, <1>10, <1>12, <1>13, <1>14, <1>15 DEF Host

(* Every step keeps the types. *)
LEMMA TypeStep ==
    ASSUME TypeOK, EvalInv, MapInv, PlacesInv, [Next]_vars
    PROVE  TypeOK'
<1>1. ASSUME Guest PROVE TypeOK'
  <2> PICK q \in Requests, m \in Modules : Import(q, m)
    BY <1>1 DEF Guest
  <2> QED
    BY DEF TypeOK, Import, loader, tables, v8
<1>2. ASSUME Ending PROVE TypeOK'
  <2> PICK m \in Modules, b \in BOOLEAN : AsyncEnds(m, b)
    BY <1>2 DEF Ending
  <2>1. status' \in [Modules -> {"unlinked", "linked", "evaluating", "ran", "async",
                                 "evaluated", "errored"}]
    BY DEF TypeOK, AsyncEnds
  <2> QED
    BY <2>1 DEF TypeOK, AsyncEnds, loader, tables, queues
<1>3. ASSUME UNCHANGED vars PROVE TypeOK'
  BY <1>3 DEF TypeOK, vars, loader, tables, queues, v8
<1> QED
  BY <1>1, <1>2, <1>3, TypeHost DEF Next, Dead

(* Every step keeps what V8's evaluation keeps.                               *)
LEMMA EvalStep ==
    ASSUME TypeOK, EvalInv, MapInv, [Next]_vars
    PROVE  EvalInv'
<1>t. job \in Requests \cup {Main} /\ compiled \subseteq Modules
  BY DEF TypeOK
<1>j. pc \in {"load", "link", "evaluate"} => target[job] \in Modules
  BY <1>t DEF MapInv, InFlight
<1>0. ASSUME UNCHANGED v8, pc # "evaluate", pc' # "evaluate" PROVE EvalInv'
  BY <1>0, EvalFrame
<1>1. ASSUME TakePending \/ Microtasks \/ HostDone \/ SettleDone \/ SettleBegin PROVE EvalInv'
  BY <1>0, <1>1 DEF TakePending, Microtasks, HostDone, SettleDone, SettleBegin
<1>2. ASSUME NEW q \in Requests, LoadForDynamicImport(q) PROVE EvalInv'
  BY <1>0, <1>2 DEF LoadForDynamicImport
<1>3. ASSUME NEW m \in Modules, Walk(m) PROVE EvalInv'
  BY <1>0, <1>3 DEF Walk
<1>4. ASSUME NEW m \in Modules, NEW b \in SUBSET Modules, WalkFails(m, b) PROVE EvalInv'
  BY <1>0, <1>4 DEF WalkFails, JobFails
<1>5. ASSUME InstantiateFails PROVE EvalInv'
  BY <1>0, <1>5 DEF InstantiateFails, JobFails
<1>6. ASSUME Instantiate PROVE EvalInv'
  BY <1>6, <1>j, EvalInstantiate DEF Instantiate
<1>8. ASSUME EvaluateEntry PROVE EvalInv'
  BY <1>8, EvalBegins, ModuleGraphAssumption DEF EvaluateEntry
<1>9. ASSUME LinkDynamic PROVE EvalInv'
  <2>1. CASE target[job] \in errored
    BY <1>0, <1>9, <2>1 DEF LinkDynamic
  <2>2. CASE target[job] \notin errored
    BY <1>9, <1>j, <2>2, EvalBegins DEF LinkDynamic
  <2> QED
    BY <2>1, <2>2
<1>15. ASSUME NEW i \in DOMAIN settling, SettleOk(i) \/ SettleFailed(i) PROVE EvalInv'
  BY <1>0, <1>15 DEF SettleOk, SettleFailed
<1>16. ASSUME NEW q \in Requests, NEW m \in Modules, Import(q, m) PROVE EvalInv'
  BY <1>16, EvalFrame DEF Import
<1>17. ASSUME UNCHANGED vars PROVE EvalInv'
  BY <1>17, EvalFrame DEF vars
<1> QED
  BY <1>1, <1>2, <1>3, <1>4, <1>5, <1>6, <1>8, <1>9, EvalDescend, EvalRun, EvalThrow, EvalAsync,
     <1>15, <1>16, <1>17 DEF Next, Host, Guest, Ending, Dead

-----------------------------------------------------------------------------
(* Only instantiation links a module; a module that has been evaluated stays so, and  *)
(* so does the root of a cycle that has ended.                                  *)
LEMMA StatusKept ==
    ASSUME TypeOK, EvalInv, MapInv, [Next]_vars
    PROVE  /\ \A m \in Modules : status[m] = "evaluated" => status'[m] = "evaluated"
           /\ \A m \in Modules : Shut(m) => cycleRoot'[m] = cycleRoot[m]
           /\ Instantiate \/ \A m \in Modules : status'[m] = "unlinked" <=> status[m] = "unlinked"
<1> DEFINE Kept == /\ \A m \in Modules : status[m] = "evaluated" => status'[m] = "evaluated"
                   /\ \A m \in Modules : Shut(m) => cycleRoot'[m] = cycleRoot[m]
           Links == Instantiate \/ \A m \in Modules : status'[m] = "unlinked" <=> status[m] = "unlinked"
<1>t. status \in [Modules -> {"unlinked", "linked", "evaluating", "ran", "async",
                              "evaluated", "errored"}]
  BY DEF TypeOK
<1>0. ASSUME UNCHANGED status, UNCHANGED cycleRoot PROVE Kept /\ Links
  BY <1>0
<1>1. ASSUME TakePending \/ Microtasks \/ HostDone \/ SettleDone \/ SettleBegin PROVE Kept /\ Links
  BY <1>0, <1>1 DEF TakePending, Microtasks, HostDone, SettleDone, SettleBegin, v8
<1>2. ASSUME NEW q \in Requests, LoadForDynamicImport(q) PROVE Kept /\ Links
  BY <1>0, <1>2 DEF LoadForDynamicImport, v8
<1>3. ASSUME NEW m \in Modules, Walk(m) PROVE Kept /\ Links
  BY <1>0, <1>3 DEF Walk, v8
<1>4. ASSUME NEW m \in Modules, NEW b \in SUBSET Modules, WalkFails(m, b) PROVE Kept /\ Links
  BY <1>0, <1>4 DEF WalkFails, v8
<1>5. ASSUME InstantiateFails PROVE Kept /\ Links
  BY <1>0, <1>5 DEF InstantiateFails, v8
<1>6. ASSUME Instantiate PROVE Kept /\ Links
  <2>1. \A m \in ToLink(target[job]) : status[m] = "unlinked"
    BY <1>6, ToLinkFacts DEF MapInv, InFlight, TypeOK, Instantiate
  <2> QED
    BY <1>6, <2>1 DEF Instantiate, Linked
<1>7. ASSUME NEW m \in Modules, Evaluate(m) PROVE Kept /\ Links
  BY <1>7, <1>t DEF Evaluate
<1>8. ASSUME EvaluateEntry PROVE Kept /\ Links
  BY <1>7, <1>8, ModuleGraphAssumption DEF EvaluateEntry
<1>9. ASSUME LinkDynamic PROVE Kept /\ Links
  <2>1. CASE target[job] \in errored
    BY <1>0, <1>9, <2>1 DEF LinkDynamic, v8
  <2>2. CASE target[job] \notin errored
    <3>1. Evaluate(target[job]) /\ target[job] \in Modules
      BY <1>9, <2>2 DEF LinkDynamic, MapInv, InFlight, TypeOK
    <3> QED
      BY <1>7, <3>1
  <2> QED
    BY <2>1, <2>2
<1>10. ASSUME NEW d \in Modules, Descend(d) PROVE Kept /\ Links
  BY <1>10, <1>t DEF Descend
<1>12. ASSUME Run PROVE Kept /\ Links
  <2>1. Top \in Modules /\ status[Top] = "evaluating"
    BY <1>12, RunStep
  <2>2. \A m \in Cycle(Top) : ~Shut(m)
    <3> SUFFICES ASSUME NEW m \in Cycle(Top), Shut(m) PROVE FALSE
      OBVIOUS
    <3>1. m \in Modules /\ Top \in Cycle(m)
      BY <2>1, CycleFacts
    <3>2. cycleRoot[Top] = cycleRoot[m]
      BY <3>1 DEF EvalInv, ShutInv
    <3>3. Shut(Top)
      BY <3>2 DEF Shut
    <3> QED
      BY <2>1, <3>3 DEF EvalInv, ShutInv
  <2>3. \A m \in Modules : Shut(m) => cycleRoot'[m] = cycleRoot[m]
    BY <1>12, <2>2, RunStep
  <2> QED
    BY <1>12, <2>1, <2>3, RunStep
<1>13. ASSUME Throw PROVE Kept /\ Links
  BY <1>13, <1>t DEF Throw
<1>15. ASSUME NEW i \in DOMAIN settling, SettleOk(i) \/ SettleFailed(i) PROVE Kept /\ Links
  BY <1>0, <1>15 DEF SettleOk, SettleFailed, v8
<1>16. ASSUME NEW q \in Requests, NEW m \in Modules, Import(q, m) PROVE Kept /\ Links
  BY <1>0, <1>16 DEF Import, v8
<1>17. ASSUME UNCHANGED vars PROVE Kept /\ Links
  BY <1>0, <1>17 DEF vars, v8
<1>18. ASSUME NEW m \in Modules, NEW b \in BOOLEAN, AsyncEnds(m, b) PROVE Kept /\ Links
  BY <1>18, <1>t DEF AsyncEnds, Waiters
<1> QED
  BY <1>1, <1>2, <1>3, <1>4, <1>5, <1>6, <1>8, <1>9, <1>10, <1>12, <1>13, <1>15, <1>16, <1>17, <1>18
     DEF Next, Host, Guest, Ending, Dead

(* A graph that is fulfilled stays so.                                         *)
LEMMA FulfilledKept ==
    ASSUME TypeOK, EvalInv, MapInv, [Next]_vars, NEW m \in Modules, Fulfilled(m)
    PROVE  Shut(m) /\ Fulfilled(m)'
<1>1. Shut(m) /\ status[cycleRoot[m]] = "evaluated" /\ cycleRoot[m] \in Modules
  BY DEF Fulfilled, SettlesWith, Shut, EvalInv, ShutInv, TypeOK
<1>2. cycleRoot'[m] = cycleRoot[m] /\ status'[cycleRoot[m]] = "evaluated"
  BY <1>1, StatusKept
<1> QED
  BY <1>1, <1>2 DEF Fulfilled, SettlesWith, Shut

(* It has run whole, and all of it is fulfilled.                                *)
LEMMA FulfilledGraph ==
    ASSUME TypeOK, EvalInv, NEW m \in Modules, Fulfilled(m)
    PROVE  \A x \in Graph(m) : status[x] = "evaluated" /\ Fulfilled(x)
<1> DEFINE S == {x \in Modules : Shut(x) /\ status[cycleRoot[x]] = "evaluated"}
<1>1. \A x \in Modules : Fulfilled(x) => x \in S
  BY DEF Fulfilled, SettlesWith, Shut, EvalInv, ShutInv
<1>2. \A x \in S : Fulfilled(x) /\ status[x] = "evaluated"
  BY DEF Fulfilled, SettlesWith, Shut, EvalInv, RootInv
<1>3. \A y \in S : Imports[y] \subseteq S
  <2> SUFFICES ASSUME NEW y \in S, NEW d \in Imports[y] PROVE d \in S
    OBVIOUS
  <2>1. d \in Modules /\ Shut(d) /\ y \in Modules /\ Shut(y) /\ status[y] = "evaluated"
    BY <1>2, ModuleGraphAssumption DEF EvalInv, ShutInv
  <2>2. CASE d \in Cycle(y)
    BY <2>1, <2>2 DEF EvalInv, ShutInv
  <2>3. CASE d \notin Cycle(y)
    <3>1. status[cycleRoot[d]] = "evaluated" \/ cycleRoot[d] \in awaiting[y]
      BY <2>1, <2>3 DEF EvalInv, NeedsInv
    <3> QED
      BY <2>1, <3>1 DEF EvalInv, WaitsInv
  <2> QED
    BY <2>2, <2>3
<1> HIDE DEF S
<1>4. Graph(m) \subseteq S
  <2>1. S \in SUBSET Modules
    BY DEF S
  <2> QED
    BY <1>1, <1>3, <2>1, GraphLeast
<1> QED
  BY <1>2, <1>4

-----------------------------------------------------------------------------
(* The job joins the imports to settle when its evaluation has begun before, or ends. *)
LEMMA Settles ==
    ASSUME TypeOK, MapInv, PlacesInv, pc \in {"link", "evaluate"}, job # Main,
           settling' = Append(settling, job)
    PROVE  /\ OnPath(settling)' = OnPath(settling) \cup {job} /\ job \in Requests
           /\ promise[job] = "pending" /\ target[job] \in compiled
           /\ \A i, j \in DOMAIN settling' : i # j => settling'[i] # settling'[j]
<1>1. job \in Requests /\ settling \in Seq(Requests) /\ InFlight(job)
  BY DEF TypeOK, InFlight
<1>2. job \notin OnPath(settling) /\ \A i, j \in DOMAIN settling : i # j => settling[i] # settling[j]
  BY DEF PlacesInv
<1> QED
  BY <1>1, <1>2, AppendFacts DEF MapInv, PlacesInv, OnPath

(* An import that settles is one that waited for its answer.                     *)
LEMMA Settled ==
    ASSUME TypeOK, MapInv, PlacesInv, NEW i \in DOMAIN settling
    PROVE  /\ settling[i] \in Requests /\ promise[settling[i]] = "pending"
           /\ target[settling[i]] \in compiled /\ settling[i] \in OnPath(settling)
           /\ OnPath(Without(i)) = OnPath(settling) \ {settling[i]}
           /\ \A j, k \in DOMAIN Without(i) : j # k => Without(i)[j] # Without(i)[k]
<1>1. settling \in Seq(Requests) /\ settling[i] \in Requests /\ settling[i] \in OnPath(settling)
  BY DEF TypeOK, OnPath
<1>2. InFlight(settling[i])
  BY <1>1 DEF InFlight
<1>3. \A j, k \in DOMAIN settling : j # k => settling[j] # settling[k]
  BY DEF PlacesInv
<1>4. OnPath(Without(i)) = OnPath(settling) \ {settling[i]}
  BY <1>1, <1>3, WithoutFacts
<1>5. \A j, k \in DOMAIN Without(i) : j # k => Without(i)[j] # Without(i)[k]
  BY <1>1, <1>3, WithoutFacts
<1>6. promise[settling[i]] = "pending" /\ target[settling[i]] \in compiled
  BY <1>1, <1>2 DEF MapInv, PlacesInv
<1> QED
  BY <1>1, <1>4, <1>5, <1>6

(* A request is in one place, and waits for its answer while it is there.          *)
LEMMA PlacesStep ==
    ASSUME TypeOK, EvalInv, MapInv, PlacesInv, [Next]_vars
    PROVE  PlacesInv'
<1>t. /\ job \in Requests \cup {Main} /\ Main \notin Requests
      /\ pending \cup batch \cup rejecting \subseteq Requests /\ settling \in Seq(Requests)
      /\ promise \in [Requests -> {"idle", "pending", "resolved", "failed", "rejected"}]
  BY ModuleGraphAssumption DEF TypeOK
<1>s. \A q \in Requests : q \in OnPath(settling) => InFlight(q)
  BY DEF InFlight
<1>0. ASSUME UNCHANGED <<queues, promise, job>>,
             pc' \in {"load", "link", "evaluate"} => pc \in {"load", "link", "evaluate"}
      PROVE PlacesInv'
  BY <1>0 DEF PlacesInv, InFlight, queues, OnPath
<1>1. ASSUME Microtasks \/ HostDone \/ SettleDone \/ Instantiate PROVE PlacesInv'
  BY <1>0, <1>1 DEF Microtasks, HostDone, SettleDone, Instantiate
<1>2. ASSUME TakePending PROVE PlacesInv'
  BY <1>2 DEF TakePending, PlacesInv, InFlight, OnPath
<1>3. ASSUME NEW m \in Modules, Walk(m) \/ Descend(m) PROVE PlacesInv'
  BY <1>0, <1>3 DEF Walk, Descend
<1>4. ASSUME NEW q \in Requests, LoadForDynamicImport(q) PROVE PlacesInv'
  <2>1. promise[q] = "pending" /\ q \notin pending \cup rejecting \cup OnPath(settling)
    BY <1>4 DEF LoadForDynamicImport, PlacesInv
  <2> QED
    BY <1>4, <1>t, <2>1 DEF LoadForDynamicImport, PlacesInv, InFlight, OnPath
<1>5. ASSUME JobFails, UNCHANGED <<pending, batch, settling, promise>>, pc \in {"load", "link"}
      PROVE  PlacesInv'
  BY <1>5, <1>t DEF JobFails, PlacesInv, InFlight, OnPath
<1>6. ASSUME InstantiateFails \/ \E m \in Modules, b \in SUBSET Modules : WalkFails(m, b) PROVE PlacesInv'
  BY <1>5, <1>6 DEF InstantiateFails, WalkFails
<1>7. ASSUME pc \in {"link", "evaluate"}, UNCHANGED <<pending, batch, rejecting, promise, job>>,
             IF pc' = "evaluate" THEN UNCHANGED settling
             ELSE IF job = Main THEN pc' = "tick" /\ UNCHANGED settling
             ELSE pc' = "host" /\ settling' = Append(settling, job)
      PROVE  PlacesInv'
  <2>1. CASE UNCHANGED settling
    BY <1>0, <1>7, <2>1 DEF queues
  <2>2. CASE job # Main /\ pc' = "host" /\ settling' = Append(settling, job)
    <3>1. /\ OnPath(settling)' = OnPath(settling) \cup {job} /\ job \in Requests
          /\ promise[job] = "pending" /\ job \notin pending \cup batch \cup rejecting
          /\ \A i, j \in DOMAIN settling' : i # j => settling'[i] # settling'[j]
      BY <1>7, <2>2, Settles DEF PlacesInv
    <3> QED
      BY <1>7, <1>s, <2>2, <3>1 DEF PlacesInv, InFlight
  <2> QED
    BY <1>7, <2>1, <2>2
<1>8. ASSUME EvaluateEntry PROVE PlacesInv'
  BY <1>7, <1>8 DEF EvaluateEntry, Evaluate, MapInv
<1>9. ASSUME LinkDynamic PROVE PlacesInv'
  <2>1. CASE target[job] \in errored
    <3>1. /\ pc = "link" /\ job # Main /\ pc' = "host" /\ rejecting' = rejecting \cup {job}
          /\ UNCHANGED <<pending, batch, settling, promise>>
      BY <1>9, <2>1 DEF LinkDynamic
    <3> QED
      BY <1>t, <3>1 DEF PlacesInv, InFlight, OnPath
  <2>2. CASE target[job] \notin errored
    BY <1>7, <1>9, <2>2 DEF LinkDynamic, Evaluate
  <2> QED
    BY <2>1, <2>2
<1>10. ASSUME NEW s, pc = "evaluate", Pop(s), UNCHANGED <<pending, batch, rejecting, promise, job>>
       PROVE  PlacesInv'
  BY <1>7, <1>10 DEF Pop
<1>11. ASSUME Run \/ Throw PROVE PlacesInv'
  BY <1>10, <1>11 DEF Run, Throw, ReadyToRun
<1>14. ASSUME SettleBegin PROVE PlacesInv'
  BY <1>14, <1>t DEF SettleBegin, PlacesInv, InFlight, OnPath
<1>15. ASSUME NEW i \in DOMAIN settling, SettleOk(i) \/ SettleFailed(i) PROVE PlacesInv'
  <2> DEFINE q == settling[i]
  <2>1. /\ q \in Requests /\ q \in OnPath(settling)
        /\ OnPath(Without(i)) = OnPath(settling) \ {q}
        /\ \A j, k \in DOMAIN Without(i) : j # k => Without(i)[j] # Without(i)[k]
    BY Settled
  <2>2. /\ pc = "settle" /\ UNCHANGED <<pc, pending, batch, rejecting>> /\ settling' = Without(i)
        /\ \A x \in Requests : x # q => promise'[x] = promise[x]
    BY <1>15, <1>t DEF SettleOk, SettleFailed
  <2>3. OnPath(settling)' = OnPath(settling) \ {q}
    BY <2>1, <2>2 DEF OnPath
  <2> HIDE DEF Without, q
  <2> QED
    BY <1>t, <2>1, <2>2, <2>3 DEF PlacesInv, InFlight
<1>16. ASSUME NEW q \in Requests, NEW m \in Modules, Import(q, m) PROVE PlacesInv'
  <2>1. promise[q] = "idle"
    BY <1>16 DEF Import
  <2>2. /\ ~InFlight(q) /\ q \notin pending \cup batch \cup rejecting
        /\ pc \in {"load", "link", "evaluate"} => q # job
    BY <2>1 DEF PlacesInv, InFlight
  <2> QED
    BY <1>16, <1>t, <2>2 DEF Import, PlacesInv, InFlight, OnPath
<1>17. ASSUME UNCHANGED vars PROVE PlacesInv'
  BY <1>0, <1>17 DEF vars
<1>18. ASSUME NEW m \in Modules, NEW b \in BOOLEAN, AsyncEnds(m, b) PROVE PlacesInv'
  BY <1>0, <1>18 DEF AsyncEnds
<1> QED
  BY <1>1, <1>2, <1>3, <1>4, <1>6, <1>8, <1>9, <1>11, <1>14, <1>15, <1>16, <1>17, <1>18
     DEF Next, Host, Guest, Ending, Dead

(* The module map has what the loader and the requests under way refer to.         *)
LEMMA MapStep ==
    ASSUME TypeOK, EvalInv, MapInv, PlacesInv, [Next]_vars
    PROVE  MapInv'
<1>t. /\ job \in Requests \cup {Main} /\ Main \notin Requests /\ Entry \in Modules
      /\ pending \cup batch \cup rejecting \subseteq Requests /\ settling \in Seq(Requests)
      /\ frontier \cup walked \subseteq compiled /\ compiled \subseteq Modules
      /\ deps \subseteq compiled
      /\ target \in [Requests \cup {Main} -> Modules \cup {None}]
      /\ promise \in [Requests -> {"idle", "pending", "resolved", "failed", "rejected"}]
  BY ModuleGraphAssumption DEF TypeOK
<1>u. Instantiate \/ \A m \in Modules : status'[m] = "unlinked" <=> status[m] = "unlinked"
  BY StatusKept
<1>0. ASSUME UNCHANGED <<walked, deps, compiled, target, promise, job>>, UNCHANGED settling,
             ~Instantiate, pc' \in {"load", "link", "evaluate"} => pc \in {"load", "link", "evaluate"},
             job = Main /\ pc' = "load" => pc = "load",
             job = Main /\ pc' = "link" => pc = "link" /\ UNCHANGED status
      PROVE MapInv'
  BY <1>0, <1>u DEF MapInv, InFlight, OnPath
<1>1. ASSUME Microtasks \/ HostDone \/ SettleDone \/ TakePending PROVE MapInv'
  BY <1>0, <1>1 DEF Microtasks, HostDone, SettleDone, TakePending, Instantiate, loader, tables, queues, v8
<1>3. ASSUME NEW m \in Modules, Descend(m) PROVE MapInv'
  BY <1>0, <1>3 DEF Descend, Instantiate, loader, tables, queues
<1>4. ASSUME NEW q \in Requests, LoadForDynamicImport(q) PROVE MapInv'
  <2>1. promise[q] = "pending" /\ target[q] \in Modules /\ q # Main
    BY <1>4, <1>t DEF LoadForDynamicImport, PlacesInv, MapInv
  <2>2. /\ job' = q /\ UNCHANGED <<deps, target, promise, settling, status>> /\ walked' \subseteq walked
        /\ compiled \subseteq compiled' /\ pc = "host"
        /\ (pc' = "load" /\ target[q] \in compiled') \/ pc' = "host"
    BY <1>4, <1>t DEF LoadForDynamicImport, tables, v8
  <2> QED
    BY <1>t, <2>1, <2>2 DEF MapInv, InFlight, OnPath
<1>5. ASSUME NEW m \in Modules, Walk(m) PROVE MapInv'
  <2>1. /\ compiled' = compiled \cup Imports[m] /\ walked' = walked \cup {m}
        /\ UNCHANGED <<pc, job, deps, settling, target, promise, status>>
    BY <1>5 DEF Walk, tables, queues, v8
  <2> QED
    BY <1>t, <2>1 DEF MapInv, InFlight, OnPath
<1>6. ASSUME NEW m \in Modules, NEW b \in SUBSET Modules, WalkFails(m, b) PROVE MapInv'
  <2>1. /\ compiled \subseteq compiled' /\ walked' = {} /\ pc' \in {"dead", "host"}
        /\ UNCHANGED <<job, deps, settling, target, promise, status>>
    BY <1>6 DEF WalkFails, JobFails, tables, v8
  <2> QED
    BY <1>t, <2>1 DEF MapInv, InFlight, OnPath
<1>7. ASSUME InstantiateFails PROVE MapInv'
  <2>1. /\ UNCHANGED compiled /\ walked' = {} /\ pc' \in {"dead", "host"} /\ deps' = deps \cup walked
        /\ UNCHANGED <<job, settling, target, promise, status>>
    BY <1>7 DEF InstantiateFails, JobFails, v8
  <2> QED
    BY <1>t, <2>1 DEF MapInv, InFlight, OnPath
<1>8. ASSUME Instantiate PROVE MapInv'
  <2>1. /\ UNCHANGED <<compiled, walked, job, settling, target, promise>> /\ pc = "load" /\ pc' = "link"
        /\ deps' = deps \cup walked /\ Resolving \subseteq walked
        /\ status' = [m \in Modules |-> IF m \in ToLink(target[job]) THEN "linked" ELSE status[m]]
    BY <1>8 DEF Instantiate, Linked, loader, queues
  <2>2. \A m \in Modules : status'[m] # "unlinked" /\ Imports[m] # {} => m \in deps'
    BY <2>1 DEF MapInv, Resolving
  <2>3. ASSUME job = Main PROVE status'[Entry] = "linked"
    <3>1. target[job] = Entry /\ status[Entry] = "unlinked"
      BY <1>t, <2>1, <2>3 DEF MapInv
    <3>2. Entry \in ToLink(target[job])
      BY <1>t, <3>1, ToLinkFacts
    <3> QED
      BY <1>t, <2>1, <3>2
  <2> QED
    BY <1>t, <2>1, <2>2, <2>3 DEF MapInv, InFlight, OnPath
<1>9. ASSUME pc \in {"link", "evaluate"}, ~Instantiate,
             UNCHANGED <<walked, deps, compiled, target, promise, job>>,
             IF pc' = "evaluate" THEN UNCHANGED settling
             ELSE IF job = Main THEN pc' = "tick" /\ UNCHANGED settling
             ELSE pc' = "host" /\ settling' = Append(settling, job)
      PROVE  MapInv'
  <2>1. CASE UNCHANGED settling
    BY <1>0, <1>9, <2>1
  <2>2. CASE job # Main /\ pc' = "host" /\ settling' = Append(settling, job)
    <3>1. OnPath(settling)' = OnPath(settling) \cup {job} /\ target[job] \in compiled
      BY <1>9, <2>2, Settles
    <3> QED
      BY <1>9, <1>u, <2>2, <3>1 DEF MapInv, InFlight
  <2> QED
    BY <1>9, <2>1, <2>2
<1>10. ASSUME EvaluateEntry PROVE MapInv'
  BY <1>9, <1>10 DEF EvaluateEntry, Evaluate, MapInv, Instantiate, loader, tables
<1>11. ASSUME LinkDynamic PROVE MapInv'
  <2>1. CASE target[job] \in errored
    BY <1>0, <1>11, <2>1 DEF LinkDynamic, Instantiate, loader, tables
  <2>2. CASE target[job] \notin errored
    BY <1>9, <1>11, <2>2 DEF LinkDynamic, Evaluate, Instantiate, loader, tables
  <2> QED
    BY <2>1, <2>2
<1>12. ASSUME Run \/ Throw PROVE MapInv'
  <2>1. /\ pc = "evaluate" /\ UNCHANGED <<walked, deps, compiled, target, promise, job>>
        /\ \E s : Pop(s)
    BY <1>12 DEF Run, Throw, ReadyToRun, loader, tables
  <2> QED
    BY <1>9, <2>1 DEF Pop, Instantiate
<1>14. ASSUME SettleBegin PROVE MapInv'
  <2>1. /\ pc = "tick" /\ pc' = "settle" /\ UNCHANGED <<walked, deps, compiled, target, job, settling, status>>
        /\ \A q \in Requests : promise'[q] # "idle" => promise[q] # "idle"
    BY <1>14, <1>t DEF SettleBegin, loader, tables, v8, PlacesInv
  <2> QED
    BY <1>t, <2>1 DEF MapInv, InFlight, OnPath
<1>15. ASSUME NEW i \in DOMAIN settling, SettleOk(i) \/ SettleFailed(i) PROVE MapInv'
  <2> DEFINE q == settling[i]
  <2>1. q \in Requests /\ promise[q] = "pending" /\ OnPath(Without(i)) \subseteq OnPath(settling)
    BY Settled
  <2>2. /\ pc = "settle" /\ UNCHANGED <<pc, walked, deps, compiled, target, job, status>>
        /\ settling' = Without(i) /\ \A x \in Requests : x # q => promise'[x] = promise[x]
    BY <1>15, <1>t DEF SettleOk, SettleFailed, loader, v8
  <2>3. OnPath(settling)' \subseteq OnPath(settling)
    BY <2>1, <2>2 DEF OnPath
  <2> HIDE DEF Without, q
  <2> QED
    BY <1>t, <2>1, <2>2, <2>3 DEF MapInv, InFlight
<1>16. ASSUME NEW q \in Requests, NEW m \in Modules, Import(q, m) PROVE MapInv'
  <2>1. /\ promise[q] = "idle" /\ target' = [target EXCEPT ![q] = m]
        /\ promise' = [promise EXCEPT ![q] = "pending"]
        /\ UNCHANGED <<pc, walked, deps, compiled, job, settling, status>>
    BY <1>16 DEF Import, loader, tables, v8
  <2>2. ~InFlight(q)
    BY <2>1 DEF PlacesInv
  <2>3. \A x \in Requests \cup {Main} : InFlight(x)' => InFlight(x)
    BY <2>1 DEF InFlight, OnPath
  <2> QED
    BY <1>t, <2>1, <2>2, <2>3 DEF MapInv
<1>17. ASSUME UNCHANGED vars PROVE MapInv'
  BY <1>0, <1>17 DEF vars, loader, tables, queues, v8, Instantiate, MapInv, InFlight, OnPath
<1>18. ASSUME NEW m \in Modules, NEW b \in BOOLEAN, AsyncEnds(m, b) PROVE MapInv'
  BY <1>0, <1>18 DEF AsyncEnds, Instantiate, loader, tables, queues
<1> QED
  BY <1>1, <1>3, <1>4, <1>5, <1>6, <1>7, <1>8, <1>10, <1>11, <1>12, <1>14, <1>15, <1>16, <1>17, <1>18
     DEF Next, Host, Guest, Ending, Dead

(* What the tables say of the modules that have been told stays true.              *)
LEMMA ToldStep ==
    ASSUME TypeOK, EvalInv, MapInv, PlacesInv, ToldInv, [Next]_vars
    PROVE  ToldInv'
<1>t. /\ settling \in Seq(Requests) /\ compiled \subseteq Modules
      /\ errored \cup evaluated_ok \subseteq compiled
      /\ promise \in [Requests -> {"idle", "pending", "resolved", "failed", "rejected"}]
      /\ target \in [Requests \cup {Main} -> Modules \cup {None}]
  BY DEF TypeOK
<1>m. \A q \in Requests : promise[q] # "idle" => target[q] \in Modules
  BY DEF MapInv
<1>f. \A m \in Modules : Fulfilled(m) => Fulfilled(m)'
  BY FulfilledKept
<1>0. ASSUME UNCHANGED <<errored, evaluated_ok>>,
             \A q \in Requests : promise'[q] \in {"resolved", "failed"} =>
                 promise'[q] = promise[q] /\ target'[q] = target[q]
      PROVE ToldInv'
  <2>1. \A m \in evaluated_ok' : Fulfilled(m)'
    BY <1>0, <1>t, <1>f DEF ToldInv
  <2>2. \A q \in Requests : promise'[q] = "resolved" => target'[q] = target[q] /\ Fulfilled(target[q])'
    BY <1>0, <1>m, <1>f DEF ToldInv
  <2>3. \A q \in Requests : promise'[q] = "failed" => Graph(target'[q]) \subseteq errored' \cup evaluated_ok'
    BY <1>0 DEF ToldInv
  <2>4. \A q \in Requests : promise'[q] = "resolved" => Fulfilled(target[q])'
    BY <2>2
  <2> QED
    BY <2>1, <2>2, <2>3, <2>4 DEF ToldInv, Fulfilled, SettlesWith, Graph
<1>1. ASSUME UNCHANGED <<errored, evaluated_ok, promise, target>> PROVE ToldInv'
  BY <1>0, <1>1
<1>2. ASSUME \/ TakePending \/ Microtasks \/ HostDone \/ SettleDone \/ Instantiate \/ InstantiateFails
             \/ EvaluateEntry \/ LinkDynamic \/ Run \/ Throw \/ UNCHANGED vars
      PROVE  ToldInv'
  BY <1>1, <1>2 DEF TakePending, Microtasks, HostDone, SettleDone, Instantiate, InstantiateFails,
     EvaluateEntry, LinkDynamic, Evaluate, Run, Throw, vars, tables
<1>3. ASSUME NEW m \in Modules, \/ Walk(m) \/ Descend(m) \/ (\E b \in SUBSET Modules : WalkFails(m, b))
                                \/ (\E b \in BOOLEAN : AsyncEnds(m, b))
      PROVE  ToldInv'
  BY <1>1, <1>3 DEF Walk, Descend, WalkFails, AsyncEnds, tables
<1>4. ASSUME NEW q \in Requests, LoadForDynamicImport(q) PROVE ToldInv'
  BY <1>1, <1>4 DEF LoadForDynamicImport, tables
<1>5. ASSUME SettleBegin PROVE ToldInv'
  BY <1>0, <1>5 DEF SettleBegin, tables
<1>6. ASSUME NEW q \in Requests, NEW m \in Modules, Import(q, m) PROVE ToldInv'
  BY <1>0, <1>6, <1>t DEF Import, tables
<1>7. ASSUME NEW i \in DOMAIN settling, SettleOk(i) PROVE ToldInv'
  <2> DEFINE q == settling[i]
  <2>1. q \in Requests /\ target[q] \in compiled /\ target[q] \in Modules
    BY <1>t, Settled
  <2>2. /\ Fulfilled(target[q]) /\ evaluated_ok' = evaluated_ok \cup ReachOver(deps, target[q])
        /\ promise' = [promise EXCEPT ![q] = "resolved"] /\ UNCHANGED <<errored, target, status, cycleRoot>>
    BY <1>7 DEF SettleOk, v8
  <2>3. \A x \in ReachOver(deps, target[q]) : Fulfilled(x)
    <3>1. ReachOver(deps, target[q]) \subseteq Graph(target[q])
      BY <2>1, ReachOverFacts DEF MapInv
    <3> QED
      BY <2>1, <2>2, <3>1, FulfilledGraph
  <2>4. \A x : Fulfilled(x)' <=> Fulfilled(x)
    BY <2>2 DEF Fulfilled, SettlesWith
  <2> HIDE DEF q
  <2>5. \A m \in evaluated_ok' : Fulfilled(m)'
    BY <2>2, <2>3, <2>4 DEF ToldInv
  <2>6. \A x \in Requests : promise'[x] = "resolved" => Fulfilled(target[x])'
    BY <1>t, <2>1, <2>2, <2>4 DEF ToldInv
  <2>7. \A x \in Requests : promise'[x] = "failed" => Graph(target'[x]) \subseteq errored' \cup evaluated_ok'
    BY <1>t, <2>1, <2>2 DEF ToldInv
  <2> QED
    BY <2>2, <2>5, <2>6, <2>7 DEF ToldInv, Fulfilled, SettlesWith, Graph
<1>8. ASSUME NEW i \in DOMAIN settling, SettleFailed(i) PROVE ToldInv'
  <2> DEFINE q == settling[i]
  <2>1. q \in Requests /\ target[q] \in compiled /\ target[q] \in Modules
    BY <1>t, Settled
  <2>2. /\ Rejected(target[q]) /\ errored' = errored \cup (ReachOver(deps, target[q]) \ evaluated_ok)
        /\ promise' = [promise EXCEPT ![q] = "failed"]
        /\ UNCHANGED <<evaluated_ok, target, status, cycleRoot>>
    BY <1>8 DEF SettleFailed, v8
  <2>3. status[target[q]] # "unlinked"
    BY <2>1, <2>2 DEF Rejected, SettlesWith, EvalInv, ShutInv, Shut
  <2>4. Graph(target[q]) \subseteq ReachOver(deps, target[q])
    BY <2>1, <2>3, LinkedGraph DEF EvalInv
  <2>5. \A x : Fulfilled(x)' <=> Fulfilled(x)
    BY <2>2 DEF Fulfilled, SettlesWith
  <2> HIDE DEF q
  <2>6. \A x \in Requests : promise'[x] = "resolved" => Fulfilled(target[x])'
    BY <1>t, <2>1, <2>2, <2>5 DEF ToldInv
  <2>7. \A x \in Requests : promise'[x] = "failed" => Graph(target'[x]) \subseteq errored' \cup evaluated_ok'
    BY <1>t, <2>1, <2>2, <2>4 DEF ToldInv
  <2>8. \A m \in evaluated_ok' : Fulfilled(m)'
    BY <2>2, <2>5 DEF ToldInv
  <2> QED
    BY <2>2, <2>6, <2>7, <2>8 DEF ToldInv, Fulfilled, SettlesWith, Graph
<1> QED
  BY <1>2, <1>3, <1>4, <1>5, <1>6, <1>7, <1>8 DEF Next, Host, Guest, Ending, Dead

-----------------------------------------------------------------------------
(* What is to be linked is in every set that has the root and, with a module, its   *)
(* imports that are not linked.                                               *)
LEMMA ToLinkLeast ==
    ASSUME NEW S \in SUBSET Modules, NEW root \in Modules, status[root] = "unlinked" => root \in S,
           \A y \in S : \A d \in Imports[y] : status[d] = "unlinked" => d \in S
    PROVE  ToLink(root) \subseteq S
<1> DEFINE fresh == {m \in Modules : status[m] = "unlinked"}
           next == [m \in Modules |-> IF m \in fresh THEN Imports[m] \cap fresh ELSE {}]
<1>1. CASE status[root] # "unlinked"
  BY <1>1 DEF ToLink
<1>2. CASE status[root] = "unlinked"
  <2>1. ToLink(root) = Reach(next, root)
    BY <1>2 DEF ToLink
  <2>2. \A y \in S : next[y] \subseteq S
    OBVIOUS
  <2> HIDE DEF next
  <2> QED
    BY <1>2, <2>1, <2>2, ReachLeast
<1> QED
  BY <1>1, <1>2

(* When no load has failed and the frontier is empty, what is to be linked is walked. *)
LEMMA CoverWalked ==
    ASSUME TypeOK, MapInv, CoverInv, ~LoadFailed, pc = "load", frontier = {}
    PROVE  ToLink(target[job]) \subseteq walked
<1>1. /\ walked \subseteq Modules /\ target[job] \in compiled /\ target[job] \in Modules
      /\ \A m \in compiled : status[m] # "unlinked" \/ m \in walked
  BY DEF TypeOK, MapInv, InFlight, CoverInv
<1>2. \A y \in walked : \A d \in Imports[y] : status[d] = "unlinked" => d \in walked
  BY <1>1 DEF MapInv
<1> QED
  BY <1>1, <1>2, ToLinkLeast

(* That a load has failed is not forgotten.                                     *)
LEMMA LoadFailedKept ==
    ASSUME TypeOK, MapInv, PlacesInv, [Next]_vars, LoadFailed
    PROVE  LoadFailed'
<1>t. /\ promise \in [Requests -> {"idle", "pending", "resolved", "failed", "rejected"}]
      /\ rejecting \subseteq Requests
  BY DEF TypeOK
<1>0. ASSUME rejecting \subseteq rejecting', pc # "dead" \/ pc' = "dead",
             \A q \in Requests : promise[q] = "rejected" => promise'[q] = "rejected"
      PROVE  LoadFailed'
  BY <1>0 DEF LoadFailed
<1>1. ASSUME \/ TakePending \/ Microtasks \/ HostDone \/ SettleDone \/ Instantiate \/ EvaluateEntry
             \/ Run \/ Throw \/ UNCHANGED vars
      PROVE  LoadFailed'
  BY <1>0, <1>1 DEF TakePending, Microtasks, HostDone, SettleDone, Instantiate, EvaluateEntry, Evaluate,
     Run, Throw, ReadyToRun, vars, queues
<1>2. ASSUME InstantiateFails \/ LinkDynamic PROVE LoadFailed'
  BY <1>0, <1>2 DEF InstantiateFails, JobFails, LinkDynamic, Evaluate
<1>3. ASSUME NEW m \in Modules, \/ Walk(m) \/ Descend(m) \/ (\E b \in SUBSET Modules : WalkFails(m, b))
                                \/ (\E b \in BOOLEAN : AsyncEnds(m, b))
      PROVE  LoadFailed'
  BY <1>0, <1>3 DEF Walk, Descend, WalkFails, JobFails, AsyncEnds, queues
<1>4. ASSUME NEW q \in Requests, LoadForDynamicImport(q) PROVE LoadFailed'
  BY <1>0, <1>4 DEF LoadForDynamicImport
<1>5. ASSUME SettleBegin PROVE LoadFailed'
  <2>1. \A q \in Requests : q \in rejecting \/ promise[q] = "rejected" => promise'[q] = "rejected"
    BY <1>5 DEF SettleBegin
  <2> QED
    BY <1>5, <1>t, <2>1 DEF LoadFailed, SettleBegin
<1>6. ASSUME NEW q \in Requests, NEW m \in Modules, Import(q, m) PROVE LoadFailed'
  BY <1>0, <1>6, <1>t DEF Import
<1>7. ASSUME NEW i \in DOMAIN settling, SettleOk(i) \/ SettleFailed(i) PROVE LoadFailed'
  <2>1. settling[i] \in Requests /\ promise[settling[i]] = "pending"
    BY Settled
  <2> QED
    BY <1>0, <1>7, <1>t, <2>1 DEF SettleOk, SettleFailed
<1> QED
  BY <1>1, <1>2, <1>3, <1>4, <1>5, <1>6, <1>7 DEF Next, Host, Guest, Ending, Dead

(* The modules to link depend on the state of the modules alone.                  *)
LEMMA ToLinkKept ==
    ASSUME NEW root, root \in Modules, \A m \in Modules : status'[m] = "unlinked" <=> status[m] = "unlinked"
    PROVE  ToLink(root)' = ToLink(root)
  BY DEF ToLink, Reach

(* The module map is what is linked, and what is found on the way from the root.     *)
LEMMA CoverStep ==
    ASSUME TypeOK, EvalInv, MapInv, PlacesInv, CoverInv, [Next]_vars
    PROVE  CoverInv'
<1> SUFFICES ASSUME ~LoadFailed' PROVE CoverInv'
  BY DEF CoverInv
<1>t. /\ job \in Requests \cup {Main} /\ compiled \subseteq Modules /\ rejecting \subseteq Requests
      /\ frontier \cup walked \subseteq compiled
  BY DEF TypeOK
<1>i. \A m \in Modules : Imports[m] \subseteq Modules
  BY ModuleGraphAssumption
<1>l. ~LoadFailed
  BY LoadFailedKept
<1>c. /\ \A m \in Modules : status[m] # "unlinked" => m \in compiled
      /\ \A m \in compiled : status[m] # "unlinked" \/ (pc = "load" /\ m \in walked \cup frontier)
      /\ pc = "load" => \A m \in walked \cup frontier : status[m] # "unlinked" \/ m \in ToLink(target[job])
  BY <1>l DEF CoverInv
<1>j. pc = "load" => target[job] \in Modules
  BY <1>t DEF MapInv, InFlight
<1>0. ASSUME UNCHANGED compiled, pc # "load", pc' # "load" PROVE CoverInv'
  <2>1. \A m \in Modules : status'[m] = "unlinked" <=> status[m] = "unlinked"
    BY <1>0, StatusKept DEF Instantiate
  <2> QED
    BY <1>0, <1>c, <1>t, <2>1 DEF CoverInv
<1>1. ASSUME \/ TakePending \/ Microtasks \/ HostDone \/ SettleDone \/ SettleBegin \/ EvaluateEntry
             \/ LinkDynamic
      PROVE  CoverInv'
  BY <1>0, <1>1 DEF TakePending, Microtasks, HostDone, SettleDone, SettleBegin, EvaluateEntry,
     LinkDynamic, Evaluate, loader
<1>2. ASSUME Run \/ Throw PROVE CoverInv'
  BY <1>0, <1>2 DEF Run, Throw, ReadyToRun, Pop, loader
<1>3. ASSUME NEW m \in Modules, Descend(m) \/ \E b \in BOOLEAN : AsyncEnds(m, b) PROVE CoverInv'
  BY <1>0, <1>3 DEF Descend, AsyncEnds, loader
<1>4. ASSUME NEW i \in DOMAIN settling, SettleOk(i) \/ SettleFailed(i) PROVE CoverInv'
  BY <1>0, <1>4 DEF SettleOk, SettleFailed, loader
<1>5. ASSUME NEW q \in Requests, NEW m \in Modules, Import(q, m) PROVE CoverInv'
  BY <1>0, <1>5 DEF Import, loader
<1>6. ASSUME InstantiateFails \/ \E m \in Modules, b \in SUBSET Modules : WalkFails(m, b) PROVE CoverInv'
  <2>1. LoadFailed'
    BY <1>6 DEF InstantiateFails, WalkFails, JobFails, LoadFailed
  <2> QED
    BY <2>1
<1>7. ASSUME NEW q \in Requests, LoadForDynamicImport(q) PROVE CoverInv'
  <2> DEFINE root == target[q]
  <2>1. root \in Modules
    BY <1>7 DEF LoadForDynamicImport, MapInv, PlacesInv
  <2>2. /\ pc = "host" /\ pc' = "load" /\ job' = q /\ frontier' = {root} /\ walked' = {}
        /\ compiled' = compiled \cup {root} /\ UNCHANGED <<target, status>>
    BY <1>7 DEF LoadForDynamicImport, LoadFailed, v8
  <2>3. ToLink(root)' = ToLink(root)
    BY <2>1, <2>2, ToLinkKept
  <2>4. status[root] # "unlinked" \/ root \in ToLink(root)'
    BY <2>1, <2>3, ToLinkFacts
  <2>5. ToLink(target[job])' = ToLink(root)'
    BY <2>2 DEF ToLink
  <2> QED
    BY <1>c, <2>1, <2>2, <2>4, <2>5 DEF CoverInv
<1>8. ASSUME NEW m \in Modules, Walk(m) PROVE CoverInv'
  <2>1. /\ pc = "load" /\ m \in frontier /\ compiled' = compiled \cup Imports[m]
        /\ walked' = walked \cup {m} /\ frontier' = (frontier \ {m}) \cup (Imports[m] \ compiled)
        /\ UNCHANGED <<pc, job, target, status>>
    BY <1>8 DEF Walk, v8
  <2>2. ToLink(target[job])' = ToLink(target[job])
    BY <2>1 DEF ToLink, Reach
  <2>3. ASSUME NEW d \in Imports[m] \ compiled PROVE d \in ToLink(target[job])
    <3>1. d \in Modules /\ status[d] = "unlinked"
      BY <1>i, <1>c
    <3>2. status[m] = "unlinked"
      BY <3>1 DEF EvalInv, LinkInv
    <3>3. m \in ToLink(target[job])
      BY <1>c, <2>1, <3>2
    <3> QED
      BY <1>j, <2>1, <3>1, <3>3, ToLinkFacts
  <2> QED
    BY <1>c, <1>i, <2>1, <2>2, <2>3 DEF CoverInv
<1>9. ASSUME Instantiate PROVE CoverInv'
  <2>1. /\ pc = "load" /\ frontier = {} /\ pc' = "link" /\ UNCHANGED compiled
        /\ status' = [m \in Modules |-> IF m \in ToLink(target[job]) THEN "linked" ELSE status[m]]
    BY <1>9 DEF Instantiate, Linked, loader
  <2>2. ToLink(target[job]) \subseteq walked
    BY <1>l, <2>1, CoverWalked
  <2> QED
    BY <1>c, <1>t, <2>1, <2>2 DEF CoverInv
<1>10. ASSUME UNCHANGED vars PROVE CoverInv'
  <2>1. UNCHANGED <<pc, job, target, status, compiled, walked, frontier>>
    BY <1>10 DEF vars, loader, v8
  <2>2. ToLink(target[job])' = ToLink(target[job])
    BY <2>1 DEF ToLink, Reach
  <2> QED
    BY <1>c, <2>1, <2>2 DEF CoverInv
<1> QED
  BY <1>1, <1>2, <1>3, <1>4, <1>5, <1>6, <1>7, <1>8, <1>9, <1>10 DEF Next, Host, Guest, Ending, Dead

-----------------------------------------------------------------------------
(* The first state has all of the invariants, *)
LEMMA AllInit == Init => AllInv
<1> SUFFICES ASSUME Init PROVE AllInv
  OBVIOUS
<1>a. /\ Entry \in Modules /\ Imports \in [Modules -> SUBSET Modules] /\ None \notin Modules
      /\ Main \notin Requests
  BY ModuleGraphAssumption
<1>1. TypeOK
  BY <1>a DEF Init, TypeOK
<1>2. EvalInv
  <2>1. Under = {} /\ \A m \in Modules : status[m] = "unlinked" /\ cycleRoot[m] = None /\ awaiting[m] = {}
    BY DEF Init, Under, OnPath
  <2> QED
    BY <1>a, <2>1 DEF Init, EvalInv, PathInv, LinkInv, LeftInv, ShutInv, AwaitedInv, RootInv, WaitsInv,
       NeedsInv, Left, Shut
<1>3. MapInv
  BY <1>a DEF Init, MapInv, InFlight, OnPath
<1>4. ToldInv /\ PlacesInv
  BY <1>a DEF Init, ToldInv, PlacesInv, InFlight, OnPath
<1>5. CoverInv
  <2>1. Entry \in ToLink(Entry)
    BY <1>a, ToLinkFacts DEF Init
  <2> QED
    BY <1>a, <2>1 DEF Init, CoverInv
<1> QED
  BY <1>1, <1>2, <1>3, <1>4, <1>5 DEF AllInv

(* and every step keeps all of them. *)
LEMMA AllStep == AllInv /\ [Next]_vars => AllInv'
  BY TypeStep, EvalStep, MapStep, PlacesStep, ToldStep, CoverStep DEF AllInv

(* The invariants together hold of every state of the registry and of the engine.     *)
THEOREM AllHold == Spec => []AllInv
  BY AllInit, AllStep, PTL DEF Spec

(* The tables keep their types, and once a failed import has been told so, every module *)
(* of its graph that failed is refused to a later import() (mark_graph_errored,       *)
(* link_dynamic).                                                             *)
THEOREM FailuresStay == Spec => []GraphInv
<1>1. AllInv => GraphInv
  <2> SUFFICES ASSUME AllInv, NEW q \in Requests, promise[q] = "failed", NEW m \in Graph(target[q]),
                      Rejected(m)
               PROVE  m \in errored
    BY DEF GraphInv, FailuresRecorded, AllInv
  <2>1. m \in errored \cup evaluated_ok
    BY DEF AllInv, ToldInv
  <2>2. ~Fulfilled(m)
    BY DEF Rejected, Fulfilled
  <2> QED
    BY <2>1, <2>2 DEF AllInv, ToldInv
<1> QED
  BY <1>1, AllHold, PTL

(* An import() that resolves hands out a module whose whole graph has run: cycles,    *)
(* top-level await and imports shared with a graph still under way included             *)
(* (settle_dynamic).                                                          *)
THEOREM ResolvedHasRun == Spec => []ResolvesEvaluated
<1>1. AllInv => ResolvesEvaluated
  <2> SUFFICES ASSUME AllInv, NEW q \in Requests, promise[q] = "resolved"
               PROVE  \A m \in Graph(target[q]) : status[m] = "evaluated"
    BY DEF ResolvesEvaluated
  <2>1. target[q] \in Modules /\ Fulfilled(target[q])
    BY DEF AllInv, MapInv, ToldInv
  <2> QED
    BY <2>1, FulfilledGraph DEF AllInv
<1> QED
  BY <1>1, AllHold, PTL

(* As long as no load has failed, the resolved map of build_graph covers the graph to  *)
(* be linked, whatever graphs share modules, so that no instantiation fails on an import. *)
THEOREM MapCovers == Spec => []CoversUnlessFailed
<1>1. AllInv => CoversUnlessFailed
  <2> SUFFICES ASSUME AllInv, rejecting = {}, \A q \in Requests : promise[q] # "rejected",
                      pc = "load", frontier = {}
               PROVE  Resolving \subseteq walked
    BY DEF CoversUnlessFailed, CoversGraph
  <2>1. ~LoadFailed
    BY DEF LoadFailed
  <2>2. ToLink(target[job]) \subseteq walked
    BY <2>1, CoverWalked DEF AllInv
  <2> QED
    BY <2>2 DEF Resolving
<1> QED
  BY <1>1, AllHold, PTL

=============================================================================
