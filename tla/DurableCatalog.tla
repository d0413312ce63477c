--------------------------- MODULE DurableCatalog ---------------------------
(***************************************************************************)
(* The catalog of durable workers and the shutdown of their runtime            *)
(* (runtime_modules/workers.js): one connection that every worker being opened   *)
(* shares, whose statements are grouped into transactions; the sweep that closes  *)
(* an idle worker whenever another is opened; and shutdown(), which closes the   *)
(* workers and the connection while some are still being opened or closed, and    *)
(* may be called again before it has ended.                                    *)
(* A connection is known by its number; an action is a piece of JavaScript that   *)
(* runs without a break.                                                     *)
(***************************************************************************)
EXTENDS Integers, Sequences, FiniteSets

CONSTANTS
    Ids,        \* the workers, by class and id
    MaxConns,   \* bound: connections that are opened
    MaxOpens,   \* bound: calls that find no live worker
    MaxDowns,   \* bound: calls of shutdown
    MaxBusy     \* bound: statements and commits that are told ERR_DB_BUSY

ASSUME CatalogAssumption ==
    IsFiniteSet(Ids) /\ MaxConns \in Nat \ {0} /\ {MaxOpens, MaxDowns, MaxBusy} \subseteq Nat

VARIABLES
    stand,     \* how far the opening of each worker is, see Stands
    instance,  \* what its instance does, see Lives
    sweeps,    \* the worker whose close the sweep of an opener awaits, if any
    sorry,     \* the workers whose stop() threw, until their eviction has ended
    opens,     \* how many calls had to open one
    db,        \* the connection a worker being opened has, or waits for
    registry,  \* registry, and catalogDb with it: the connection, 0 if null
    promise,   \* registryOpening
    openings,  \* the connections being opened
    conns,     \* the open connections: any holds the directory's lock
    tried,     \* how many were opened
    waiting,   \* catalogWaiting
    drain,     \* idle, single: statements one by one; group: in a transaction
    batch,     \* the statements it is still to run
    group,     \* those the transaction ran, and of these the ones that succeeded
    rows,      \* the workers whose row is committed
    busy,      \* how often a statement was told ERR_DB_BUSY
    flag,      \* shuttingDown
    phase,     \* where each call of shutdown is, see Phases
    evicting,  \* the workers it is still to close,
    stale,     \* of these the ones whose instance is another one by now,
    evicts,    \* and the one it is closing
    early,     \* the workers that were being opened when a shutdown began
    stray,     \* the connections that were, or that one left open when it failed
    overlapped \* whether two calls of shutdown were ever under way at once

standVars == <<stand, sweeps, opens, db>>
heldVars == <<instance, sorry>>
connVars == <<registry, promise, openings, conns, tried>>
drainVars == <<waiting, drain, batch, group, rows, busy>>
downVars == <<flag, phase, evicting, stale, evicts, early, stray, overlapped>>
catalogVars == <<standVars, heldVars, connVars, drainVars, downVars>>

(* asking: it awaits registryDb; ready: the closing of its last instance; preparing: its  *)
(* own file is being opened; inserting: its statement is with the catalog; retrying:      *)
(* between two attempts; inserted: JavaScript has not gone on yet.                      *)
Underway == {"asking", "ready", "sweeping", "preparing", "inserting", "retrying", "inserted"}
Stands == Underway \cup {"out"}
(* closing: its stop and last flush; touching: its statement is with the catalog; again: *)
(* between two attempts; closed: who awaits the eviction has not gone on yet.           *)
Closing == {"closing", "touching", "again", "closed"}
Lives == Closing \cup {"none", "live"}
Phases == {"new", "begun", "evicting", "closed", "failed", "done"}

Downs == 1..MaxDowns
Numbers == 0..MaxConns
Are(s) == {k \in Ids : stand[k] \in s}
Being(s) == {k \in Ids : instance[k] \in s}
Asked == Are({"inserting"}) \cup Being({"touching"})
Active == {d \in Downs : phase[d] \notin {"new", "done"}}
Items(s) == {s[i] : i \in DOMAIN s}

CatalogTypeOK ==
    /\ stand \in [Ids -> Stands] /\ instance \in [Ids -> Lives] /\ opens \in 0..MaxOpens
    /\ sweeps \in [Ids -> SUBSET Ids] /\ sorry \subseteq Ids
    /\ db \in [Ids -> Numbers] /\ {registry, promise, tried} \subseteq Numbers
    /\ openings \cup conns \subseteq 1..tried /\ openings \cap conns = {}
    /\ waiting \in Seq(Ids) /\ batch \in Seq(Ids) /\ drain \in {"idle", "single", "group"}
    /\ group \in [ran : SUBSET Ids, fine : SUBSET Ids] /\ rows \subseteq Ids
    /\ Items(waiting) \cup Items(batch) \cup group.ran = Asked
    /\ (drain = "idle" => waiting = <<>> /\ batch = <<>> /\ group.ran = {})
    /\ flag \in BOOLEAN /\ phase \in [Downs -> Phases] /\ busy \in 0..MaxBusy
    /\ {evicting, stale, evicts} \subseteq [Downs -> SUBSET Ids]
    /\ early \subseteq Ids /\ stray \subseteq 1..MaxConns /\ overlapped \in BOOLEAN

NoGroup == [ran |-> {}, fine |-> {}]

CatalogInit ==
    /\ stand = [k \in Ids |-> "out"] /\ instance = [k \in Ids |-> "none"]
    /\ sweeps = [k \in Ids |-> {}] /\ sorry = {} /\ opens = 0
    /\ db = [k \in Ids |-> 0]
    /\ registry = 0 /\ promise = 0 /\ openings = {} /\ conns = {} /\ tried = 0
    /\ waiting = <<>> /\ drain = "idle" /\ batch = <<>> /\ group = NoGroup
    /\ rows = {} /\ busy = 0 /\ flag = FALSE /\ phase = [d \in Downs |-> "new"]
    /\ evicting = [d \in Downs |-> {}] /\ stale = [d \in Downs |-> {}]
    /\ evicts = [d \in Downs |-> {}] /\ early = {} /\ stray = {} /\ overlapped = FALSE
-----------------------------------------------------------------------------
Goes(k, s) == stand' = [stand EXCEPT ![k] = s]

(* registryDb when there is none: the opening under way is shared. *)
Ask(k) ==
    IF promise # 0
    THEN db' = [db EXCEPT ![k] = promise] /\ UNCHANGED <<promise, openings, tried>>
    ELSE /\ tried < MaxConns /\ tried' = tried + 1 /\ promise' = tried + 1
         /\ openings' = openings \cup {tried + 1} /\ db' = [db EXCEPT ![k] = tried + 1]

(* Fault: the flag is not looked at. *)
BeginOpeningAnyway(k) ==
    /\ instance[k] # "live" /\ stand[k] = "out" /\ opens < MaxOpens /\ opens' = opens + 1
    /\ IF registry # 0
       THEN /\ Goes(k, "ready") /\ db' = [db EXCEPT ![k] = registry]
            /\ UNCHANGED <<promise, openings, tried>>
       ELSE Goes(k, "asking") /\ Ask(k)
    /\ UNCHANGED <<sweeps, registry, conns, heldVars, drainVars, downVars>>

(* materialize while the flag is down: neither live nor being opened already. *)
BeginOpening(k) ==
    /\ ~flag /\ instance[k] # "live" /\ stand[k] = "out" /\ opens < MaxOpens /\ opens' = opens + 1
    /\ IF registry # 0
       THEN /\ Goes(k, "ready") /\ db' = [db EXCEPT ![k] = registry]
            /\ UNCHANGED <<promise, openings, tried>>
       ELSE Goes(k, "asking") /\ Ask(k)
    /\ UNCHANGED <<sweeps, registry, conns, heldVars, drainVars, downVars>>

(* openRegistry ends: whoever opened it, it is the registry from now on. *)
RegistryOpens(n) ==
    /\ n \in openings /\ openings' = openings \ {n} /\ conns' = conns \cup {n}
    /\ registry' = n /\ promise' = 0
    /\ stand' = [k \in Ids |-> IF stand[k] = "asking" /\ db[k] = n THEN "ready" ELSE stand[k]]
    /\ UNCHANGED <<sweeps, opens, db, tried, heldVars, drainVars, downVars>>

RegistryFails(n) ==
    /\ n \in openings /\ openings' = openings \ {n} /\ promise' = 0
    /\ stand' = [k \in Ids |-> IF stand[k] = "asking" /\ db[k] = n THEN "out" ELSE stand[k]]
    /\ UNCHANGED <<sweeps, opens, db, registry, conns, tried, heldVars, drainVars, downVars>>

(* evictIdle takes an idle worker out of live and closes it, once the last instance of *)
(* its own worker has been closed. *)
SweepIdle(k, j) ==
    /\ stand[k] = "ready" /\ instance[k] \notin Closing /\ instance[j] = "live"
    /\ Goes(k, "sweeping") /\ sweeps' = [sweeps EXCEPT ![k] = {j}]
    /\ instance' = [instance EXCEPT ![j] = "closing"]
    /\ UNCHANGED <<opens, db, sorry, connVars, drainVars, downVars>>

(* After the sweep, materialize reads registry.dir; a registry closed meanwhile fails it. *)
Prepare(k) ==
    /\ \/ stand[k] = "ready" /\ instance[k] \notin Closing
       \/ stand[k] = "sweeping" /\ sweeps[k] = {}
    /\ Goes(k, IF registry = 0 THEN "out" ELSE "preparing")
    /\ UNCHANGED <<sweeps, opens, db, heldVars, connVars, drainVars, downVars>>

PrepareFails(k) ==
    /\ stand[k] = "preparing" /\ Goes(k, "out")
    /\ UNCHANGED <<sweeps, opens, db, heldVars, connVars, drainVars, downVars>>
-----------------------------------------------------------------------------
(* onCatalog: the statement waits, or a drain begins with it at once. *)
OnCatalog(k) ==
    IF drain = "idle"
    THEN batch' = <<k>> /\ drain' = "single" /\ UNCHANGED waiting
    ELSE waiting' = Append(waiting, k) /\ UNCHANGED <<batch, drain>>

Submit(k) ==
    /\ stand[k] \in {"preparing", "retrying"} /\ Goes(k, "inserting") /\ OnCatalog(k)
    /\ UNCHANGED <<sweeps, opens, db, heldVars, connVars, group, rows, busy, downVars>>

(* Fault: the drain looks once for statements that came meanwhile. *)
TakeBatchOnce == batch' = <<>> /\ drain' = "idle" /\ UNCHANGED waiting

(* The loop of drainCatalog: whatever is waiting is the next batch. *)
TakeBatch ==
    /\ batch' = waiting /\ waiting' = <<>>
    /\ drain' = IF waiting = <<>> THEN "idle"
                ELSE IF Len(waiting) = 1 \/ registry = 0 THEN "single" ELSE "group"

(* Each of the callers is told its answer; a busy statement is tried again. *)
Tell(answers) ==
    /\ stand' = [k \in Ids |->
         IF k \notin DOMAIN answers \/ stand[k] # "inserting" THEN stand[k]
         ELSE CASE answers[k] = "ok" -> "inserted" [] answers[k] = "busy" -> "retrying"
                [] OTHER -> "out"]
    /\ instance' = [k \in Ids |->
         IF k \notin DOMAIN answers \/ instance[k] # "touching" THEN instance[k]
         ELSE IF answers[k] = "busy" THEN "again" ELSE "closed"]

Counted(answer) ==
    IF answer = "busy" THEN busy < MaxBusy /\ busy' = busy + 1 ELSE UNCHANGED busy

(* A statement succeeds on an open connection only: an opener's is its own, that of a      *)
(* touch is the registry of now.                                                     *)
May(k, answer) ==
    answer = "ok" => (IF stand[k] = "inserting" THEN db[k] ELSE registry) \in conns

Inserted(k, answer) == IF answer = "ok" /\ stand[k] = "inserting" THEN {k} ELSE {}

(* One statement, on its own. *)
RunSingle(answer) ==
    /\ drain = "single" /\ May(Head(batch), answer) /\ Counted(answer)
    /\ Tell([k \in {Head(batch)} |-> answer])
    /\ rows' = rows \cup Inserted(Head(batch), answer)
    /\ IF Len(batch) > 1 THEN batch' = Tail(batch) /\ UNCHANGED <<waiting, drain>>
       ELSE TakeBatch
    /\ UNCHANGED <<sweeps, opens, db, sorry, connVars, group, downVars>>

(* One of a group: its answer waits for the commit.  A statement whose connection is   *)
(* another than the group's is no part of the transaction.                          *)
RunGrouped(answer) ==
    /\ drain = "group" /\ batch # <<>> /\ May(Head(batch), answer) /\ answer # "busy"
    /\ group' = [ran |-> group.ran \cup {Head(batch)},
                 fine |-> IF answer = "ok" THEN group.fine \cup {Head(batch)} ELSE group.fine]
    /\ batch' = Tail(batch)
    /\ UNCHANGED <<standVars, heldVars, connVars, waiting, drain, rows, busy, downVars>>

GroupDone == drain = "group" /\ batch = <<>> /\ group' = NoGroup /\ TakeBatch

GroupCommits ==
    /\ GroupDone /\ (\A k \in group.fine : May(k, "ok"))
    /\ Tell([k \in group.ran |-> IF k \in group.fine THEN "ok" ELSE "error"])
    /\ rows' = rows \cup {k \in group.fine : stand[k] = "inserting"}
    /\ UNCHANGED <<sweeps, opens, db, sorry, connVars, busy, downVars>>

(* Fault: whose statement ran is told so. *)
CommitFailsUnheard(answer) ==
    /\ GroupDone /\ answer # "ok" /\ Counted(answer)
    /\ Tell([k \in group.ran |-> IF k \in group.fine THEN "ok" ELSE answer])
    /\ UNCHANGED <<sweeps, opens, db, sorry, connVars, rows, downVars>>

(* The commit fails: nothing of the group has happened, and every caller hears so.      *)
CommitFails(answer) ==
    /\ GroupDone /\ answer # "ok" /\ Counted(answer)
    /\ Tell([k \in group.ran |-> answer])
    /\ UNCHANGED <<sweeps, opens, db, sorry, connVars, rows, downVars>>

(* The worker is put into live.  (What start() may do is in DurableCalls.) *)
GoLive(k) ==
    /\ stand[k] = "inserted" /\ Goes(k, "out") /\ instance' = [instance EXCEPT ![k] = "live"]
    /\ UNCHANGED <<sweeps, opens, db, sorry, connVars, drainVars, downVars>>
-----------------------------------------------------------------------------
(* A close ends, its stop() threw or not; a touch follows, unless there is no registry. *)
TouchRow(k) ==
    /\ instance[k] = "closing" /\ sorry' \in {sorry, sorry \cup {k}}
    /\ IF registry = 0
       THEN instance' = [instance EXCEPT ![k] = "closed"] /\ UNCHANGED <<batch, waiting, drain>>
       ELSE instance' = [instance EXCEPT ![k] = "touching"] /\ OnCatalog(k)
    /\ UNCHANGED <<standVars, connVars, group, rows, busy, downVars>>

TouchAgain(k) ==
    /\ instance[k] = "again" /\ instance' = [instance EXCEPT ![k] = "touching"] /\ OnCatalog(k)
    /\ UNCHANGED <<standVars, sorry, connVars, group, rows, busy, downVars>>

(* evict ends: an opener that swept it, or a shutdown that closed it, goes on, or fails  *)
(* as its stop() did.  Lists that hold this instance hold one that is no more.           *)
EvictEnds(k) ==
    /\ instance[k] = "closed" /\ instance' = [instance EXCEPT ![k] = "none"] /\ sorry' = sorry \ {k}
    /\ sweeps' = [j \in Ids |-> sweeps[j] \ {k}]
    /\ stand' = [j \in Ids |-> IF k \in sweeps[j] \cap sorry THEN "out" ELSE stand[j]]
    /\ evicts' = [d \in Downs |-> evicts[d] \ {k}]
    /\ phase' = [d \in Downs |-> IF k \in evicts[d] \cap sorry THEN "failed" ELSE phase[d]]
    /\ stale' = [d \in Downs |-> stale[d] \cup (evicting[d] \cap {k})]
    /\ UNCHANGED <<opens, db, connVars, drainVars, flag, evicting, early, stray, overlapped>>
-----------------------------------------------------------------------------
(* shutdown sets its flag, whoever else has, and stops the scheduler, *)
Shutdown(d) ==
    /\ phase[d] = "new" /\ (\A e \in Downs : e < d => phase[e] # "new")
    /\ phase' = [phase EXCEPT ![d] = "begun"] /\ flag' = TRUE
    /\ early' = Are(Underway) /\ stray' = stray \cup openings
    /\ overlapped' = (overlapped \/ Active # {})
    /\ UNCHANGED <<standVars, heldVars, connVars, drainVars, evicting, stale, evicts>>

(* takes the workers that are live now, *)
TakeLive(d) ==
    /\ phase[d] = "begun" /\ phase' = [phase EXCEPT ![d] = "evicting"]
    /\ evicting' = [evicting EXCEPT ![d] = Being({"live"})]
    /\ UNCHANGED <<standVars, heldVars, connVars, drainVars, flag, stale, evicts, early, stray,
                   overlapped>>

(* closes them one after the other: one that is closing already is waited for.  When the *)
(* instance is no more, the one that took its place is taken out of live unclosed.     *)
EvictNext(d, k) ==
    /\ phase[d] = "evicting" /\ k \in evicting[d] /\ evicts[d] = {}
    /\ evicting' = [evicting EXCEPT ![d] = @ \ {k}]
    /\ instance' = IF instance[k] # "live" THEN instance
                   ELSE [instance EXCEPT ![k] = IF k \in stale[d] THEN "none" ELSE "closing"]
    /\ IF k \in stale[d]
       THEN /\ stale' = [e \in Downs |-> IF e = d THEN stale[e] \ {k}
                                         ELSE stale[e] \cup (evicting[e] \cap {k})]
            /\ UNCHANGED evicts
       ELSE evicts' = [evicts EXCEPT ![d] = {k}] /\ UNCHANGED stale
    /\ UNCHANGED <<standVars, sorry, connVars, drainVars, flag, phase, early, stray,
                   overlapped>>

(* closes the connection, whoever waits for it, *)
CloseRegistry(d) ==
    /\ phase[d] = "evicting" /\ evicting[d] = {} /\ evicts[d] = {}
    /\ phase' = [phase EXCEPT ![d] = "closed"] /\ conns' = conns \ {registry}
    /\ UNCHANGED <<standVars, heldVars, registry, promise, openings, tried, drainVars, flag,
                   evicting, stale, evicts, early, stray, overlapped>>

(* and forgets it, closed or not; calls are accepted again. *)
Cleanup(d) ==
    /\ phase[d] \in {"closed", "failed"} /\ phase' = [phase EXCEPT ![d] = "done"]
    /\ registry' = 0 /\ promise' = 0 /\ flag' = FALSE
    /\ stray' = IF phase[d] = "failed" THEN stray \cup conns ELSE stray
    /\ evicting' = [evicting EXCEPT ![d] = {}] /\ stale' = [stale EXCEPT ![d] = {}]
    /\ UNCHANGED <<standVars, heldVars, openings, conns, tried, drainVars, evicts, early,
                   overlapped>>
-----------------------------------------------------------------------------
Replies == {"ok", "busy", "error"}

Draining == GroupCommits \/ \E answer \in Replies :
    RunSingle(answer) \/ RunGrouped(answer) \/ CommitFails(answer)
Loading(k) ==
    \/ \E j \in Ids : SweepIdle(k, j)
    \/ Prepare(k) \/ PrepareFails(k) \/ Submit(k) \/ GoLive(k)
Leaving(k) == TouchRow(k) \/ TouchAgain(k) \/ EvictEnds(k)
Stopping(d) ==
    TakeLive(d) \/ (\E k \in Ids : EvictNext(d, k)) \/ CloseRegistry(d) \/ Cleanup(d)
Connecting(n) == RegistryOpens(n) \/ RegistryFails(n)

Ongoing ==
    \/ Draining \/ (\E k \in Ids : Loading(k) \/ Leaving(k))
    \/ (\E d \in Downs : Stopping(d)) \/ (\E n \in 1..MaxConns : Connecting(n))

CatalogNext ==
    \/ Ongoing
    \/ \E k \in Ids : BeginOpening(k)
    \/ \E d \in Downs : Shutdown(d)
    \/ /\ drain = "idle" /\ Active = {} /\ openings = {} /\ Are(Underway) = {}
       /\ Being(Closing) = {} /\ UNCHANGED catalogVars

(* Statements, opens and stops end, well or not: something goes on as long as it can. *)
CatalogSpec == CatalogInit /\ [][CatalogNext]_catalogVars /\ WF_catalogVars(Ongoing)
-----------------------------------------------------------------------------
(* No worker is live before its row is committed: an answer never gets ahead of the      *)
(* transaction it is part of, and a failed commit is heard by all of its group.         *)
LiveHasRow == Are({"inserted"}) \cup Being(Lives \ {"none"}) \subseteq rows

(* Every connection that is open is the registry's, and so will be closed, unless one     *)
(* was being opened when a shutdown began, or a shutdown failed, or two overlapped.      *)
OneConnection == conns \subseteq {registry} \/ stray # {} \/ overlapped

(* A call of shutdown resolves that no other one overlapped. *)
Resolves(d) == phase[d] = "closed" /\ phase'[d] = "done" /\ ~overlapped

(* When it does, a worker that is live or being opened was being opened when it began: no  *)
(* later call gets in between, over all of its awaits; one that is still closing is being  *)
(* swept by such an opener; and the directory's lock is given up, unless a connection was  *)
(* being opened when a shutdown began or was left by one that failed.                  *)
ShutdownComplete ==
    [][\A d \in Downs : Resolves(d) =>
        /\ Are(Underway) \cup Being({"live"}) \subseteq early
        /\ Being(Closing) \subseteq UNION {sweeps[j] : j \in early}
        /\ stray = {} => conns \cup openings = {}]_catalogVars

(* docs/API.md:4454: shutdown() closes every open worker.  (One that is neither live nor    *)
(* being opened, and is still closing, was open when it was called.)                    *)
ClosesEveryOpenWorker ==
    [][\A d \in Downs : Resolves(d) => Being(Closing) \subseteq early]_catalogVars

(* The runtime answers: whoever waits for the catalog, and whoever shuts it down.  As calls  *)
(* are bounded, none of either is left again and again.                                *)
CatalogAnswers == []<>(Asked = {} /\ Active = {})
=============================================================================
