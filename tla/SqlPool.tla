------------------------------- MODULE SqlPool -------------------------------
(***************************************************************************)
(* The pool of runtime:db (class Pool and the acquire and release of class     *)
(* PooledConnection, crates/runtime/src/runtime_modules/db.js).  An action is  *)
(* a piece of JavaScript that runs without a break: _wake runs the acquire of  *)
(* the waiter it wakes up to that one's first await.                          *)
(*                                                                          *)
(* Its names differ from MongoPool's, so that one run can hold both.           *)
(***************************************************************************)
EXTENDS Integers, Sequences, FiniteSets

CONSTANTS
    Callers,  \* code that acquires and releases, again and again
    SqlMax,   \* _max
    MaxLive   \* bound: resources that exist at a time

ASSUME SqlAssumption ==
    IsFiniteSet(Callers) /\ SqlMax \in Nat \ {0} /\ MaxLive \in Nat

VARIABLES
    caller,  \* where each caller is
    has,     \* the resource it validates or holds, 0 if none
    spare,   \* _idle: the idle resources, oldest first
    queue,   \* _waiting
    shut,    \* _closed
    hidden   \* a caller took a place while another validated a resource

sqlVars == <<caller, has, spare, queue, shut, hidden>>

SqlPlaces == {"out", "validating", "opening", "waiting", "holding"}
Resources == 1..MaxLive

Are(p) == {c \in Callers : caller[c] \in p}
Elements(s) == {s[i] : i \in DOMAIN s}

(* Every resource there is, and every place taken for one that is being opened. *)
Live == Len(spare) + Cardinality(Are({"validating", "opening", "holding"}))

SqlTypeOK ==
    /\ caller \in [Callers -> SqlPlaces] /\ has \in [Callers -> {0} \cup Resources]
    /\ spare \in Seq(Resources) /\ queue \in Seq(Callers)
    /\ shut \in BOOLEAN /\ hidden \in BOOLEAN
    /\ \A c \in Callers : has[c] # 0 <=> caller[c] \in {"validating", "holding"}
    /\ Elements(queue) = Are({"waiting"}) /\ Len(queue) = Cardinality(Are({"waiting"}))

SqlInit ==
    /\ caller = [c \in Callers |-> "out"] /\ has = [c \in Callers |-> 0]
    /\ spare = <<>> /\ queue = <<>> /\ shut = FALSE /\ hidden = FALSE
-----------------------------------------------------------------------------
(* acquire pops the newest idle resource to validate it; with none it takes a     *)
(* place, if there are fewer than the maximum, else it waits.                   *)
Goes(ids, size) ==
    IF ids # <<>> THEN "validating" ELSE IF size < SqlMax THEN "opening" ELSE "waiting"

Popped(ids) == IF ids = <<>> THEN ids ELSE SubSeq(ids, 1, Len(ids) - 1)

(* acquire from its loop on, for c, when the callers are at these places and      *)
(* hold these resources, ids are idle and q queued.  The resource it validates    *)
(* is in neither table meanwhile, so size leaves it out.                        *)
Look(c, places, holds, ids, q) ==
    LET size == Len(ids) + Cardinality({d \in Callers : places[d] \in {"opening", "holding"}})
        p == Goes(ids, size)
    IN
    /\ caller' = [places EXCEPT ![c] = p]
    /\ has' = [holds EXCEPT ![c] = IF ids = <<>> THEN 0 ELSE ids[Len(ids)]]
    /\ spare' = Popped(ids) /\ queue' = IF p = "waiting" THEN Append(q, c) ELSE q
    /\ hidden' = (hidden \/ (p = "opening" /\ \E d \in Callers : places[d] = "validating"))

Out(c) == [caller EXCEPT ![c] = "out"]
Empty(c) == [has EXCEPT ![c] = 0]

(* _wake when c has left and ids are idle: the first waiter acquires again, and    *)
(* may be queued again, at the end.  The sweep finds nothing: beside a waiter     *)
(* nothing is idle but what was released just now.                              *)
Wake(c, ids) ==
    IF queue = <<>>
    THEN caller' = Out(c) /\ has' = Empty(c) /\ spare' = ids /\ UNCHANGED <<queue, hidden>>
    ELSE IF shut
    THEN /\ caller' = [Out(c) EXCEPT ![Head(queue)] = "out"] /\ has' = Empty(c)
         /\ spare' = ids /\ queue' = Tail(queue) /\ UNCHANGED hidden
    ELSE Look(Head(queue), Out(c), Empty(c), ids, Tail(queue))

(* acquire: resources idle for too long are swept first, the oldest k. *)
Acquire(c, k) ==
    /\ caller[c] = "out" /\ ~shut
    /\ Look(c, caller, has, SubSeq(spare, k + 1, Len(spare)), queue)
    /\ UNCHANGED shut

AcquireRefused(c) == caller[c] = "out" /\ shut /\ UNCHANGED sqlVars

(* Its validation ends; nothing looks whether the pool was closed meanwhile. *)
Valid(c) ==
    /\ caller[c] = "validating" /\ caller' = [caller EXCEPT ![c] = "holding"]
    /\ UNCHANGED <<has, spare, queue, shut, hidden>>

Invalid(c) ==
    /\ caller[c] = "validating" /\ Look(c, Out(c), Empty(c), spare, queue) /\ UNCHANGED shut

Created(c) ==
    /\ caller[c] = "opening"
    /\ \E r \in Resources \ (Elements(spare) \cup {has[d] : d \in Callers}) :
           has' = [has EXCEPT ![c] = r]
    /\ caller' = [caller EXCEPT ![c] = "holding"] /\ UNCHANGED <<spare, queue, shut, hidden>>

(* Fault: a failed create frees its place and wakes nobody. *)
CreateFailsSilently(c) ==
    /\ caller[c] = "opening" /\ caller' = Out(c) /\ UNCHANGED <<has, spare, queue, shut, hidden>>

CreateFails(c) == caller[c] = "opening" /\ Wake(c, spare) /\ UNCHANGED shut

(* Fault: one that is not clean is destroyed and nobody woken. *)
ReleaseSilently(c, clean) ==
    /\ caller[c] = "holding" /\ UNCHANGED shut
    /\ IF clean /\ ~shut THEN Wake(c, Append(spare, has[c]))
       ELSE caller' = Out(c) /\ has' = Empty(c) /\ UNCHANGED <<spare, queue, hidden>>

(* release: a clean resource is idle, any other is destroyed. *)
Release(c, clean) ==
    /\ caller[c] = "holding"
    /\ Wake(c, IF clean /\ ~shut THEN Append(spare, has[c]) ELSE spare) /\ UNCHANGED shut

(* The queue without c, which is in it at most once. *)
Spliced(c) ==
    IF c \in Elements(queue)
    THEN LET i == CHOOSE i \in DOMAIN queue : queue[i] = c
         IN  SubSeq(queue, 1, i - 1) \o SubSeq(queue, i + 1, Len(queue))
    ELSE queue

(* acquireTimeout passes. *)
Timeout(c) ==
    /\ caller[c] = "waiting" /\ caller' = Out(c)
    /\ queue' = Spliced(c) /\ UNCHANGED <<has, spare, shut, hidden>>

SqlClose ==
    /\ ~shut /\ shut' = TRUE /\ spare' = <<>> /\ queue' = <<>>
    /\ caller' = [c \in Callers |-> IF caller[c] = "waiting" THEN "out" ELSE caller[c]]
    /\ UNCHANGED <<has, hidden>>
-----------------------------------------------------------------------------
SqlProgress(c) ==
    \/ Valid(c) \/ Invalid(c) \/ Created(c) \/ CreateFails(c)
    \/ \E clean \in BOOLEAN : Release(c, clean)

SqlNext ==
    \/ \E c \in Callers :
        \/ SqlProgress(c) \/ Timeout(c) \/ AcquireRefused(c)
        \/ \E k \in 0..Len(spare) : Acquire(c, k)
    \/ SqlClose

(* Validations and creates end, and whoever holds a resource releases it. *)
SqlSpec == SqlInit /\ [][SqlNext]_sqlVars /\ \A c \in Callers : WF_sqlVars(SqlProgress(c))
-----------------------------------------------------------------------------
(* A resource has one owner: the idle list or one caller. *)
OneOwner ==
    /\ \A i, j \in DOMAIN spare : spare[i] = spare[j] => i = j
    /\ \A c, d \in Callers : has[c] # 0 /\ has[c] = has[d] => c = d
    /\ \A c \in Callers : has[c] \notin Elements(spare)

(* Nobody waits beside a resource that is idle or a place that is free: every      *)
(* path that gives one back, a failed create too, wakes a waiter.                *)
WaitsOnlyWhenFull == queue # <<>> => spare = <<>> /\ (Live >= SqlMax \/ shut)

(* A closed pool keeps no resource: one that was out or under validation when it   *)
(* closed is destroyed when it is released.                                    *)
ClosedDrains == shut => spare = <<>>

(* The pool goes over its maximum only when a caller took a place while another     *)
(* caller's validation kept a resource out of both tables.                       *)
LimitUnlessHidden == Live <= SqlMax \/ hidden

(* What holds of a SQL pool at all times, part by part as above. *)
SqlInv == SqlTypeOK /\ OneOwner /\ WaitsOnlyWhenFull /\ ClosedDrains /\ LimitUnlessHidden

(* Every caller that waits is served, whatever its timeout, until the pool is       *)
(* closed or somebody took a place past a validation: from then on a waiter may     *)
(* be woken and queued again, behind the others, without end.                      *)
WaitersServed ==
    \A c \in Callers : caller[c] = "waiting" ~> caller[c] # "waiting" \/ shut \/ hidden
=============================================================================
