----------------------------- MODULE TimerQueue -----------------------------
(***************************************************************************)
(* The deadline-ordered timer schedule of crates/runtime/src/timer.rs: a   *)
(* min-heap of Scheduled entries, here the set of its entries (a timer id   *)
(* is in the heap at most once, so nothing is lost).  The callbacks live    *)
(* in the engine; whether an id is still active is a parameter.             *)
(***************************************************************************)
EXTENDS Integers

(* One scheduled firing. *)
Scheduled(Ids) == [deadline: Nat, id: Ids, interval: Nat, repeat: BOOLEAN]

(* Ord for Scheduled: by deadline, then by id. *)
Leq(e, f) == \/ e.deadline < f.deadline
             \/ e.deadline = f.deadline /\ e.id <= f.id

(* TimerQueue::schedule. *)
Entry(id, now, delay, repeat) ==
    [deadline |-> now + delay, id |-> id, interval |-> delay, repeat |-> repeat]

(* The entry at the front of the heap. *)
IsFront(e, h) == e \in h /\ \A f \in h : Leq(e, f)

(* Fault: a timer is due only past its deadline. *)
TakeDuePast(h, now) == {e \in h : e.deadline < now}

(* TimerQueue::take_due: the entries it pops, front first. *)
TakeDue(h, now) == {e \in h : e.deadline <= now}

(* TimerQueue::prune_cleared pops the front while it is inactive, so what   *)
(* stays is every entry that has an active one at or before it.             *)
PruneCleared(h, active) == {e \in h : \E f \in h : f.id \in active /\ Leq(f, e)}

(* TimerQueue::next_deadline_ms: empty when nothing is scheduled. *)
NextDeadline(h) == {e.deadline : e \in {f \in h : IsFront(f, h)}}
=============================================================================
