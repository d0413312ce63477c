---------------------------- MODULE TimerContract ----------------------------
(***************************************************************************)
(* What the loop promises about timers, whatever it does to keep it: a timer  *)
(* runs when its delay has passed since the loop took it up, in the order of  *)
(* the deadlines, each at most once in a turn of the loop; one that was        *)
(* cleared never runs again, not even when it was already due, and an          *)
(* interval comes back one delay after it ran.  EventLoop implements it.      *)
(***************************************************************************)
EXTENDS TimerQueue

CONSTANTS
    Delays,     \* the delays timers are set with
    Idle        \* no callback runs

VARIABLES
    now,        \* the loop's time
    active,     \* the timers the guest has set and that have neither ended nor been cleared
    next,       \* the id the next one gets
    asked,      \* those the loop has not taken up yet
    scheduled,  \* those with a deadline
    turn,       \* the ids still to run in this turn
    running     \* the entry whose callback runs: it will be back if it repeats

vars == <<now, active, next, asked, scheduled, turn, running>>

Init ==
    /\ now = 0 /\ active = {} /\ next = 1
    /\ asked = {} /\ scheduled = {} /\ turn = {} /\ running = Idle

Set(delay, repeat) ==
    /\ next' = next + 1 /\ active' = active \cup {next}
    /\ asked' = asked \cup {[id |-> next, delay |-> delay, repeat |-> repeat]}
    /\ UNCHANGED <<now, scheduled, turn, running>>

Clear(id) ==
    /\ id \in active /\ active' = active \ {id} /\ turn' = turn \ {id}
    /\ asked' = {n \in asked : n.id # id}
    /\ scheduled' = {e \in scheduled : e.id # id}
    /\ running' = IF running.id = id THEN [running EXCEPT !.repeat = FALSE] ELSE running
    /\ UNCHANGED <<now, next>>

(* What was set since gets its deadline, counted from t. *)
TakenUp(t) == scheduled \cup {Entry(n.id, t, n.delay, n.repeat) : n \in asked}

Anchor ==
    /\ turn = {} /\ running = Idle
    /\ scheduled' = TakenUp(now) /\ asked' = {}
    /\ UNCHANGED <<now, active, next, turn, running>>

(* A turn of the loop: what is due now may run in it. *)
Turn ==
    /\ turn = {} /\ running = Idle
    /\ now' >= now /\ scheduled' = TakenUp(now') /\ asked' = {}
    /\ turn' = {e.id : e \in {f \in scheduled' : f.deadline <= now'}}
    /\ UNCHANGED <<active, next, running>>

Fire(e) ==
    /\ running = Idle /\ e.id \in turn /\ e.deadline <= now
    /\ \A f \in scheduled : e.deadline <= f.deadline /\ (f.id \in turn => Leq(e, f))
    /\ running' = e /\ scheduled' = scheduled \ {e} /\ turn' = turn \ {e.id}
    /\ active' = IF e.repeat THEN active ELSE active \ {e.id}
    /\ UNCHANGED <<now, next, asked>>

Return ==
    /\ running # Idle /\ running' = Idle
    /\ scheduled' = scheduled \cup
           {Entry(e.id, now, e.interval, TRUE) : e \in {r \in {running} : r.repeat}}
    /\ UNCHANGED <<now, active, next, asked, turn>>

Next ==
    \/ \E d \in Delays, r \in BOOLEAN : Set(d, r)
    \/ \E id \in active : Clear(id)
    \/ Anchor \/ Turn \/ Return
    \/ \E e \in scheduled : Fire(e)

Spec == Init /\ [][Next]_vars
=============================================================================
