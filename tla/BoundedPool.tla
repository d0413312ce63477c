----------------------------- MODULE BoundedPool -----------------------------
(***************************************************************************)
(* What a pool of Max connections promises its clients, whatever it does to   *)
(* keep it: never more than Max of them are served at a time, and a client    *)
(* is made to queue only when all Max places are taken.  It may give up at    *)
(* any moment.  MongoPool implements it.                                     *)
(***************************************************************************)
EXTENDS Naturals, FiniteSets

CONSTANTS Clients, Max

VARIABLE place  \* where each client is

Served == {c \in Clients : place[c] = "served"}

Init == place = [c \in Clients |-> "out"]

Enter(c) ==
    /\ place[c] \in {"out", "queued"} /\ Cardinality(Served) < Max
    /\ place' = [place EXCEPT ![c] = "served"]

Queue(c) ==
    /\ place[c] = "out" /\ Cardinality(Served) = Max
    /\ place' = [place EXCEPT ![c] = "queued"]

Leave(c) == place[c] # "left" /\ place' = [place EXCEPT ![c] = "left"]

Next == \E c \in Clients : Enter(c) \/ Queue(c) \/ Leave(c)

Spec == Init /\ [][Next]_place
=============================================================================
