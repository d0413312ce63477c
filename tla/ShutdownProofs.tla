---------------------------- MODULE ShutdownProofs ----------------------------
(***************************************************************************)
(* Proofs about the parts that serve and shut down, each for itself.   *)
(* HttpServer: the connection slots, what becomes of requests, and what a     *)
(* drained server leaves.  DurableCatalog: its queue of statements, its       *)
(* connections, the rows of live workers, and the shutdown.                  *)
(***************************************************************************)
EXTENDS HttpServer, DurableCatalog, TLAPS, FiniteSetTheorems

-----------------------------------------------------------------------------
(* HttpServer. *)

(* The permits of the acceptor, its connections and its grip on the next one are    *)
(* never more than there are, and all of them while it runs.                      *)
SlotInv ==
    /\ SlotsExact
    /\ permits \in Nat /\ live \in Nat /\ peerHeld \in Nat
    /\ permits + live + (IF granted THEN 1 ELSE 0) <= Slots
    /\ (granted => accepting)
    /\ (loop = "binding" => ~accepting /\ permits = Slots /\ live = 0)

(* Who waits for its handler has no answer and was not run. *)
RequestInv ==
    /\ NothingKept /\ RefusedNeverRan
    /\ \A c \in Conns : conn[c] \in {"sending", "queued"} => c \notin ran /\ answer[c] = "none"
    /\ \A i \in DOMAIN channel : answer[channel[i]] = "none"
    /\ \A i \in DOMAIN channel : conn[channel[i]] \in {"queued", "over"}
    /\ \A i, j \in DOMAIN channel : channel[i] = channel[j] => i = j

(* Once the drive has ended no handler runs. *)
DrainInv ==
    /\ process \in {"checking", "registered", "waiting", "drained"}
          => loop = "ended" /\ handling = {}
    /\ process = "drained" => Alive = {}
    /\ WakesWhenIdle

HttpInv == HttpTypeOK /\ SlotInv /\ RequestInv /\ DrainInv
-----------------------------------------------------------------------------
(* Only finitely many connections are alive at a time; *)
LEMMA AliveFinite ==
    /\ IsFiniteSet(Alive) /\ Cardinality(Alive) \in Nat
    /\ IsFiniteSet(Alive \cap SamePeer) /\ Cardinality(Alive \cap SamePeer) \in Nat
<1>1. Alive \in SUBSET Conns /\ Alive \cap SamePeer \in SUBSET Conns
  BY DEF Alive
<1> QED
  BY <1>1, HttpAssumption, FS_Subset, FS_CardinalityType DEF HttpAssumption

(* A connection more, a connection less, or the same ones. *)
LEMMA AliveGain ==
    ASSUME NEW c \in Conns, ~Running(c), Running(c)',
           \A d \in Conns \ {c} : Running(d)' <=> Running(d)
    PROVE  /\ Cardinality(Alive') = Cardinality(Alive) + 1
           /\ Cardinality(Alive' \cap SamePeer) =
                 Cardinality(Alive \cap SamePeer) + (IF c \in SamePeer THEN 1 ELSE 0)
<1>1. Alive' = Alive \cup {c} /\ c \notin Alive
  BY DEF Alive
<1>2. Cardinality(Alive') = Cardinality(Alive) + 1
  BY <1>1, AliveFinite, FS_AddElement
<1>3. CASE c \in SamePeer
  <2>1. Alive' \cap SamePeer = (Alive \cap SamePeer) \cup {c} /\ c \notin Alive \cap SamePeer
    BY <1>1, <1>3
  <2>2. Cardinality((Alive \cap SamePeer) \cup {c}) = Cardinality(Alive \cap SamePeer) + 1
    BY <2>1, AliveFinite, FS_AddElement
  <2>3. Cardinality(Alive' \cap SamePeer) = Cardinality(Alive \cap SamePeer) + 1
    BY <2>1, <2>2
  <2> QED
    BY <1>2, <1>3, <2>3
<1>4. CASE c \notin SamePeer
  <2>1. Alive' \cap SamePeer = Alive \cap SamePeer
    BY <1>1, <1>4
  <2> QED
    BY <1>2, <1>4, <2>1, AliveFinite
<1> QED
  BY <1>3, <1>4

(* their number goes down by one when one ends. *)
LEMMA AliveLose ==
    ASSUME NEW c \in Conns, Running(c), ~Running(c)',
           \A d \in Conns \ {c} : Running(d)' <=> Running(d)
    PROVE  /\ Cardinality(Alive') = Cardinality(Alive) - 1 /\ Cardinality(Alive) >= 1
           /\ Cardinality(Alive' \cap SamePeer) =
                 Cardinality(Alive \cap SamePeer) - (IF c \in SamePeer THEN 1 ELSE 0)
           /\ c \in SamePeer => Cardinality(Alive \cap SamePeer) >= 1
<1>1. Alive' = Alive \ {c} /\ c \in Alive
  BY DEF Alive
<1>2. Cardinality(Alive') = Cardinality(Alive) - 1 /\ Cardinality(Alive) >= 1
  <2>1. Cardinality(Alive) # 0
    BY <1>1, AliveFinite, FS_EmptySet
  <2>2. Cardinality(Alive \ {c}) = Cardinality(Alive) - 1
    BY <1>1, AliveFinite, FS_RemoveElement
  <2> QED
    BY <1>1, <2>1, <2>2, AliveFinite
<1>3. CASE c \in SamePeer
  <2>1. Alive' \cap SamePeer = (Alive \cap SamePeer) \ {c} /\ c \in Alive \cap SamePeer
    BY <1>1, <1>3
  <2>2. Cardinality(Alive \cap SamePeer) # 0
    BY <2>1, AliveFinite, FS_EmptySet
  <2>3. Cardinality((Alive \cap SamePeer) \ {c}) = Cardinality(Alive \cap SamePeer) - 1
    BY <2>1, AliveFinite, FS_RemoveElement
  <2>4. Cardinality(Alive' \cap SamePeer) = Cardinality(Alive \cap SamePeer) - 1
    BY <2>1, <2>3
  <2> QED
    BY <1>2, <1>3, <2>2, <2>4, AliveFinite
<1>4. CASE c \notin SamePeer
  <2>1. Alive' \cap SamePeer = Alive \cap SamePeer
    BY <1>1, <1>4
  <2> QED
    BY <1>2, <1>4, <2>1, AliveFinite
<1> QED
  BY <1>3, <1>4
-----------------------------------------------------------------------------
(* A step that accepts no connection and ends none keeps the slots. *)
LEMMA SlotsKept ==
    ASSUME SlotInv, UNCHANGED <<permits, peerHeld, live, granted, accepting>>,
           \A c \in Conns : Running(c)' <=> Running(c),
           loop' = "binding" => loop = "binding"
    PROVE  SlotInv'
<1>1. Alive' = Alive
  BY DEF Alive
<1> QED
  BY <1>1 DEF SlotInv, SlotsExact

(* Nor does one that stops the acceptor. *)
LEMMA SlotsHalted ==
    ASSUME HttpTypeOK, SlotInv, UNCHANGED <<permits, peerHeld, live>>, granted' = FALSE,
           accepting' = FALSE, \A c \in Conns : Running(c)' <=> Running(c), loop' = loop
    PROVE  SlotInv'
<1>1. Alive' = Alive
  BY DEF Alive
<1>2. permits + live + (IF granted' THEN 1 ELSE 0) <= Slots
  BY HttpAssumption DEF SlotInv, HttpAssumption
<1> QED
  BY <1>1, <1>2 DEF SlotInv, SlotsExact

(* The end of a connection gives back what it held. *)
LEMMA SlotsEnd ==
    ASSUME HttpTypeOK, SlotInv, NEW c \in Conns, Running(c), End(c),
           UNCHANGED <<granted, accepting, loop>>
    PROVE  SlotInv' /\ live = Cardinality(Alive) /\ live >= 1
<1>1. /\ ~Running(c)' /\ \A d \in Conns \ {c} : Running(d)' <=> Running(d)
  BY DEF End, Station, Running, HttpTypeOK
<1>2. /\ Cardinality(Alive') = Cardinality(Alive) - 1 /\ Cardinality(Alive) >= 1
      /\ Cardinality(Alive' \cap SamePeer) =
            Cardinality(Alive \cap SamePeer) - (IF c \in SamePeer THEN 1 ELSE 0)
      /\ c \in SamePeer => Cardinality(Alive \cap SamePeer) >= 1
  BY <1>1, AliveLose
<1>3. /\ live' = live - 1 /\ permits' = permits + 1
      /\ peerHeld' = IF c \in SamePeer THEN peerHeld - 1 ELSE peerHeld
  BY DEF End
<1>4. SlotInv'
  BY <1>2, <1>3, HttpAssumption DEF SlotInv, SlotsExact, HttpAssumption
<1> QED
  BY <1>2, <1>4 DEF SlotInv, SlotsExact

(* Every step keeps the count of slots. *)
LEMMA SlotsStep ==
    ASSUME HttpTypeOK, SlotInv, [HttpNext]_httpVars
    PROVE  SlotInv'
<1> USE DEF readerVars, acceptVars, requestVars, shutdownVars, Station
<1>t. conn \in [Conns -> Stations] /\ loop \in Loops
  BY DEF HttpTypeOK
<1>r. ASSUME UNCHANGED conn PROVE \A c \in Conns : Running(c)' <=> Running(c)
  BY <1>r DEF Running
<1>1. CASE Serve
  <2>1. Alive' = Alive
    BY <1>1 DEF Serve, Alive, Running
  <2>2. /\ ~granted /\ permits = Slots /\ live = 0 /\ loop' # "binding"
        /\ UNCHANGED <<granted, permits, live, peerHeld>>
    BY <1>1 DEF Serve, SlotInv
  <2> QED
    BY <2>1, <2>2, HttpAssumption DEF SlotInv, SlotsExact, HttpAssumption
<1>2. CASE ServeFails
  BY <1>2, <1>r, SlotsKept DEF ServeFails
<1>3. CASE TakePermit
  <2>1. Alive' = Alive
    BY <1>3 DEF TakePermit, Alive, Running
  <2>2. /\ accepting /\ ~granted /\ permits > 0 /\ granted' = TRUE /\ permits' = permits - 1
        /\ UNCHANGED <<accepting, live, peerHeld, loop>>
    BY <1>3 DEF TakePermit
  <2> QED
    BY <2>1, <2>2, HttpAssumption DEF SlotInv, SlotsExact, HttpAssumption
<1>4. ASSUME NEW c \in Conns, Accept(c) PROVE SlotInv'
  <2>1. CASE c \in SamePeer /\ peerHeld >= PeerMax
    <3>1. \A d \in Conns : Running(d)' <=> Running(d)
      BY <1>4, <1>t, <2>1 DEF Accept, Running
    <3>2. Alive' = Alive
      BY <3>1 DEF Alive
    <3>3. /\ accepting /\ granted /\ granted' = FALSE /\ permits' = permits + 1
          /\ UNCHANGED <<accepting, live, peerHeld, loop>>
      BY <1>4, <2>1 DEF Accept
    <3> QED
      BY <3>2, <3>3, HttpAssumption DEF SlotInv, SlotsExact, HttpAssumption
  <2>2. CASE ~(c \in SamePeer /\ peerHeld >= PeerMax)
    <3>1. ~Running(c) /\ Running(c)' /\ \A d \in Conns \ {c} : Running(d)' <=> Running(d)
      BY <1>4, <1>t, <2>2 DEF Accept, Running
    <3>2. /\ Cardinality(Alive') = Cardinality(Alive) + 1
          /\ Cardinality(Alive' \cap SamePeer) =
                Cardinality(Alive \cap SamePeer) + (IF c \in SamePeer THEN 1 ELSE 0)
      BY <3>1, AliveGain
    <3>3. /\ accepting /\ granted /\ granted' = FALSE /\ permits' = permits
          /\ live' = live + 1 /\ UNCHANGED <<accepting, loop>>
          /\ peerHeld' = IF c \in SamePeer THEN peerHeld + 1 ELSE peerHeld
      BY <1>4, <2>2 DEF Accept
    <3> QED
      BY <3>2, <3>3, HttpAssumption DEF SlotInv, SlotsExact, HttpAssumption
  <2> QED
    BY <2>1, <2>2
<1>5. CASE AcceptFails
  <2>1. Alive' = Alive
    BY <1>5 DEF AcceptFails, Alive, Running
  <2>2. /\ accepting /\ granted /\ granted' = FALSE /\ permits' = permits + 1
        /\ UNCHANGED <<accepting, live, peerHeld, loop>>
    BY <1>5 DEF AcceptFails
  <2> QED
    BY <2>1, <2>2, HttpAssumption DEF SlotInv, SlotsExact, HttpAssumption
<1>6. ASSUME NEW c \in Conns, Request(c) PROVE SlotInv'
  BY <1>6, <1>t, SlotsKept DEF Request, Running
<1>7. ASSUME NEW c \in Conns, Send(c) PROVE SlotInv'
  BY <1>7, <1>t, SlotsKept DEF Send, Running
<1>8. ASSUME NEW c \in Conns, Written(c) PROVE SlotInv'
  <2>1. CASE draining
    <3>1. End(c) /\ Running(c) /\ UNCHANGED <<granted, accepting, loop>>
      BY <1>8, <2>1 DEF Written, Running
    <3> QED
      BY <3>1, SlotsEnd
  <2>2. CASE ~draining
    BY <1>8, <1>t, <2>2, SlotsKept DEF Written, Running
  <2> QED
    BY <2>1, <2>2
<1>9. ASSUME NEW c \in Conns, Wind(c) PROVE SlotInv'
  <2>1. End(c) /\ Running(c) /\ UNCHANGED <<granted, accepting, loop>>
    BY <1>9 DEF Wind, Running
  <2> QED
    BY <2>1, SlotsEnd
<1>10. ASSUME NEW c \in Conns, Vanish(c) PROVE SlotInv'
  <2>1. End(c) /\ Running(c) /\ UNCHANGED <<granted, accepting, loop>>
    BY <1>10 DEF Vanish
  <2> QED
    BY <2>1, SlotsEnd
<1>11. CASE Reading
  <2>1. \A c \in Conns : Running(c)' <=> Running(c)
    BY <1>11, <1>t DEF Reading, TakeReceiver, FetchControl, Park, Hear, Receive, Exhausted, Running
  <2>2. /\ UNCHANGED <<permits, peerHeld, live, granted, accepting>>
        /\ loop' = "binding" => loop = "binding"
    BY <1>11 DEF Reading, TakeReceiver, FetchControl, Park, Hear, Receive, Exhausted
  <2> QED
    BY <2>1, <2>2, SlotsKept
<1>12. ASSUME NEW c \in Conns, Watch(c) \/ Respond(c) PROVE SlotInv'
  <2>1. \A d \in Conns : Running(d)' <=> Running(d)
    BY <1>12, <1>t DEF Watch, Respond, Running
  <2> QED
    BY <1>12, <2>1, SlotsKept DEF Watch, Respond
<1>d. ASSUME DropReceiver PROVE \A c \in Conns : Running(c)' <=> Running(c)
  BY <1>d, <1>t DEF DropReceiver, Running
<1>h. ASSUME Halt, UNCHANGED <<permits, peerHeld, live, loop>> PROVE SlotInv'
  BY <1>h, <1>d, SlotsHalted DEF Halt
<1>13. CASE StopServer
  <2>1. CASE control
    BY <1>13, <1>h, <2>1 DEF StopServer
  <2>2. CASE ~control
    <3>1. \A c \in Conns : Running(c)' <=> Running(c)
      BY <1>13, <1>d, <1>r, <2>2 DEF StopServer
    <3> QED
      BY <1>13, <2>2, <3>1, SlotsKept DEF StopServer
  <2> QED
    BY <2>1, <2>2
<1>14. CASE ShutdownAll
  BY <1>14, <1>h DEF ShutdownAll
<1>15. CASE Signal \/ Leave \/ DriveEnds \/ Waiting
  BY <1>15, <1>r, SlotsKept DEF Signal, Leave, DriveEnds, Waiting, CheckIdle, RecheckIdle, IdleWoken
<1>16. CASE UNCHANGED httpVars
  BY <1>16, <1>r, SlotsKept DEF httpVars
<1> QED
  BY <1>1, <1>2, <1>3, <1>4, <1>5, <1>6, <1>7, <1>8, <1>9, <1>10, <1>11, <1>12, <1>13,
     <1>14, <1>15, <1>16 DEF HttpNext, Answering
-----------------------------------------------------------------------------
(* The types, in three parts: where things are, the counts, and the requests. *)
PlaceTypes ==
    /\ loop \in Loops /\ stopped \in BOOLEAN /\ control \in BOOLEAN /\ listens \in BOOLEAN
    /\ notified \in BOOLEAN /\ accepting \in BOOLEAN /\ granted \in BOOLEAN
    /\ draining \in BOOLEAN /\ woken \in BOOLEAN
    /\ receiver \in {"none", "home", "out", "gone"}
    /\ (receiver = "out" <=> loop \in {"fetching", "ready", "parked"})
    /\ process \in Processes
PeerTypes == peerHeld \in 0..PeerMax
RequestTypes ==
    /\ conn \in [Conns -> Stations] /\ sent \in 0..MaxSent
    /\ answer \in [Conns -> {"none", "handler", "refused"}]
    /\ ran \subseteq Conns /\ pending \subseteq Conns /\ handed \subseteq Conns
    /\ handling \subseteq Conns /\ channel \in Seq(Conns) /\ Len(channel) <= Cap

(* The types of the server, part by part. *)
LEMMA TypesJoin == PlaceTypes /\ PeerTypes /\ RequestTypes /\ SlotInv => HttpTypeOK
<1> SUFFICES ASSUME PlaceTypes, PeerTypes, RequestTypes, SlotInv PROVE HttpTypeOK
  OBVIOUS
<1>1. permits \in 0..Slots
  <2>1. Slots \in Nat /\ permits \in Nat /\ live \in Nat
    BY HttpAssumption DEF SlotInv, HttpAssumption
  <2>2. permits + live <= Slots
    BY <2>1 DEF SlotInv
  <2> QED
    BY <2>1, <2>2
<1> QED
  BY <1>1 DEF PlaceTypes, PeerTypes, RequestTypes, HttpTypeOK, SlotInv

(* Every step keeps the types of the places, *)
LEMMA PlaceStep ==
    ASSUME HttpTypeOK, [HttpNext]_httpVars PROVE PlaceTypes'
<1> USE DEF readerVars, acceptVars, requestVars, shutdownVars, Loops, Processes
<1>t. PlaceTypes
  BY DEF PlaceTypes, HttpTypeOK
<1>r. DropReceiver => receiver' \in {receiver, "gone"} /\ (receiver' = "out" <=> receiver = "out")
  BY DEF DropReceiver
<1>w. ASSUME NEW c, End(c) PROVE woken' \in BOOLEAN
  BY <1>w DEF End
<1>1. CASE Serve \/ ServeFails
  <2>1. /\ loop = "binding" /\ loop' \in {"ended", "looking"} /\ receiver' \in {"home", receiver}
        /\ UNCHANGED <<stopped, listens, notified, granted, draining, woken, process>>
    BY <1>1 DEF Serve, ServeFails
  <2>2. control' \in BOOLEAN /\ accepting' \in BOOLEAN
    <3>1. control' = control \/ control' = TRUE
      BY <1>1 DEF Serve, ServeFails
    <3>2. accepting' = accepting \/ accepting' = TRUE
      BY <1>1 DEF Serve, ServeFails
    <3> QED
      BY <1>t, <3>1, <3>2 DEF PlaceTypes
  <2> QED
    BY <1>t, <2>1, <2>2 DEF PlaceTypes
<1>2. CASE TakePermit \/ AcceptFails
  <2>1. /\ granted' \in BOOLEAN
        /\ UNCHANGED <<loop, stopped, receiver, control, listens, notified, accepting, draining,
                       woken, process>>
    BY <1>2 DEF TakePermit, AcceptFails
  <2> QED
    BY <1>t, <2>1 DEF PlaceTypes
<1>3. ASSUME NEW c \in Conns, Accept(c) PROVE PlaceTypes'
  BY <1>t, <1>3 DEF Accept, PlaceTypes
<1>4. ASSUME NEW c \in Conns, Request(c) \/ Send(c) \/ Watch(c) \/ Respond(c) PROVE PlaceTypes'
  BY <1>t, <1>4 DEF Request, Send, Watch, Respond, PlaceTypes
<1>5. ASSUME NEW c \in Conns, Written(c) \/ Wind(c) \/ Vanish(c) PROVE PlaceTypes'
  <2>1. woken' \in BOOLEAN
    BY <1>t, <1>5, <1>w DEF Written, Wind, Vanish, PlaceTypes
  <2>2. UNCHANGED <<loop, stopped, receiver, control, listens, notified, accepting, granted,
                    draining, process>>
    BY <1>5 DEF Written, Wind, Vanish
  <2> QED
    BY <1>t, <2>1, <2>2 DEF PlaceTypes
<1>6. CASE TakeReceiver
  BY <1>t, <1>6 DEF TakeReceiver, PlaceTypes
<1>7. CASE FetchControl
  BY <1>t, <1>7 DEF FetchControl, PlaceTypes
<1>8. CASE Park
  BY <1>t, <1>8 DEF Park, PlaceTypes
<1>9. CASE Hear
  BY <1>t, <1>9 DEF Hear, PlaceTypes
<1>10. CASE Receive
  BY <1>t, <1>10 DEF Receive, PlaceTypes
<1>11. CASE Exhausted
  BY <1>t, <1>11 DEF Exhausted, PlaceTypes
<1>h. ASSUME Halt PROVE /\ accepting' \in BOOLEAN /\ granted' \in BOOLEAN /\ draining' \in BOOLEAN
                        /\ notified' \in BOOLEAN /\ DropReceiver
  <2>1. notified' = (notified \/ (loop = "parked" /\ listens))
    BY <1>h DEF Halt
  <2>2. notified' \in BOOLEAN
    BY <2>1
  <2> QED
    BY <1>h, <2>2 DEF Halt
<1>12. CASE StopServer
  <2>1. CASE control
    <3>1. /\ stopped' = TRUE /\ control' = FALSE /\ Halt
          /\ UNCHANGED <<loop, listens, woken, process>>
      BY <1>12, <2>1 DEF StopServer
    <3> QED
      BY <1>t, <1>h, <1>r, <3>1 DEF PlaceTypes
  <2>2. CASE ~control
    <3>1. /\ stopped' = TRUE /\ (DropReceiver \/ receiver' = receiver)
          /\ UNCHANGED <<loop, listens, woken, process, control, accepting, granted, draining,
                         notified>>
      BY <1>12, <2>2 DEF StopServer
    <3> QED
      BY <1>t, <1>r, <3>1 DEF PlaceTypes
  <2> QED
    BY <2>1, <2>2
<1>13. CASE ShutdownAll
  <2>1. /\ process' = "draining" /\ Halt
        /\ UNCHANGED <<loop, stopped, listens, woken, control>>
    BY <1>13 DEF ShutdownAll
  <2> QED
    BY <1>t, <1>h, <1>r, <2>1 DEF PlaceTypes
<1>14. CASE Signal \/ Leave \/ DriveEnds
  <2>1. /\ process' \in Processes /\ (control' = control \/ control' = FALSE)
        /\ UNCHANGED <<loop, stopped, receiver, listens, notified, accepting, granted, draining,
                       woken>>
    BY <1>14 DEF Signal, Leave, DriveEnds
  <2>2. control' \in BOOLEAN
    BY <1>t, <2>1 DEF PlaceTypes
  <2> QED
    BY <1>t, <2>1, <2>2 DEF PlaceTypes
<1>15. CASE Waiting
  <2>1. /\ process' \in Processes
        /\ UNCHANGED <<loop, stopped, receiver, control, listens, notified, accepting, granted,
                       draining>>
    BY <1>15 DEF Waiting, CheckIdle, RecheckIdle, IdleWoken
  <2>2. woken' \in BOOLEAN
    <3>1. woken' = woken \/ woken' = FALSE
      BY <1>15 DEF Waiting, CheckIdle, RecheckIdle, IdleWoken
    <3> QED
      BY <1>t, <3>1 DEF PlaceTypes
  <2>3. /\ loop' \in Loops /\ stopped' \in BOOLEAN /\ control' \in BOOLEAN
        /\ listens' \in BOOLEAN /\ notified' \in BOOLEAN /\ accepting' \in BOOLEAN
        /\ granted' \in BOOLEAN /\ draining' \in BOOLEAN
        /\ receiver' \in {"none", "home", "out", "gone"}
        /\ (receiver' = "out" <=> loop' \in {"fetching", "ready", "parked"})
    BY <1>t, <2>1 DEF PlaceTypes
  <2> QED
    BY <2>1, <2>2, <2>3, Zenon DEF PlaceTypes
<1>16. CASE UNCHANGED httpVars
  BY <1>t, <1>16 DEF httpVars, PlaceTypes
<1> QED
  BY <1>1, <1>2, <1>3, <1>4, <1>5, <1>6, <1>7, <1>8, <1>9, <1>10, <1>11, <1>12, <1>13,
     <1>14, <1>15, <1>16 DEF HttpNext, Answering, Reading

(* of what the peers hold, *)
LEMMA PeerStep ==
    ASSUME HttpTypeOK, SlotInv, [HttpNext]_httpVars, peerHeld' \in Nat PROVE PeerTypes'
<1> USE DEF readerVars, acceptVars, requestVars, shutdownVars
<1>1. PeerMax \in Nat /\ peerHeld \in 0..PeerMax
  BY HttpAssumption DEF HttpAssumption, HttpTypeOK
<1>2. \/ peerHeld' = peerHeld \/ peerHeld' = peerHeld - 1
      \/ (peerHeld' = peerHeld + 1 /\ ~(peerHeld >= PeerMax))
  BY DEF HttpNext, Answering, Reading, Waiting, Serve, ServeFails, TakePermit, AcceptFails,
         Accept, Request, Send, Written, Wind, Vanish, End, TakeReceiver, FetchControl, Park, Hear,
         Receive, Exhausted, Watch, Respond, StopServer, Signal, ShutdownAll, Leave, DriveEnds,
         CheckIdle, RecheckIdle, IdleWoken, httpVars
<1> QED
  BY <1>1, <1>2 DEF PeerTypes
-----------------------------------------------------------------------------
(* The end of a sequence. *)
LEMMA BackOf ==
    ASSUME NEW S, NEW s \in Seq(S), NEW n \in 1 .. Len(s)
    PROVE  /\ SubSeq(s, n + 1, Len(s)) \in Seq(S)
           /\ Len(SubSeq(s, n + 1, Len(s))) = Len(s) - n
           /\ \A i \in 1 .. Len(s) - n : SubSeq(s, n + 1, Len(s))[i] = s[i + n]
  BY SMT

(* What Receive takes and leaves. *)
LEMMA ReceiveTakes ==
    ASSUME RequestTypes, Receive
    PROVE  \E n \in 1 .. Len(channel), taken \in SUBSET Conns :
              /\ taken = {channel[i] : i \in 1..n}
              /\ conn' = [c \in Conns |-> IF c \in taken /\ conn[c] = "queued" THEN "taken"
                                          ELSE conn[c]]
              /\ channel' = SubSeq(channel, n + 1, Len(channel))
              /\ pending' = pending \cup taken /\ handed' = handed \cup taken
              /\ handling' = handling \cup taken /\ ran' = ran \cup taken
              /\ UNCHANGED <<sent, answer>>
<1> DEFINE n == IF Len(channel) < Batch THEN Len(channel) ELSE Batch
           taken == {channel[i] : i \in 1..n}
<1>0. channel \in Seq(Conns) /\ channel # <<>> /\ Len(channel) \in Nat \ {0}
  BY DEF RequestTypes, Receive
<1>1. n \in 1 .. Len(channel)
  BY <1>0, HttpAssumption DEF HttpAssumption
<1>2. /\ conn' = [c \in Conns |-> IF c \in taken /\ conn[c] = "queued" THEN "taken"
                                  ELSE conn[c]]
      /\ channel' = SubSeq(channel, n + 1, Len(channel))
      /\ pending' = pending \cup taken /\ handed' = handed \cup taken
      /\ handling' = handling \cup taken /\ ran' = ran \cup taken
      /\ UNCHANGED <<sent, answer>>
  BY DEF Receive
<1> HIDE DEF n
<1>3. taken \in SUBSET Conns
  BY <1>0, <1>1
<1> HIDE DEF taken
<1> QED
  BY <1>1, <1>2, <1>3 DEF taken

(* and of the requests. *)
LEMMA RequestTypeStep ==
    ASSUME RequestTypes, [HttpNext]_httpVars PROVE RequestTypes'
<1> USE DEF readerVars, acceptVars, requestVars, shutdownVars, Station
<1>s. \A s \in {"over", "open", "sending", "queued", "taken", "answered"} : s \in Stations
  BY DEF Stations
<1>u. ASSUME UNCHANGED requestVars, conn' = conn PROVE RequestTypes'
  BY <1>u DEF RequestTypes
<1>c. ASSUME UNCHANGED requestVars, NEW c \in Conns, NEW s \in Stations, conn' = [conn EXCEPT ![c] = s]
      PROVE  RequestTypes'
  BY <1>c DEF RequestTypes
<1>1. CASE Serve \/ ServeFails \/ TakePermit \/ AcceptFails
  BY <1>1, <1>u DEF Serve, ServeFails, TakePermit, AcceptFails
<1>2. ASSUME NEW c \in Conns, Accept(c) PROVE RequestTypes'
  <2>1. UNCHANGED requestVars /\ (conn' = [conn EXCEPT ![c] = "over"] \/ conn' = [conn EXCEPT ![c] = "open"])
    BY <1>2 DEF Accept
  <2> QED
    BY <1>s, <1>c, <2>1
<1>3. ASSUME NEW c \in Conns, Request(c) PROVE RequestTypes'
  <2>1. /\ sent < MaxSent /\ conn' = [conn EXCEPT ![c] = "sending"] /\ sent' = sent + 1
        /\ answer' = [answer EXCEPT ![c] = "none"] /\ ran' = ran \ {c}
        /\ UNCHANGED <<channel, pending, handed, handling>>
    BY <1>3 DEF Request
  <2>2. sent' \in 0..MaxSent
    BY <2>1, HttpAssumption DEF RequestTypes, HttpAssumption
  <2> QED
    BY <1>s, <2>1, <2>2 DEF RequestTypes
<1>4. ASSUME NEW c \in Conns, Send(c) PROVE RequestTypes'
  <2>1. CASE receiver = "gone"
    BY <1>s, <1>4, <2>1 DEF Send, RequestTypes
  <2>2. CASE receiver # "gone"
    <3>1. /\ Len(channel) < Cap /\ conn' = [conn EXCEPT ![c] = "queued"]
          /\ channel' = Append(channel, c)
          /\ UNCHANGED <<answer, sent, ran, pending, handed, handling>>
      BY <1>4, <2>2 DEF Send
    <3>2. channel' \in Seq(Conns) /\ Len(channel') <= Cap
      BY <3>1, HttpAssumption DEF RequestTypes, HttpAssumption
    <3> QED
      BY <1>s, <3>1, <3>2 DEF RequestTypes
  <2> QED
    BY <2>1, <2>2
<1>5. ASSUME NEW c \in Conns, Written(c) \/ Wind(c) \/ Vanish(c) PROVE RequestTypes'
  <2>1. UNCHANGED requestVars /\ (conn' = [conn EXCEPT ![c] = "over"] \/ conn' = [conn EXCEPT ![c] = "open"])
    BY <1>5 DEF Written, Wind, Vanish, End
  <2> QED
    BY <1>s, <1>c, <2>1
<1>6. CASE TakeReceiver \/ FetchControl \/ Park \/ Hear \/ Exhausted
  BY <1>6, <1>u DEF TakeReceiver, FetchControl, Park, Hear, Exhausted
<1>7. CASE Receive
  <2>1. PICK n \in 1 .. Len(channel), taken \in SUBSET Conns :
              /\ conn' = [c \in Conns |-> IF c \in taken /\ conn[c] = "queued" THEN "taken"
                                          ELSE conn[c]]
              /\ channel' = SubSeq(channel, n + 1, Len(channel))
              /\ pending' = pending \cup taken /\ handed' = handed \cup taken
              /\ handling' = handling \cup taken /\ ran' = ran \cup taken
              /\ UNCHANGED <<sent, answer>>
    BY <1>7, ReceiveTakes
  <2>2. channel \in Seq(Conns) /\ Len(channel) <= Cap /\ Cap \in Nat /\ Len(channel) \in Nat
    BY HttpAssumption DEF RequestTypes, HttpAssumption
  <2>3. channel' \in Seq(Conns) /\ Len(channel') = Len(channel) - n
    BY <2>1, <2>2, BackOf
  <2>4. Len(channel') <= Cap
    BY <2>2, <2>3
  <2>5. conn' \in [Conns -> Stations]
    BY <1>s, <2>1 DEF RequestTypes
  <2> QED
    BY <2>1, <2>3, <2>4, <2>5 DEF RequestTypes
<1>8. ASSUME NEW c \in Conns, Watch(c) \/ Respond(c) PROVE RequestTypes'
  BY <1>s, <1>8 DEF Watch, Respond, RequestTypes
<1>d. ASSUME DropReceiver, UNCHANGED <<sent, ran, pending, handed, handling>> PROVE RequestTypes'
  <2>1. CASE receiver = "home"
    <3>1. channel' = <<>> /\ channel' \in Seq(Conns) /\ Len(channel') = 0
      BY <1>d, <2>1 DEF DropReceiver
    <3>2. Len(channel') <= Cap
      BY <3>1, HttpAssumption DEF HttpAssumption
    <3> QED
      BY <1>s, <1>d, <2>1, <3>1, <3>2 DEF DropReceiver, RequestTypes
  <2>2. CASE receiver # "home"
    BY <1>d, <2>2 DEF DropReceiver, RequestTypes
  <2> QED
    BY <2>1, <2>2
<1>9. CASE StopServer
  <2>1. \/ DropReceiver /\ UNCHANGED <<sent, ran, pending, handed, handling>>
        \/ UNCHANGED requestVars /\ conn' = conn
    BY <1>9 DEF StopServer, Halt
  <2> QED
    BY <1>d, <1>u, <2>1
<1>10. CASE ShutdownAll
  BY <1>10, <1>d DEF ShutdownAll, Halt
<1>11. CASE Signal \/ Leave \/ DriveEnds \/ Waiting
  BY <1>11, <1>u DEF Signal, Leave, DriveEnds, Waiting, CheckIdle, RecheckIdle, IdleWoken
<1>12. CASE UNCHANGED httpVars
  BY <1>12, <1>u DEF httpVars
<1> QED
  BY <1>1, <1>2, <1>3, <1>4, <1>5, <1>6, <1>7, <1>8, <1>9, <1>10, <1>11, <1>12
  DEF HttpNext, Answering, Reading
-----------------------------------------------------------------------------
(* A refused request never reached its handler, and nothing is kept of an answered one. *)
LEMMA RequestStep ==
    ASSUME RequestTypes, RequestInv, [HttpNext]_httpVars PROVE RequestInv'
<1> USE DEF readerVars, acceptVars, requestVars, shutdownVars, Station
<1>t. /\ conn \in [Conns -> Stations] /\ answer \in [Conns -> {"none", "handler", "refused"}]
      /\ channel \in Seq(Conns) /\ \A i \in DOMAIN channel : channel[i] \in Conns
  BY DEF RequestTypes
<1>u. ASSUME UNCHANGED requestVars, conn' = conn PROVE RequestInv'
  BY <1>u DEF RequestInv, NothingKept, RefusedNeverRan
<1>c. ASSUME UNCHANGED requestVars, NEW c \in Conns,
             \/ conn' = [conn EXCEPT ![c] = "over"]
             \/ conn' = [conn EXCEPT ![c] = "open"] /\ conn[c] \in {"out", "answered"}
      PROVE  RequestInv'
  BY <1>t, <1>c DEF RequestInv, NothingKept, RefusedNeverRan
<1>1. CASE Serve \/ ServeFails \/ TakePermit \/ AcceptFails
  BY <1>1, <1>u DEF Serve, ServeFails, TakePermit, AcceptFails
<1>2. ASSUME NEW c \in Conns, Accept(c) PROVE RequestInv'
  BY <1>2, <1>c DEF Accept
<1>3. ASSUME NEW c \in Conns, Request(c) PROVE RequestInv'
  <2>1. /\ conn[c] = "open" /\ conn' = [conn EXCEPT ![c] = "sending"]
        /\ answer' = [answer EXCEPT ![c] = "none"] /\ ran' = ran \ {c}
        /\ UNCHANGED <<channel, pending, handed, handling>>
    BY <1>3 DEF Request
  <2> QED
    BY <1>t, <2>1 DEF RequestInv, NothingKept, RefusedNeverRan
<1>4. ASSUME NEW c \in Conns, Send(c) PROVE RequestInv'
  <2>1. CASE receiver = "gone"
    <3>1. /\ conn[c] = "sending" /\ conn' = [conn EXCEPT ![c] = "answered"]
          /\ answer' = [answer EXCEPT ![c] = "refused"]
          /\ UNCHANGED <<channel, ran, pending, handed, handling>>
      BY <1>4, <2>1 DEF Send
    <3> QED
      BY <1>t, <3>1 DEF RequestInv, NothingKept, RefusedNeverRan
  <2>2. CASE receiver # "gone"
    <3>1. /\ conn[c] = "sending" /\ conn' = [conn EXCEPT ![c] = "queued"]
          /\ channel' = Append(channel, c)
          /\ UNCHANGED <<answer, ran, pending, handed, handling>>
      BY <1>4, <2>2 DEF Send
    <3>2. \A i \in DOMAIN channel' :
             \/ i \in DOMAIN channel /\ channel'[i] = channel[i] /\ channel[i] # c
             \/ i = Len(channel) + 1 /\ channel'[i] = c
      BY <1>t, <3>1 DEF RequestInv
    <3>3. conn'[c] = "queued" /\ answer[c] = "none" /\ c \notin ran
      BY <1>t, <3>1 DEF RequestInv
    <3> QED
      BY <1>t, <3>1, <3>2, <3>3 DEF RequestInv, NothingKept, RefusedNeverRan
  <2> QED
    BY <2>1, <2>2
<1>5. ASSUME NEW c \in Conns, Written(c) \/ Wind(c) \/ Vanish(c) PROVE RequestInv'
  BY <1>5, <1>c DEF Written, Wind, Vanish, End
<1>6. CASE TakeReceiver \/ FetchControl \/ Park \/ Hear \/ Exhausted
  BY <1>6, <1>u DEF TakeReceiver, FetchControl, Park, Hear, Exhausted
<1>7. CASE Receive
  <2>1. PICK n \in 1 .. Len(channel), taken \in SUBSET Conns :
              /\ taken = {channel[i] : i \in 1..n}
              /\ conn' = [c \in Conns |-> IF c \in taken /\ conn[c] = "queued" THEN "taken"
                                          ELSE conn[c]]
              /\ channel' = SubSeq(channel, n + 1, Len(channel))
              /\ pending' = pending \cup taken /\ handed' = handed \cup taken
              /\ handling' = handling \cup taken /\ ran' = ran \cup taken
              /\ UNCHANGED <<sent, answer>>
    BY <1>7, ReceiveTakes
  <2>2. /\ channel' \in Seq(Conns) /\ Len(channel') = Len(channel) - n
        /\ \A i \in 1 .. Len(channel) - n : channel'[i] = channel[i + n]
    BY <1>t, <2>1, BackOf
  <2>3. /\ Len(channel) \in Nat /\ n \in Nat \ {0} /\ n <= Len(channel)
        /\ DOMAIN channel = 1 .. Len(channel)
    BY <1>t, <2>1
  <2>4. \A i \in DOMAIN channel' :
           /\ i + n \in DOMAIN channel /\ channel'[i] = channel[i + n] /\ i \in Nat \ {0}
    BY <2>2, <2>3
  <2>5. \A i \in DOMAIN channel' : channel'[i] \notin taken
    <3>1. \A i \in DOMAIN channel', k \in 1..n : k \in DOMAIN channel /\ k # i + n
      BY <2>3, <2>4
    <3> QED
      BY <2>1, <2>4, <3>1 DEF RequestInv
  <2>6. \A c \in taken : answer[c] = "none" /\ conn[c] \in {"queued", "over"}
    <3>1. \A k \in 1..n : k \in DOMAIN channel
      BY <2>3
    <3> QED
      BY <2>1, <3>1 DEF RequestInv
  <2>7. NothingKept'
    BY <2>1 DEF RequestInv, NothingKept
  <2>8. RefusedNeverRan'
    BY <2>1, <2>6 DEF RequestInv, RefusedNeverRan
  <2>9. \A c \in Conns : conn'[c] \in {"sending", "queued"} => c \notin ran' /\ answer'[c] = "none"
    BY <1>t, <2>1, <2>6 DEF RequestInv
  <2>10. \A i \in DOMAIN channel' :
            answer'[channel'[i]] = "none" /\ conn'[channel'[i]] \in {"queued", "over"}
    BY <1>t, <2>1, <2>4, <2>5 DEF RequestInv
  <2>11. \A i, j \in DOMAIN channel' : channel'[i] = channel'[j] => i = j
    <3> SUFFICES ASSUME NEW i \in DOMAIN channel', NEW j \in DOMAIN channel',
                        channel'[i] = channel'[j]
                 PROVE  i = j
      OBVIOUS
    <3>1. i + n = j + n
      BY <2>4 DEF RequestInv
    <3> QED
      BY <2>3, <2>4, <3>1
  <2> QED
    BY <2>7, <2>8, <2>9, <2>10, <2>11 DEF RequestInv
<1>8. ASSUME NEW c \in Conns, Watch(c) PROVE RequestInv'
  BY <1>8 DEF Watch, RequestInv, NothingKept, RefusedNeverRan
<1>9. ASSUME NEW c \in Conns, Respond(c) PROVE RequestInv'
  BY <1>t, <1>9 DEF Respond, RequestInv, NothingKept, RefusedNeverRan
<1>d. ASSUME DropReceiver, UNCHANGED <<sent, ran, pending, handed, handling>> PROVE RequestInv'
  <2>1. CASE receiver = "home"
    <3>1. DOMAIN channel' = {}
      BY <1>d, <2>1 DEF DropReceiver
    <3> QED
      BY <1>t, <1>d, <2>1, <3>1 DEF DropReceiver, RequestInv, NothingKept, RefusedNeverRan
  <2>2. CASE receiver # "home"
    BY <1>d, <1>u, <2>2 DEF DropReceiver
  <2> QED
    BY <2>1, <2>2
<1>10. CASE StopServer
  <2>1. \/ DropReceiver /\ UNCHANGED <<sent, ran, pending, handed, handling>>
        \/ UNCHANGED requestVars /\ conn' = conn
    BY <1>10 DEF StopServer, Halt
  <2> QED
    BY <1>d, <1>u, <2>1
<1>11. CASE ShutdownAll
  BY <1>11, <1>d DEF ShutdownAll, Halt
<1>12. CASE Signal \/ Leave \/ DriveEnds \/ Waiting
  BY <1>12, <1>u DEF Signal, Leave, DriveEnds, Waiting, CheckIdle, RecheckIdle, IdleWoken
<1>13. CASE UNCHANGED httpVars
  BY <1>13, <1>u DEF httpVars
<1> QED
  BY <1>1, <1>2, <1>3, <1>4, <1>5, <1>6, <1>7, <1>8, <1>9, <1>10, <1>11, <1>12, <1>13
  DEF HttpNext, Answering, Reading
-----------------------------------------------------------------------------
(* The drain: wait_idle is woken, and ends when no connection is left. *)
LEMMA DrainStep ==
    ASSUME HttpTypeOK, SlotInv, DrainInv, [HttpNext]_httpVars PROVE DrainInv'
<1> USE DEF readerVars, acceptVars, requestVars, shutdownVars
<1>t. live \in Nat /\ live = Cardinality(Alive)
  BY DEF SlotInv, SlotsExact
<1>u. ASSUME UNCHANGED <<process, loop, handling, live, woken, conn>> PROVE DrainInv'
  BY <1>u DEF DrainInv, WakesWhenIdle, Alive, Running
<1>r. ASSUME UNCHANGED <<process, live, woken>>, process \notin {"checking", "registered", "waiting", "drained"}
      PROVE  DrainInv'
  BY <1>r DEF DrainInv, WakesWhenIdle
<1>g. CASE Gone /\ UNCHANGED httpVars
  BY <1>g, <1>u DEF httpVars
<1> SUFFICES ASSUME ~Gone \/ UNCHANGED httpVars PROVE DrainInv'
  BY <1>g DEF HttpNext
<1>a. ASSUME ~Gone, UNCHANGED <<process, loop, handling, live, woken>> PROVE DrainInv'
  BY <1>a DEF DrainInv, WakesWhenIdle, Gone
<1>1. CASE ~Gone /\ (Serve \/ ServeFails)
  <2>1. UNCHANGED <<process, live, woken>> /\ loop = "binding"
    BY <1>1 DEF Serve, ServeFails
  <2>2. process \notin {"checking", "registered", "waiting", "drained"}
    BY <2>1 DEF DrainInv
  <2> QED
    BY <1>r, <2>1, <2>2
<1>2. CASE ~Gone /\ (TakePermit \/ AcceptFails)
  BY <1>2, <1>a DEF TakePermit, AcceptFails
<1>3. ASSUME ~Gone, NEW c \in Conns, Accept(c) PROVE DrainInv'
  <2>1. live' \in {live, live + 1} /\ UNCHANGED <<process, loop, handling, woken>>
    BY <1>3 DEF Accept
  <2>2. live' = 0 => live = 0
    BY <1>t, <2>1
  <2> QED
    BY <1>3, <2>1, <2>2 DEF DrainInv, WakesWhenIdle, Gone
<1>4. ASSUME ~Gone, NEW c \in Conns, Request(c) \/ Send(c) \/ Watch(c) PROVE DrainInv'
  BY <1>4, <1>a DEF Request, Send, Watch
<1>5. ASSUME ~Gone, NEW c \in Conns, Respond(c) PROVE DrainInv'
  <2>1. UNCHANGED <<process, live, woken>> /\ c \in handling
    BY <1>5 DEF Respond
  <2>2. process \notin {"checking", "registered", "waiting", "drained"}
    BY <2>1 DEF DrainInv
  <2> QED
    BY <1>r, <2>1, <2>2
<1>6. ASSUME ~Gone, NEW c \in Conns, Written(c) \/ Wind(c) \/ Vanish(c) PROVE DrainInv'
  <2>1. /\ UNCHANGED <<process, loop, handling>>
        /\ \/ UNCHANGED <<live, woken>>
           \/ End(c) /\ Running(c)
    BY <1>6 DEF Written, Wind, Vanish, Running
  <2>2. CASE UNCHANGED <<live, woken>>
    BY <1>6, <1>a, <2>1, <2>2
  <2>3. CASE End(c) /\ Running(c)
    <3>1. /\ live' = live - 1
          /\ woken' = (woken \/ (live = 1 /\ process \in {"registered", "waiting"}))
      BY <2>3 DEF End
    <3>2. live # 0
      <4>1. c \in Alive
        BY <2>3 DEF Alive
      <4> QED
        BY <1>t, <4>1, AliveFinite, FS_EmptySet
    <3>3. live' = 0 => live = 1
      BY <1>t, <3>1, <3>2
    <3>4. WakesWhenIdle'
      <4>1. process' = "waiting" /\ live' = 0 => process = "waiting" /\ live = 1
        BY <2>1, <3>3
      <4> QED
        BY <3>1, <4>1 DEF WakesWhenIdle
    <3> QED
      BY <1>6, <2>1, <3>4 DEF DrainInv, Gone
  <2> QED
    BY <2>1, <2>2, <2>3
<1>7. CASE ~Gone /\ Reading
  <2>1. UNCHANGED <<process, live, woken>> /\ loop # "ended"
    BY <1>7 DEF Reading, TakeReceiver, FetchControl, Park, Hear, Receive, Exhausted
  <2>2. process \notin {"checking", "registered", "waiting", "drained"}
    BY <2>1 DEF DrainInv
  <2> QED
    BY <1>r, <2>1, <2>2
<1>8. CASE ~Gone /\ StopServer
  BY <1>8, <1>a DEF StopServer
<1>9. CASE ~Gone /\ (Signal \/ ShutdownAll \/ Leave)
  BY <1>9 DEF Signal, ShutdownAll, Leave, DrainInv, WakesWhenIdle
<1>10. CASE ~Gone /\ DriveEnds
  BY <1>10 DEF DriveEnds, DrainInv, WakesWhenIdle
<1>e. live = 0 /\ conn' = conn => Alive' = {}
  <2>1. live = 0 => Alive = {}
    BY <1>t, AliveFinite, FS_EmptySet
  <2> QED
    BY <2>1 DEF Alive, Running
<1>11. CASE ~Gone /\ CheckIdle
  BY <1>11, <1>e DEF CheckIdle, DrainInv, WakesWhenIdle
<1>12. CASE ~Gone /\ RecheckIdle
  BY <1>12, <1>e DEF RecheckIdle, DrainInv, WakesWhenIdle
<1>13. CASE ~Gone /\ IdleWoken
  BY <1>13 DEF IdleWoken, DrainInv, WakesWhenIdle
<1>14. CASE UNCHANGED httpVars
  BY <1>14, <1>u DEF httpVars
<1> QED
  BY <1>1, <1>2, <1>3, <1>4, <1>5, <1>6, <1>7, <1>8, <1>9, <1>10, <1>11, <1>12, <1>13, <1>14
  DEF HttpNext, Answering, Waiting
-----------------------------------------------------------------------------
(* The server begins with nothing under way. *)
LEMMA HttpInit0 == HttpInit => HttpInv
<1> SUFFICES ASSUME HttpInit PROVE HttpInv
  OBVIOUS
<1>1. Alive = {}
  BY DEF HttpInit, Alive, Running
<1>2. SlotInv
  <2>1. Cardinality(Alive) = 0 /\ Cardinality(Alive \cap SamePeer) = 0
    BY <1>1, FS_EmptySet
  <2>2. Slots \in Nat
    BY HttpAssumption DEF HttpAssumption
  <2> QED
    BY <2>1, <2>2 DEF HttpInit, SlotInv, SlotsExact
<1>3. PlaceTypes
  <2>1. /\ stopped \in BOOLEAN /\ control \in BOOLEAN /\ listens \in BOOLEAN
        /\ notified \in BOOLEAN /\ accepting \in BOOLEAN /\ granted \in BOOLEAN
        /\ draining \in BOOLEAN /\ woken \in BOOLEAN
    BY DEF HttpInit
  <2> QED
    BY <2>1 DEF HttpInit, PlaceTypes, Loops, Processes
<1>4. PeerTypes /\ RequestTypes
  BY HttpAssumption DEF HttpInit, PeerTypes, RequestTypes, Stations, HttpAssumption
<1>5. RequestInv
  BY DEF HttpInit, RequestInv, NothingKept, RefusedNeverRan
<1>6. DrainInv
  BY DEF HttpInit, DrainInv, WakesWhenIdle
<1> QED
  BY <1>2, <1>3, <1>4, <1>5, <1>6, TypesJoin DEF HttpInv

(* Every step keeps the invariant of the server, *)
LEMMA HttpStep == HttpInv /\ [HttpNext]_httpVars => HttpInv'
<1> SUFFICES ASSUME HttpInv, [HttpNext]_httpVars PROVE HttpInv'
  OBVIOUS
<1>1. HttpTypeOK /\ SlotInv /\ RequestInv /\ DrainInv /\ RequestTypes
  BY DEF HttpInv, HttpTypeOK, RequestTypes
<1>2. SlotInv' /\ PlaceTypes' /\ RequestTypes' /\ RequestInv' /\ DrainInv'
  BY <1>1, SlotsStep, PlaceStep, RequestTypeStep, RequestStep, DrainStep
<1>3. PeerTypes'
  <2>1. peerHeld' \in Nat
    BY <1>2 DEF SlotInv
  <2> QED
    BY <1>1, <2>1, PeerStep
<1>4. HttpTypeOK'
  BY <1>2, <1>3, TypesJoin, PTL
<1> QED
  BY <1>1, <1>2, <1>4 DEF HttpInv

(* which therefore always holds. *)
LEMMA HttpAlways == HttpSpec => []HttpInv
<1>1. HttpInv /\ [HttpNext]_httpVars => HttpInv'
  BY HttpStep
<1> QED
  BY <1>1, HttpInit0, PTL DEF HttpSpec

(* The types hold throughout, the limits on permits, on an address and on the channel   *)
(* included, and the receiver is out of the registry exactly within next_requests.      *)
THEOREM HttpTyped == HttpSpec => []HttpTypeOK
<1>1. HttpInv => HttpTypeOK
  BY DEF HttpInv
<1> QED
  BY <1>1, HttpAlways, PTL

(* LiveConnections and PeerLimit count the connections that live, and every permit of      *)
(* the semaphore is free, with the acceptor or with one of them (serve,                  *)
(* serve_connection).                                                                 *)
THEOREM HttpSlots == HttpSpec => []SlotsExact
<1>1. HttpInv => SlotsExact
  BY DEF HttpInv, SlotInv
<1> QED
  BY <1>1, HttpAlways, PTL

(* The tables of the provider hold what belongs to handlers that are to respond (respond).  *)
THEOREM HttpNothingKept == HttpSpec => []NothingKept
<1>1. HttpInv => NothingKept
  BY DEF HttpInv, RequestInv
<1> QED
  BY <1>1, HttpAlways, PTL

(* A request that close refuses, in the channel or on its way to it, never ran.            *)
THEOREM HttpRefused == HttpSpec => []RefusedNeverRan
<1>1. HttpInv => RefusedNeverRan
  BY DEF HttpInv, RequestInv
<1> QED
  BY <1>1, HttpAlways, PTL

(* A drain that ends by itself leaves no connection and no handler (drain, wait_idle).     *)
THEOREM HttpDrained == HttpSpec => []DrainedClean
<1>1. HttpInv => DrainedClean
  BY DEF HttpInv, DrainInv, DrainedClean
<1> QED
  BY <1>1, HttpAlways, PTL

(* wait_idle does not sleep on a count that is zero: it registers before it looks again.   *)
THEOREM HttpWakes == HttpSpec => []WakesWhenIdle
<1>1. HttpInv => WakesWhenIdle
  BY DEF HttpInv, DrainInv
<1> QED
  BY <1>1, HttpAlways, PTL

-----------------------------------------------------------------------------
(* DurableCatalog. *)

Apart(s) == \A i, j \in DOMAIN s : s[i] = s[j] => i = j

(* Every statement is in one place: it waits, is in the batch or in the transaction. *)
QueueInv ==
    /\ waiting \in Seq(Ids) /\ batch \in Seq(Ids) /\ drain \in {"idle", "single", "group"}
    /\ group.ran \subseteq Ids /\ group.fine \subseteq group.ran
    /\ group = [ran |-> group.ran, fine |-> group.fine]
    /\ Items(waiting) \cup Items(batch) \cup group.ran = Asked
    /\ Apart(waiting) /\ Apart(batch)
    /\ Items(waiting) \cap Items(batch) = {}
    /\ Items(waiting) \cap group.ran = {} /\ Items(batch) \cap group.ran = {}
    /\ (drain = "idle" => waiting = <<>> /\ batch = <<>> /\ group.ran = {})
    /\ (drain = "single" => batch # <<>> /\ group.ran = {})

(* An opening that is past the close of the last instance has none, and no opening   *)
(* has a live one: a worker has one statement with the catalog at a time.          *)
Begun == Underway \ {"asking", "ready"}
LifeInv ==
    /\ stand \in [Ids -> Stands] /\ instance \in [Ids -> Lives] /\ rows \subseteq Ids
    /\ \A k \in Ids : /\ stand[k] \in Underway => instance[k] # "live"
                      /\ stand[k] \in Begun => instance[k] = "none"
                      /\ stand[k] = "inserted" => k \in rows
                      /\ instance[k] # "none" => k \in rows

(* Who awaits the close of whom: each that closes is awaited by an opener that swept it  *)
(* or by a shutdown. *)
AwaitInv ==
    /\ sweeps \in [Ids -> SUBSET Ids] /\ sorry \subseteq Ids /\ phase \in [Downs -> Phases]
    /\ evicts \in [Downs -> SUBSET Ids]
    /\ \A j \in Ids : \A k \in sweeps[j] : stand[j] = "sweeping" /\ sweeps[j] = {k}
    /\ \A d \in Downs : \A k \in evicts[d] : phase[d] = "evicting" /\ evicts[d] = {k}
    /\ \A k \in Ids : instance[k] \in Closing =>
          (\E j \in Ids : k \in sweeps[j]) \/ (\E d \in Downs : k \in evicts[d])

(* While one shutdown is under way alone, what is being opened was so when it began, and  *)
(* what is live is still to be closed or was being opened. *)
LoneInv ==
    \A d \in Active :
        /\ flag /\ Active = {d}
        /\ \A k \in Ids : stand[k] \in Underway => k \in early
        /\ phase[d] \in {"evicting", "closed"} =>
              \A k \in Ids : instance[k] = "live" => k \in early \cup evicting[d]
        /\ phase[d] = "closed" => evicting[d] = {}

DownInv ==
    /\ flag \in BOOLEAN /\ overlapped \in BOOLEAN /\ early \subseteq Ids
    /\ evicting \in [Downs -> SUBSET Ids] /\ stale \in [Downs -> SUBSET Ids]
    /\ ~overlapped => LoneInv

(* Without an opening that a shutdown broke into there is one connection, or one     *)
(* being opened. *)
ConnInv ==
    /\ {registry, promise} \subseteq Numbers /\ tried \in Numbers
    /\ db \in [Ids -> Numbers]
    /\ openings \subseteq 1..tried /\ conns \subseteq 1..tried /\ openings \cap conns = {}
    /\ registry \in 0..tried
    /\ stray \subseteq 1..MaxConns
    /\ stray = {} /\ ~overlapped =>
          /\ conns \subseteq {registry} /\ openings \subseteq {promise}
          /\ openings # {} => registry = 0 /\ Active = {}
          /\ \A d \in Downs : phase[d] = "closed" => conns = {}

CountInv == opens \in 0..MaxOpens /\ busy \in 0..MaxBusy

CatalogInv == QueueInv /\ LifeInv /\ AwaitInv /\ DownInv /\ ConnInv /\ CountInv
-----------------------------------------------------------------------------
(* Items of the sequences the drain builds. *)
LEMMA ItemsOfNone == Items(<<>>) = {} /\ Apart(<<>>)
  BY DEF Items, Apart

(* What a queue of one holds, *)
LEMMA ItemsOfOne == ASSUME NEW k PROVE Items(<<k>>) = {k} /\ Apart(<<k>>)
  BY DEF Items, Apart

(* a queue with one more, *)
LEMMA ItemsOfAppend ==
    ASSUME NEW s \in Seq(Ids), NEW k \in Ids, Apart(s), k \notin Items(s)
    PROVE  /\ Append(s, k) \in Seq(Ids)
           /\ Items(Append(s, k)) = Items(s) \cup {k} /\ Apart(Append(s, k))
<1>1. /\ Append(s, k) \in Seq(Ids) /\ DOMAIN Append(s, k) = DOMAIN s \cup {Len(s) + 1}
      /\ \A i \in DOMAIN s : Append(s, k)[i] = s[i] /\ i # Len(s) + 1
      /\ Append(s, k)[Len(s) + 1] = k
  OBVIOUS
<1>2. Items(Append(s, k)) = Items(s) \cup {k}
  BY <1>1 DEF Items
<1>3. Apart(Append(s, k))
  BY <1>1 DEF Apart, Items
<1> QED
  BY <1>1, <1>2, <1>3

(* and one without its head. *)
LEMMA ItemsOfTail ==
    ASSUME NEW s \in Seq(Ids), s # <<>>, Apart(s)
    PROVE  /\ Head(s) \in Ids /\ Head(s) \in Items(s)
           /\ Tail(s) \in Seq(Ids)
           /\ Items(Tail(s)) = Items(s) \ {Head(s)} /\ Apart(Tail(s))
<1>1. /\ Head(s) = s[1] /\ 1 \in DOMAIN s /\ s[1] \in Ids /\ Tail(s) \in Seq(Ids)
  OBVIOUS
<1>2. /\ \A i \in DOMAIN Tail(s) : i + 1 \in DOMAIN s /\ i + 1 # 1 /\ Tail(s)[i] = s[i + 1]
  OBVIOUS
<1>3. \A j \in DOMAIN s : j # 1 => j - 1 \in DOMAIN Tail(s) /\ Tail(s)[j - 1] = s[j]
  OBVIOUS
<1>4. Items(Tail(s)) = Items(s) \ {Head(s)}
  <2>1. ASSUME NEW x \in Items(Tail(s)) PROVE x \in Items(s) \ {Head(s)}
    BY <1>1, <1>2 DEF Items, Apart
  <2>2. ASSUME NEW x \in Items(s) \ {Head(s)} PROVE x \in Items(Tail(s))
    <3>1. PICK j \in DOMAIN s : x = s[j]
      BY DEF Items
    <3>2. j # 1
      BY <1>1, <3>1
    <3>3. j - 1 \in DOMAIN Tail(s) /\ Tail(s)[j - 1] = x
      BY <1>3, <3>1, <3>2
    <3> QED
      BY <3>3 DEF Items
  <2> QED
    BY <2>1, <2>2
<1>5. Apart(Tail(s))
  <2> SUFFICES ASSUME NEW i \in DOMAIN Tail(s), NEW j \in DOMAIN Tail(s), Tail(s)[i] = Tail(s)[j]
               PROVE  i = j
    BY DEF Apart
  <2>1. i + 1 = j + 1
    BY <1>2 DEF Apart
  <2>2. i \in Nat /\ j \in Nat
    BY <1>1
  <2> QED
    BY <2>1, <2>2
<1> QED
  BY <1>1, <1>4, <1>5 DEF Items

-----------------------------------------------------------------------------
(* onCatalog puts the statement of k in one place. *)
LEMMA EnqueueKeeps ==
    ASSUME QueueInv, NEW k \in Ids, k \notin Asked, OnCatalog(k), group' = group,
           Asked' = Asked \cup {k}
    PROVE  QueueInv'
<1>1. CASE drain = "idle"
  <2>1. batch' = <<k>> /\ drain' = "single" /\ waiting' = <<>> /\ group.ran = {} /\ waiting = <<>>
        /\ batch = <<>>
    BY <1>1 DEF OnCatalog, QueueInv
  <2>2. Items(batch') = {k} /\ Apart(batch') /\ Items(waiting') = {} /\ Apart(waiting')
        /\ Items(batch) = {} /\ Items(waiting) = {}
    BY <2>1, ItemsOfOne, ItemsOfNone
  <2>3. Asked' = {k}
    BY <2>1, <2>2 DEF QueueInv
  <2>4. batch' \in Seq(Ids) /\ batch' # <<>> /\ waiting' \in Seq(Ids)
    BY <2>1
  <2> QED
    BY <2>1, <2>2, <2>3, <2>4 DEF QueueInv
<1>2. CASE drain # "idle"
  <2>1. waiting' = Append(waiting, k) /\ UNCHANGED <<batch, drain>>
    BY <1>2 DEF OnCatalog
  <2>2. k \notin Items(waiting) /\ k \notin Items(batch) /\ k \notin group.ran
    BY DEF QueueInv
  <2>3. waiting' \in Seq(Ids) /\ Items(waiting') = Items(waiting) \cup {k} /\ Apart(waiting')
    BY <2>1, <2>2, ItemsOfAppend DEF QueueInv
  <2>4. Items(batch') = Items(batch) /\ Apart(batch')
    BY <2>1 DEF QueueInv
  <2> QED
    BY <1>2, <2>1, <2>2, <2>3, <2>4 DEF QueueInv
<1> QED
  BY <1>1, <1>2

(* The drain takes what waits when nothing is left of its batch and its group. *)
LEMMA BatchTaken ==
    ASSUME QueueInv, TakeBatch, group'.ran = {}, group' = NoGroup,
           Asked' = Items(waiting)
    PROVE  QueueInv'
<1>1. batch' = waiting /\ waiting' = <<>> /\ waiting' \in Seq(Ids)
      /\ drain' \in {"idle", "single", "group"}
      /\ (drain' = "idle" <=> waiting = <<>>)
  BY DEF TakeBatch
<1>2. Items(waiting') = {} /\ Apart(waiting') /\ Items(batch') = Items(waiting) /\ Apart(batch')
  BY <1>1, ItemsOfNone DEF QueueInv
<1>3. group'.fine = {} /\ group' = [ran |-> group'.ran, fine |-> group'.fine]
  BY DEF NoGroup
<1> QED
  BY <1>1, <1>2, <1>3 DEF QueueInv
-----------------------------------------------------------------------------
(* What a worker that asked is told: an opener or the close of an instance goes on. *)
Hears(k, reply) ==
    \/ /\ stand[k] = "inserting" /\ instance'[k] = instance[k]
       /\ stand'[k] \in {"inserted", "retrying", "out"}
       /\ stand'[k] = "inserted" => reply = "ok"
    \/ /\ instance[k] = "touching" /\ stand'[k] = stand[k] /\ instance'[k] \in {"again", "closed"}

(* Those that are told go on, nobody else does. *)
LEMMA TellTells ==
    ASSUME LifeInv, NEW answers, Tell(answers), DOMAIN answers \subseteq Asked
    PROVE  /\ stand' \in [Ids -> Stands] /\ instance' \in [Ids -> Lives]
           /\ \A k \in Ids \ DOMAIN answers : stand'[k] = stand[k] /\ instance'[k] = instance[k]
           /\ \A k \in DOMAIN answers : k \in Ids /\ Hears(k, answers[k])
           /\ Asked' = Asked \ DOMAIN answers
<1>1. stand' = [k \in Ids |->
         IF k \notin DOMAIN answers \/ stand[k] # "inserting" THEN stand[k]
         ELSE CASE answers[k] = "ok" -> "inserted" [] answers[k] = "busy" -> "retrying"
                [] OTHER -> "out"]
  BY DEF Tell
<1>2. instance' = [k \in Ids |->
         IF k \notin DOMAIN answers \/ instance[k] # "touching" THEN instance[k]
         ELSE IF answers[k] = "busy" THEN "again" ELSE "closed"]
  BY DEF Tell
<1>3. \A k \in Ids : stand[k] \in Stands /\ instance[k] \in Lives
  BY DEF LifeInv
<1>4. \A k \in Ids \ DOMAIN answers : stand'[k] = stand[k] /\ instance'[k] = instance[k]
  BY <1>1, <1>2
<1>5. ASSUME NEW k \in DOMAIN answers
      PROVE  k \in Ids /\ Hears(k, answers[k]) /\ stand'[k] # "inserting" /\ instance'[k] # "touching"
  <2>1. k \in Ids /\ (stand[k] = "inserting" \/ instance[k] = "touching")
    BY <1>5 DEF Asked, Are, Being
  <2>2. stand[k] = "inserting" => instance[k] # "touching"
    BY <2>1 DEF LifeInv, Begun, Underway
  <2>3. CASE stand[k] = "inserting"
    <3>1. stand'[k] = CASE answers[k] = "ok" -> "inserted" [] answers[k] = "busy" -> "retrying"
                        [] OTHER -> "out"
      BY <1>1, <2>1, <2>3
    <3>2. instance'[k] = instance[k]
      BY <1>2, <2>1, <2>2, <2>3
    <3> QED
      BY <2>1, <2>2, <2>3, <3>1, <3>2 DEF Hears
  <2>4. CASE stand[k] # "inserting"
    <3>1. stand'[k] = stand[k] /\ instance'[k] = IF answers[k] = "busy" THEN "again" ELSE "closed"
      BY <1>1, <1>2, <2>1, <2>4
    <3> QED
      BY <2>1, <2>4, <3>1 DEF Hears
  <2> QED
    BY <2>3, <2>4
<1>6. stand' \in [Ids -> Stands]
  <2>1. \A k \in Ids : stand'[k] \in Stands
    <3> TAKE k \in Ids
    <3>1. CASE k \in DOMAIN answers
      BY <1>3, <1>5, <3>1 DEF Hears, Stands, Underway
    <3>2. CASE k \notin DOMAIN answers
      BY <1>3, <1>4, <3>2
    <3> QED
      BY <3>1, <3>2
  <2> QED
    BY <1>1, <2>1
<1>7. instance' \in [Ids -> Lives]
  <2>1. \A k \in Ids : instance'[k] \in Lives
    <3> TAKE k \in Ids
    <3>1. CASE k \in DOMAIN answers
      BY <1>3, <1>5, <3>1 DEF Hears, Lives, Closing
    <3>2. CASE k \notin DOMAIN answers
      BY <1>3, <1>4, <3>2
    <3> QED
      BY <3>1, <3>2
  <2> QED
    BY <1>2, <2>1
<1>8. Asked' = Asked \ DOMAIN answers
  BY <1>4, <1>5 DEF Asked, Are, Being
<1> QED
  BY <1>4, <1>5, <1>6, <1>7, <1>8
-----------------------------------------------------------------------------
(* What a step may do to one worker: nothing, an opening begins or fails, it goes on, the  *)
(* worker goes live, or its instance is closed.                                       *)
Moves(k) ==
    \/ stand'[k] = stand[k] /\ instance'[k] = instance[k]
    \/ /\ ~flag /\ stand[k] = "out" /\ instance[k] # "live" /\ stand'[k] \in {"asking", "ready"}
       /\ instance'[k] = instance[k]
    \/ stand'[k] = "out" /\ instance'[k] = instance[k]
    \/ stand[k] = "asking" /\ stand'[k] = "ready" /\ instance'[k] = instance[k]
    \/ /\ stand[k] \in Underway /\ stand'[k] \in Begun /\ instance[k] = "none" /\ instance'[k] = "none"
       /\ stand'[k] = "inserted" => k \in rows'
    \/ stand[k] = "inserted" /\ stand'[k] = "out" /\ instance'[k] = "live"
    \/ /\ stand'[k] \in {stand[k], "out"} /\ instance[k] \in Closing \cup {"live"}
       /\ instance'[k] \in Closing \cup {"none"}

(* A worker that was told. *)
LEMMA HearsMoves ==
    ASSUME LifeInv, NEW k \in Ids, NEW reply, Hears(k, reply),
           reply = "ok" /\ stand[k] = "inserting" => k \in rows'
    PROVE  Moves(k)
<1>1. stand[k] \in Begun => instance[k] = "none"
  BY DEF LifeInv
<1>2. CASE stand[k] = "inserting"
  BY <1>1, <1>2 DEF Hears, Moves, Begun, Underway
<1>3. CASE stand[k] # "inserting"
  BY <1>3 DEF Hears, Moves, Closing
<1> QED
  BY <1>2, <1>3

(* The next state of one worker and all the others as they were. *)
LEMMA OneMoves ==
    ASSUME NEW k \in Ids, NEW s \in Stands, stand \in [Ids -> Stands], stand' = [stand EXCEPT ![k] = s]
    PROVE  stand' \in [Ids -> Stands] /\ stand'[k] = s /\ \A j \in Ids \ {k} : stand'[j] = stand[j]
  OBVIOUS

(* The same for its instance. *)
LEMMA OneLives ==
    ASSUME NEW k \in Ids, NEW s \in Lives, instance \in [Ids -> Lives],
           instance' = [instance EXCEPT ![k] = s]
    PROVE  instance' \in [Ids -> Lives] /\ instance'[k] = s
           /\ \A j \in Ids \ {k} : instance'[j] = instance[j]
  OBVIOUS

(* Every step is one of these for each worker, and rows are only added. *)
LEMMA StepMoves ==
    ASSUME QueueInv, LifeInv, CatalogNext
    PROVE  /\ stand' \in [Ids -> Stands] /\ instance' \in [Ids -> Lives]
           /\ rows \subseteq rows' /\ rows' \subseteq Ids
           /\ \A k \in Ids : Moves(k)
<1> USE DEF standVars, heldVars, connVars, drainVars, downVars
<1> DEFINE Fine == /\ stand' \in [Ids -> Stands] /\ instance' \in [Ids -> Lives]
                   /\ rows \subseteq rows' /\ rows' \subseteq Ids
                   /\ \A k \in Ids : Moves(k)
<1>t. stand \in [Ids -> Stands] /\ instance \in [Ids -> Lives] /\ rows \subseteq Ids
  BY DEF LifeInv
<1>s. /\ \A s \in {"out", "asking", "ready", "sweeping", "preparing", "inserting", "retrying",
                   "inserted"} : s \in Stands
      /\ \A s \in {"closing", "touching", "again", "closed", "none", "live"} : s \in Lives
  BY DEF Stands, Underway, Lives, Closing
<1>u. ASSUME UNCHANGED <<stand, instance, rows>> PROVE Fine
  BY <1>u, <1>t DEF Moves
<1>o. ASSUME NEW k \in Ids, NEW s \in Stands, stand' = [stand EXCEPT ![k] = s],
             UNCHANGED <<instance, rows>>, stand'[k] = s => Moves(k)
      PROVE  Fine
  BY <1>o, <1>t, OneMoves DEF Moves
<1>l. ASSUME NEW k \in Ids, NEW s \in Lives, instance' = [instance EXCEPT ![k] = s],
             UNCHANGED <<stand, rows>>, instance'[k] = s => Moves(k)
      PROVE  Fine
  BY <1>l, <1>t, OneLives DEF Moves
<1>1. ASSUME NEW k \in Ids, BeginOpening(k) PROVE Fine
  <2>1. /\ ~flag /\ stand[k] = "out" /\ instance[k] # "live" /\ UNCHANGED <<instance, rows>>
        /\ stand' = [stand EXCEPT ![k] = "ready"] \/ stand' = [stand EXCEPT ![k] = "asking"]
    BY <1>1 DEF BeginOpening, Goes
  <2>2. CASE stand' = [stand EXCEPT ![k] = "ready"]
    BY <1>o, <1>s, <2>1, <2>2 DEF Moves
  <2>3. CASE stand' = [stand EXCEPT ![k] = "asking"]
    BY <1>o, <1>s, <2>1, <2>3 DEF Moves
  <2> QED
    BY <2>1, <2>2, <2>3
<1>2. ASSUME NEW n \in 1..MaxConns, Connecting(n) PROVE Fine
  <2>1. PICK s \in {"ready", "out"} :
          stand' = [k \in Ids |-> IF stand[k] = "asking" /\ db[k] = n THEN s ELSE stand[k]]
    BY <1>2 DEF Connecting, RegistryOpens, RegistryFails
  <2>2. UNCHANGED <<instance, rows>>
    BY <1>2 DEF Connecting, RegistryOpens, RegistryFails
  <2>3. s \in Stands /\ \A k \in Ids : stand'[k] = IF stand[k] = "asking" /\ db[k] = n THEN s ELSE stand[k]
    BY <1>s, <2>1
  <2>4. stand' \in [Ids -> Stands]
    BY <1>t, <2>1, <2>3
  <2>5. ASSUME NEW k \in Ids PROVE Moves(k)
    BY <2>1, <2>2, <2>3 DEF Moves
  <2> QED
    BY <1>t, <2>2, <2>4, <2>5
<1>3. ASSUME NEW k \in Ids, Prepare(k) PROVE Fine
  <2>1. /\ UNCHANGED <<instance, rows>> /\ instance[k] = "none" /\ stand[k] \in Underway
        /\ stand' = [stand EXCEPT ![k] = "out"] \/ stand' = [stand EXCEPT ![k] = "preparing"]
    BY <1>3, <1>t DEF Prepare, Goes, LifeInv, Begun, Underway, Lives
  <2>2. CASE stand' = [stand EXCEPT ![k] = "out"]
    BY <1>o, <1>s, <2>1, <2>2 DEF Moves
  <2>3. CASE stand' = [stand EXCEPT ![k] = "preparing"]
    BY <1>o, <1>s, <2>1, <2>3 DEF Moves, Begun, Underway
  <2> QED
    BY <2>1, <2>2, <2>3
<1>4. ASSUME NEW k \in Ids, PrepareFails(k) PROVE Fine
  BY <1>4, <1>o, <1>s DEF PrepareFails, Goes, Moves
<1>5. ASSUME NEW k \in Ids, Submit(k) PROVE Fine
  <2>1. instance[k] = "none" /\ stand[k] \in Underway /\ stand' = [stand EXCEPT ![k] = "inserting"]
        /\ UNCHANGED <<instance, rows>>
    BY <1>5 DEF Submit, Goes, LifeInv, Begun, Underway
  <2> QED
    BY <1>o, <1>s, <2>1 DEF Moves, Begun, Underway
<1>6. ASSUME NEW k \in Ids, GoLive(k) PROVE Fine
  <2>1. /\ stand[k] = "inserted" /\ stand' = [stand EXCEPT ![k] = "out"] /\ UNCHANGED rows
        /\ instance' = [instance EXCEPT ![k] = "live"]
    BY <1>6 DEF GoLive, Goes
  <2> QED
    BY <1>s, <1>t, <2>1, OneMoves, OneLives DEF Moves
<1>7. ASSUME NEW k \in Ids, NEW j \in Ids, SweepIdle(k, j) PROVE Fine
  <2>1. /\ stand[k] = "ready" /\ instance[k] \notin Closing /\ instance[j] = "live"
        /\ stand' = [stand EXCEPT ![k] = "sweeping"] /\ UNCHANGED rows
        /\ instance' = [instance EXCEPT ![j] = "closing"]
    BY <1>7 DEF SweepIdle, Goes
  <2>2. instance[k] = "none" /\ j # k
    BY <1>t, <2>1 DEF LifeInv, Underway, Lives
  <2>3. Moves(k)
    BY <1>s, <1>t, <2>1, <2>2, OneMoves, OneLives DEF Moves, Begun, Underway
  <2>4. Moves(j)
    BY <1>s, <1>t, <2>1, <2>2, OneMoves, OneLives DEF Moves, Closing
  <2> QED
    BY <1>s, <1>t, <2>1, <2>3, <2>4, OneMoves, OneLives DEF Moves
<1>8. ASSUME NEW k \in Ids, TouchRow(k) \/ TouchAgain(k) PROVE Fine
  <2>1. /\ instance[k] \in {"closing", "again"} /\ UNCHANGED <<stand, rows>>
        /\ instance' = [instance EXCEPT ![k] = "closed"] \/ instance' = [instance EXCEPT ![k] = "touching"]
    BY <1>8 DEF TouchRow, TouchAgain
  <2>2. CASE instance' = [instance EXCEPT ![k] = "closed"]
    BY <1>l, <1>s, <2>1, <2>2 DEF Moves, Closing
  <2>3. CASE instance' = [instance EXCEPT ![k] = "touching"]
    BY <1>l, <1>s, <2>1, <2>3 DEF Moves, Closing
  <2> QED
    BY <2>1, <2>2, <2>3
<1>9. ASSUME NEW k \in Ids, EvictEnds(k) PROVE Fine
  <2>1. /\ instance[k] = "closed" /\ instance' = [instance EXCEPT ![k] = "none"] /\ UNCHANGED rows
        /\ stand' = [j \in Ids |-> IF k \in sweeps[j] \cap sorry THEN "out" ELSE stand[j]]
    BY <1>9 DEF EvictEnds
  <2>2. stand' \in [Ids -> Stands] /\ \A j \in Ids : stand'[j] \in {stand[j], "out"}
    BY <1>s, <1>t, <2>1
  <2> QED
    BY <1>s, <1>t, <2>1, <2>2, OneLives DEF Moves, Closing
<1>10. ASSUME NEW reply \in Replies, RunSingle(reply) PROVE Fine
  <2> DEFINE h == Head(batch)
  <2>1. h \in Asked /\ h \in Ids
    BY <1>10, ItemsOfTail DEF RunSingle, QueueInv
  <2>2. Tell([k \in {h} |-> reply]) /\ rows' = rows \cup Inserted(h, reply)
    BY <1>10 DEF RunSingle
  <2> HIDE DEF h
  <2>3. /\ stand' \in [Ids -> Stands] /\ instance' \in [Ids -> Lives]
        /\ \A k \in Ids \ {h} : stand'[k] = stand[k] /\ instance'[k] = instance[k]
        /\ Hears(h, reply)
    BY <2>1, <2>2, TellTells
  <2>4. rows \subseteq rows' /\ rows' \subseteq Ids
        /\ (reply = "ok" /\ stand[h] = "inserting" => h \in rows')
    BY <1>t, <2>1, <2>2 DEF Inserted
  <2>5. Moves(h)
    BY <2>1, <2>3, <2>4, HearsMoves
  <2> QED
    BY <2>3, <2>4, <2>5 DEF Moves
<1>11. ASSUME NEW reply \in Replies, RunGrouped(reply) PROVE Fine
  BY <1>11, <1>u DEF RunGrouped
<1>r. group.ran \subseteq Asked /\ group.ran \subseteq Ids /\ group.fine \subseteq group.ran
  BY DEF QueueInv
<1>12. CASE GroupCommits
  <2> DEFINE answers == [k \in group.ran |-> IF k \in group.fine THEN "ok" ELSE "error"]
  <2>1. /\ Tell(answers) /\ rows' = rows \cup {k \in group.fine : stand[k] = "inserting"}
    BY <1>12 DEF GroupCommits
  <2>2. DOMAIN answers = group.ran /\ \A k \in group.ran : answers[k] = "ok" => k \in group.fine
    OBVIOUS
  <2> HIDE DEF answers
  <2>3. /\ stand' \in [Ids -> Stands] /\ instance' \in [Ids -> Lives]
        /\ \A k \in Ids \ group.ran : stand'[k] = stand[k] /\ instance'[k] = instance[k]
        /\ \A k \in group.ran : Hears(k, answers[k])
    BY <1>r, <2>1, <2>2, TellTells
  <2>4. ASSUME NEW k \in group.ran PROVE Moves(k)
    BY <1>r, <2>1, <2>2, <2>3, HearsMoves
  <2> QED
    BY <1>r, <1>t, <2>1, <2>3, <2>4 DEF Moves
<1>13. ASSUME NEW reply \in Replies, CommitFails(reply) PROVE Fine
  <2> DEFINE answers == [k \in group.ran |-> reply]
  <2>1. Tell(answers) /\ rows' = rows /\ reply # "ok"
    BY <1>13 DEF CommitFails
  <2>2. DOMAIN answers = group.ran /\ \A k \in group.ran : answers[k] = reply
    OBVIOUS
  <2> HIDE DEF answers
  <2>3. /\ stand' \in [Ids -> Stands] /\ instance' \in [Ids -> Lives]
        /\ \A k \in Ids \ group.ran : stand'[k] = stand[k] /\ instance'[k] = instance[k]
        /\ \A k \in group.ran : Hears(k, answers[k])
    BY <1>r, <2>1, <2>2, TellTells
  <2>4. ASSUME NEW k \in group.ran PROVE Moves(k)
    BY <1>r, <2>1, <2>2, <2>3, HearsMoves
  <2> QED
    BY <1>r, <1>t, <2>1, <2>3, <2>4 DEF Moves
<1>14. ASSUME NEW d \in Downs, Shutdown(d) \/ TakeLive(d) \/ CloseRegistry(d) \/ Cleanup(d) PROVE Fine
  BY <1>14, <1>u DEF Shutdown, TakeLive, CloseRegistry, Cleanup
<1>15. ASSUME NEW d \in Downs, NEW k \in Ids, EvictNext(d, k) PROVE Fine
  <2>1. UNCHANGED <<stand, rows>>
    BY <1>15 DEF EvictNext
  <2>2. CASE instance[k] # "live"
    <3>1. instance' = instance
      BY <1>15, <2>2 DEF EvictNext
    <3> QED
      BY <1>u, <2>1, <3>1
  <2>3. CASE instance[k] = "live"
    <3>1. instance' = [instance EXCEPT ![k] = IF k \in stale[d] THEN "none" ELSE "closing"]
      BY <1>15, <2>3 DEF EvictNext
    <3>2. CASE k \in stale[d]
      BY <1>l, <1>s, <2>1, <2>3, <3>1, <3>2 DEF Moves
    <3>3. CASE k \notin stale[d]
      BY <1>l, <1>s, <2>1, <2>3, <3>1, <3>3 DEF Moves, Closing
    <3> QED
      BY <3>2, <3>3
  <2> QED
    BY <2>2, <2>3
<1>16. CASE UNCHANGED catalogVars
  BY <1>16, <1>u DEF catalogVars
<1> QED
  BY <1>1, <1>2, <1>3, <1>4, <1>5, <1>6, <1>7, <1>8, <1>9, <1>10, <1>11, <1>12, <1>13, <1>14,
     <1>15, <1>16 DEF CatalogNext, Ongoing, Draining, Loading, Leaving, Stopping
-----------------------------------------------------------------------------
(* No worker has both a statement as an opener and one as a closing instance. *)
LEMMA LifeStep ==
    ASSUME QueueInv, LifeInv, CatalogNext
    PROVE  LifeInv'
<1>1. /\ stand' \in [Ids -> Stands] /\ instance' \in [Ids -> Lives]
      /\ rows \subseteq rows' /\ rows' \subseteq Ids
      /\ \A k \in Ids : Moves(k)
  BY StepMoves
<1>2. ASSUME NEW k \in Ids
      PROVE  /\ stand'[k] \in Underway => instance'[k] # "live"
             /\ stand'[k] \in Begun => instance'[k] = "none"
             /\ stand'[k] = "inserted" => k \in rows'
             /\ instance'[k] # "none" => k \in rows'
  <2>1. /\ stand[k] \in Underway => instance[k] # "live"
        /\ stand[k] \in Begun => instance[k] = "none"
        /\ stand[k] = "inserted" => k \in rows'
        /\ instance[k] # "none" => k \in rows'
    BY <1>1 DEF LifeInv
  <2>2. Moves(k)
    BY <1>1
  <2> QED
    BY <2>1, <2>2 DEF Moves, Begun, Underway, Closing
<1> QED
  BY <1>1, <1>2 DEF LifeInv

(* While the flag is up nothing begins to be opened, and only what was being opened goes *)
(* live.  *)
LEMMA StepEases ==
    ASSUME QueueInv, LifeInv, CatalogNext
    PROVE  \A k \in Ids : /\ stand'[k] \in Underway => stand[k] \in Underway \/ ~flag
                          /\ instance'[k] = "live" => instance[k] = "live" \/ stand[k] \in Underway
<1> TAKE k \in Ids
<1>1. Moves(k)
  BY StepMoves
<1> QED
  BY <1>1 DEF Moves, Begun, Underway, Closing
-----------------------------------------------------------------------------
(* Every step keeps the queue of statements. *)
LEMMA QueueStep ==
    ASSUME QueueInv, LifeInv, AwaitInv, CatalogNext
    PROVE  QueueInv'
<1> USE DEF standVars, heldVars, connVars, drainVars, downVars
<1>t. stand \in [Ids -> Stands] /\ instance \in [Ids -> Lives]
  BY DEF LifeInv
<1>u. ASSUME UNCHANGED <<waiting, batch, drain, group>>, Asked' = Asked PROVE QueueInv'
  BY <1>u DEF QueueInv, Items, Apart
<1>v. ASSUME UNCHANGED <<waiting, batch, drain, group>>,
             \A k \in Ids : /\ stand'[k] = "inserting" <=> stand[k] = "inserting"
                            /\ instance'[k] = "touching" <=> instance[k] = "touching"
      PROVE  QueueInv'
  <2>1. Asked' = Asked
    BY <1>v DEF Asked, Are, Being
  <2> QED
    BY <1>u, <1>v, <2>1
<1>h. batch # <<>> => /\ Head(batch) \in Ids /\ Head(batch) \in Items(batch) /\ Head(batch) \in Asked
                      /\ Tail(batch) \in Seq(Ids)
                      /\ Items(Tail(batch)) = Items(batch) \ {Head(batch)} /\ Apart(Tail(batch))
  BY ItemsOfTail DEF QueueInv
<1>1. ASSUME NEW k \in Ids, BeginOpening(k) PROVE QueueInv'
  BY <1>1, <1>t, <1>v DEF BeginOpening, Goes
<1>2. ASSUME NEW n \in 1..MaxConns, Connecting(n) PROVE QueueInv'
  BY <1>2, <1>t, <1>v DEF Connecting, RegistryOpens, RegistryFails
<1>3. ASSUME NEW k \in Ids, Prepare(k) \/ PrepareFails(k) \/ GoLive(k) PROVE QueueInv'
  <2>1. CASE Prepare(k) \/ PrepareFails(k)
    BY <2>1, <1>t, <1>v DEF Prepare, PrepareFails, Goes
  <2>2. CASE GoLive(k)
    <3>1. stand[k] = "inserted" /\ instance[k] = "none"
      BY <2>2 DEF GoLive, LifeInv, Begun, Underway
    <3> QED
      BY <2>2, <3>1, <1>t, <1>v DEF GoLive, Goes
  <2> QED
    BY <1>3, <2>1, <2>2
<1>4. ASSUME NEW k \in Ids, NEW j \in Ids, SweepIdle(k, j) PROVE QueueInv'
  BY <1>4, <1>t, <1>v DEF SweepIdle, Goes
<1>5. ASSUME NEW k \in Ids, Submit(k) PROVE QueueInv'
  <2>1. /\ stand[k] \in {"preparing", "retrying"} /\ stand' = [stand EXCEPT ![k] = "inserting"]
        /\ instance' = instance /\ instance[k] = "none"
    BY <1>5 DEF Submit, Goes, LifeInv, Begun, Underway
  <2>2. k \notin Asked /\ Asked' = Asked \cup {k}
    BY <1>t, <2>1 DEF Asked, Are, Being
  <2>3. OnCatalog(k) /\ group' = group
    BY <1>5 DEF Submit
  <2> QED
    BY <2>2, <2>3, EnqueueKeeps
<1>c. ASSUME NEW k \in Ids, instance[k] \in {"closing", "again"}, stand' = stand,
             instance' = [instance EXCEPT ![k] = "touching"], OnCatalog(k), group' = group
      PROVE  QueueInv'
  <2>1. stand[k] # "inserting"
    BY <1>c DEF LifeInv, Begun, Underway
  <2>2. k \notin Asked /\ Asked' = Asked \cup {k}
    BY <1>c, <1>t, <2>1 DEF Asked, Are, Being
  <2> QED
    BY <1>c, <2>2, EnqueueKeeps
<1>6. ASSUME NEW k \in Ids, TouchRow(k) PROVE QueueInv'
  <2>1. CASE registry = 0
    BY <1>6, <1>t, <1>v, <2>1 DEF TouchRow
  <2>2. CASE registry # 0
    BY <1>6, <1>c, <2>2 DEF TouchRow
  <2> QED
    BY <2>1, <2>2
<1>7. ASSUME NEW k \in Ids, TouchAgain(k) PROVE QueueInv'
  BY <1>7, <1>c DEF TouchAgain
<1>8. ASSUME NEW k \in Ids, EvictEnds(k) PROVE QueueInv'
  <2>1. \A j \in Ids : k \in sweeps[j] => stand[j] = "sweeping"
    BY DEF AwaitInv
  <2> QED
    BY <1>8, <1>t, <1>v, <2>1 DEF EvictEnds
<1>9. ASSUME NEW reply \in Replies, RunSingle(reply) PROVE QueueInv'
  <2>1. /\ drain = "single" /\ batch # <<>> /\ group.ran = {} /\ group' = group
        /\ Tell([k \in {Head(batch)} |-> reply])
    BY <1>9 DEF RunSingle, QueueInv
  <2>2. Asked' = Asked \ {Head(batch)}
    BY <1>h, <2>1, TellTells
  <2>3. CASE Len(batch) > 1
    <3>1. batch' = Tail(batch) /\ UNCHANGED <<waiting, drain>> /\ batch' # <<>>
      BY <1>9, <2>3 DEF RunSingle, QueueInv
    <3>2. Items(batch') = Items(batch) \ {Head(batch)} /\ Apart(batch') /\ batch' \in Seq(Ids)
      BY <1>h, <2>1, <3>1
    <3>3. Items(waiting') = Items(waiting) /\ Apart(waiting')
      BY <3>1 DEF QueueInv
    <3>4. Items(waiting) \cup Items(batch') \cup group.ran = Asked'
      BY <1>h, <2>1, <2>2, <3>2 DEF QueueInv
    <3> QED
      BY <2>1, <3>1, <3>2, <3>3, <3>4 DEF QueueInv
  <2>4. CASE ~(Len(batch) > 1)
    <3>1. TakeBatch
      BY <1>9, <2>4 DEF RunSingle
    <3>2. Tail(batch) = <<>>
      BY <2>1, <2>4 DEF QueueInv
    <3>3. Items(batch) = {Head(batch)}
      BY <1>h, <2>1, <3>2, ItemsOfNone
    <3>4. Asked' = Items(waiting)
      BY <2>1, <2>2, <3>3 DEF QueueInv
    <3>5. group' = NoGroup /\ group'.ran = {}
      BY <2>1 DEF QueueInv, NoGroup
    <3> QED
      BY <3>1, <3>4, <3>5, BatchTaken
  <2> QED
    BY <2>3, <2>4
<1>10. ASSUME NEW reply \in Replies, RunGrouped(reply) PROVE QueueInv'
  <2>1. /\ drain = "group" /\ batch # <<>> /\ batch' = Tail(batch)
        /\ UNCHANGED <<waiting, drain, stand, instance>>
        /\ group' = [ran |-> group.ran \cup {Head(batch)},
                     fine |-> IF reply = "ok" THEN group.fine \cup {Head(batch)} ELSE group.fine]
    BY <1>10 DEF RunGrouped
  <2>2. /\ group'.ran = group.ran \cup {Head(batch)}
        /\ group'.fine \subseteq group'.ran
        /\ group' = [ran |-> group'.ran, fine |-> group'.fine]
    BY <2>1 DEF QueueInv
  <2>3. Items(batch') = Items(batch) \ {Head(batch)} /\ Apart(batch') /\ batch' \in Seq(Ids)
        /\ Head(batch) \in Ids /\ Head(batch) \in Items(batch)
    BY <1>h, <2>1
  <2>4. Asked' = Asked /\ Items(waiting') = Items(waiting) /\ Apart(waiting')
    BY <2>1 DEF Asked, Are, Being, QueueInv
  <2>5. Items(waiting) \cup Items(batch') \cup group'.ran = Asked
    BY <2>2, <2>3 DEF QueueInv
  <2>6. /\ Items(waiting) \cap Items(batch') = {} /\ Items(waiting) \cap group'.ran = {}
        /\ Items(batch') \cap group'.ran = {} /\ group'.ran \subseteq Ids
    BY <2>2, <2>3 DEF QueueInv
  <2> QED
    BY <2>1, <2>2, <2>3, <2>4, <2>5, <2>6 DEF QueueInv
<1>g. ASSUME GroupDone, NEW answers, Tell(answers), DOMAIN answers = group.ran
      PROVE  QueueInv'
  <2>1. TakeBatch /\ group' = NoGroup /\ group'.ran = {} /\ batch = <<>>
    BY <1>g DEF GroupDone, NoGroup
  <2>2. Items(batch) = {} /\ group.ran \subseteq Asked
    BY <2>1, ItemsOfNone DEF QueueInv
  <2>3. Asked' = Asked \ group.ran
    BY <1>g, <2>2, TellTells
  <2>4. Asked' = Items(waiting)
    BY <2>2, <2>3 DEF QueueInv
  <2> QED
    BY <2>1, <2>4, BatchTaken
<1>11. CASE GroupCommits
  <2> DEFINE answers == [k \in group.ran |-> IF k \in group.fine THEN "ok" ELSE "error"]
  <2>1. GroupDone /\ Tell(answers) /\ DOMAIN answers = group.ran
    BY <1>11 DEF GroupCommits
  <2> HIDE DEF answers
  <2> QED
    BY <1>g, <2>1
<1>12. ASSUME NEW reply \in Replies, CommitFails(reply) PROVE QueueInv'
  <2> DEFINE answers == [k \in group.ran |-> reply]
  <2>1. GroupDone /\ Tell(answers) /\ DOMAIN answers = group.ran
    BY <1>12 DEF CommitFails
  <2> HIDE DEF answers
  <2> QED
    BY <1>g, <2>1
<1>13. ASSUME NEW d \in Downs, Shutdown(d) \/ TakeLive(d) \/ CloseRegistry(d) \/ Cleanup(d)
       PROVE  QueueInv'
  BY <1>13, <1>v DEF Shutdown, TakeLive, CloseRegistry, Cleanup
<1>14. ASSUME NEW d \in Downs, NEW k \in Ids, EvictNext(d, k) PROVE QueueInv'
  BY <1>14, <1>t, <1>v DEF EvictNext
<1>15. CASE UNCHANGED catalogVars
  BY <1>15, <1>v DEF catalogVars
<1> QED
  BY <1>1, <1>2, <1>3, <1>4, <1>5, <1>6, <1>7, <1>8, <1>9, <1>10, <1>11, <1>12, <1>13, <1>14,
     <1>15 DEF CatalogNext, Ongoing, Draining, Loading, Leaving, Stopping
-----------------------------------------------------------------------------
(* Every instance that closes is awaited. *)
LEMMA AwaitStep ==
    ASSUME QueueInv, LifeInv, AwaitInv, CatalogNext
    PROVE  AwaitInv'
<1> USE DEF standVars, heldVars, connVars, drainVars, downVars
<1>t. /\ stand \in [Ids -> Stands] /\ instance \in [Ids -> Lives]
      /\ sweeps \in [Ids -> SUBSET Ids] /\ sorry \subseteq Ids /\ phase \in [Downs -> Phases]
      /\ evicts \in [Downs -> SUBSET Ids]
  BY DEF LifeInv, AwaitInv
<1>i. /\ \A j \in Ids : \A k \in sweeps[j] : stand[j] = "sweeping" /\ sweeps[j] = {k}
      /\ \A d \in Downs : \A k \in evicts[d] : phase[d] = "evicting" /\ evicts[d] = {k}
      /\ \A k \in Ids : instance[k] \in Closing =>
            (\E j \in Ids : k \in sweeps[j]) \/ (\E d \in Downs : k \in evicts[d])
  BY DEF AwaitInv
<1>p. \A s \in {"new", "begun", "evicting", "closed", "failed", "done"} : s \in Phases
  BY DEF Phases
<1>u. ASSUME UNCHANGED <<sweeps, evicts>>, sorry' \subseteq Ids, phase' \in [Downs -> Phases],
             \A d \in Downs : evicts[d] # {} => phase'[d] = phase[d],
             \A j \in Ids : sweeps[j] # {} => stand'[j] = stand[j],
             \A k \in Ids : instance'[k] \in Closing => instance[k] \in Closing
      PROVE  AwaitInv'
  BY <1>i, <1>t, <1>u DEF AwaitInv
<1>w. ASSUME NEW k \in Ids, sweeps[k] # {} PROVE stand[k] = "sweeping"
  BY <1>i, <1>t, <1>w
<1>1. ASSUME NEW k \in Ids, BeginOpening(k) PROVE AwaitInv'
  BY <1>1, <1>t, <1>u, <1>w DEF BeginOpening, Goes
<1>2. ASSUME NEW n \in 1..MaxConns, Connecting(n) PROVE AwaitInv'
  BY <1>2, <1>t, <1>u, <1>w DEF Connecting, RegistryOpens, RegistryFails
<1>3. ASSUME NEW k \in Ids, Prepare(k) \/ PrepareFails(k) \/ Submit(k) PROVE AwaitInv'
  BY <1>3, <1>t, <1>u, <1>w DEF Prepare, PrepareFails, Submit, Goes
<1>4. ASSUME NEW k \in Ids, GoLive(k) PROVE AwaitInv'
  <2>1. \A j \in Ids : instance'[j] \in Closing => instance[j] \in Closing
    BY <1>4, <1>t DEF GoLive, Closing
  <2> QED
    BY <1>4, <1>t, <1>u, <1>w, <2>1 DEF GoLive, Goes
<1>5. ASSUME NEW k \in Ids, NEW j \in Ids, SweepIdle(k, j) PROVE AwaitInv'
  <2>1. /\ stand[k] = "ready" /\ stand' = [stand EXCEPT ![k] = "sweeping"]
        /\ sweeps' = [sweeps EXCEPT ![k] = {j}] /\ instance' = [instance EXCEPT ![j] = "closing"]
        /\ UNCHANGED <<sorry, phase, evicts>>
    BY <1>5 DEF SweepIdle, Goes
  <2>2. sweeps[k] = {} /\ stand'[k] = "sweeping" /\ sweeps'[k] = {j} /\ j \in sweeps'[k]
    BY <1>t, <1>w, <2>1
  <2>3. \A i \in Ids \ {k} : stand'[i] = stand[i] /\ sweeps'[i] = sweeps[i]
    BY <1>t, <2>1
  <2>4. \A i \in Ids \ {j} : instance'[i] = instance[i]
    BY <1>t, <2>1
  <2>5. \A i \in Ids : \A l \in sweeps'[i] : stand'[i] = "sweeping" /\ sweeps'[i] = {l}
    BY <1>i, <2>2, <2>3
  <2>6. \A l \in Ids : instance'[l] \in Closing =>
            (\E i \in Ids : l \in sweeps'[i]) \/ (\E d \in Downs : l \in evicts'[d])
    <3> SUFFICES ASSUME NEW l \in Ids, l # j, instance'[l] \in Closing
                 PROVE  (\E i \in Ids : l \in sweeps'[i]) \/ (\E d \in Downs : l \in evicts'[d])
      BY <2>2
    <3>1. (\E i \in Ids : l \in sweeps[i]) \/ (\E d \in Downs : l \in evicts[d])
      BY <1>i, <2>4
    <3> QED
      BY <2>1, <2>2, <2>3, <3>1
  <2>7. sweeps' \in [Ids -> SUBSET Ids]
    BY <1>t, <2>1
  <2> QED
    BY <1>i, <1>t, <2>1, <2>5, <2>6, <2>7 DEF AwaitInv
<1>6. ASSUME NEW k \in Ids, TouchRow(k) \/ TouchAgain(k) PROVE AwaitInv'
  <2>1. /\ UNCHANGED <<sweeps, evicts, stand, phase>> /\ sorry' \subseteq Ids
        /\ instance[k] \in Closing /\ \A j \in Ids \ {k} : instance'[j] = instance[j]
    BY <1>6, <1>t DEF TouchRow, TouchAgain, Closing
  <2>2. \A j \in Ids : instance'[j] \in Closing => instance[j] \in Closing
    BY <2>1
  <2> QED
    BY <1>t, <1>u, <2>1, <2>2
<1>7. ASSUME NEW k \in Ids, EvictEnds(k) PROVE AwaitInv'
  <2>1. /\ instance' = [instance EXCEPT ![k] = "none"] /\ sorry' = sorry \ {k}
        /\ sweeps' = [j \in Ids |-> sweeps[j] \ {k}]
        /\ stand' = [j \in Ids |-> IF k \in sweeps[j] \cap sorry THEN "out" ELSE stand[j]]
        /\ evicts' = [d \in Downs |-> evicts[d] \ {k}]
        /\ phase' = [d \in Downs |-> IF k \in evicts[d] \cap sorry THEN "failed" ELSE phase[d]]
    BY <1>7 DEF EvictEnds
  <2>2. /\ sweeps' \in [Ids -> SUBSET Ids] /\ evicts' \in [Downs -> SUBSET Ids]
        /\ sorry' \subseteq Ids
    BY <1>t, <2>1
  <2>3. phase' \in [Downs -> Phases]
    <3>1. \A d \in Downs : phase'[d] \in Phases
      BY <1>p, <1>t, <2>1
    <3> QED
      BY <2>1, <3>1
  <2>4. ASSUME NEW j \in Ids, NEW l \in sweeps'[j]
        PROVE  stand'[j] = "sweeping" /\ sweeps'[j] = {l}
    <3>1. l \in sweeps[j] /\ l # k
      BY <2>1
    <3>2. stand[j] = "sweeping" /\ sweeps[j] = {l}
      BY <1>i, <3>1
    <3> QED
      BY <2>1, <3>1, <3>2
  <2>5. ASSUME NEW d \in Downs, NEW l \in evicts'[d]
        PROVE  phase'[d] = "evicting" /\ evicts'[d] = {l}
    <3>1. l \in evicts[d] /\ l # k
      BY <2>1
    <3>2. phase[d] = "evicting" /\ evicts[d] = {l}
      BY <1>i, <3>1
    <3> QED
      BY <2>1, <3>1, <3>2
  <2>6. ASSUME NEW l \in Ids, instance'[l] \in Closing
        PROVE  (\E i \in Ids : l \in sweeps'[i]) \/ (\E d \in Downs : l \in evicts'[d])
    <3>1. l # k /\ instance[l] \in Closing
      BY <1>t, <2>1, <2>6 DEF Closing
    <3>2. (\E i \in Ids : l \in sweeps[i]) \/ (\E d \in Downs : l \in evicts[d])
      BY <1>i, <3>1
    <3> QED
      BY <2>1, <3>1, <3>2
  <2> QED
    BY <2>2, <2>3, <2>4, <2>5, <2>6 DEF AwaitInv
<1>a. ASSUME NEW answers, Tell(answers), DOMAIN answers \subseteq Asked,
             UNCHANGED <<sweeps, sorry, phase, evicts>>
      PROVE  AwaitInv'
  <2>1. /\ \A k \in Ids \ DOMAIN answers : stand'[k] = stand[k] /\ instance'[k] = instance[k]
        /\ \A k \in DOMAIN answers : k \in Ids /\ Hears(k, answers[k])
    BY <1>a, TellTells
  <2>2. ASSUME NEW j \in Ids, stand[j] = "sweeping" PROVE stand'[j] = stand[j]
    BY <2>1, <2>2 DEF Hears
  <2>3. ASSUME NEW k \in Ids, instance'[k] \in Closing PROVE instance[k] \in Closing
    BY <2>1, <2>3 DEF Hears, Closing
  <2> QED
    BY <1>a, <1>t, <1>u, <1>w, <2>2, <2>3
<1>r. group.ran \subseteq Asked
  BY DEF QueueInv
<1>8. ASSUME NEW reply \in Replies, RunSingle(reply) PROVE AwaitInv'
  <2> DEFINE answers == [k \in {Head(batch)} |-> reply]
  <2>1. Head(batch) \in Asked
    BY <1>8, ItemsOfTail DEF RunSingle, QueueInv
  <2>2. Tell(answers) /\ DOMAIN answers \subseteq Asked /\ UNCHANGED <<sweeps, sorry, phase, evicts>>
    BY <1>8, <2>1 DEF RunSingle
  <2> HIDE DEF answers
  <2> QED
    BY <1>a, <2>2
<1>9. ASSUME NEW reply \in Replies, RunGrouped(reply) PROVE AwaitInv'
  BY <1>9, <1>t, <1>u DEF RunGrouped
<1>10. CASE GroupCommits
  <2> DEFINE answers == [k \in group.ran |-> IF k \in group.fine THEN "ok" ELSE "error"]
  <2>1. Tell(answers) /\ DOMAIN answers \subseteq Asked /\ UNCHANGED <<sweeps, sorry, phase, evicts>>
    BY <1>10, <1>r DEF GroupCommits
  <2> HIDE DEF answers
  <2> QED
    BY <1>a, <2>1
<1>11. ASSUME NEW reply \in Replies, CommitFails(reply) PROVE AwaitInv'
  <2> DEFINE answers == [k \in group.ran |-> reply]
  <2>1. Tell(answers) /\ DOMAIN answers \subseteq Asked /\ UNCHANGED <<sweeps, sorry, phase, evicts>>
    BY <1>11, <1>r DEF CommitFails
  <2> HIDE DEF answers
  <2> QED
    BY <1>a, <2>1
<1>12. ASSUME NEW d \in Downs, Shutdown(d) \/ TakeLive(d) \/ CloseRegistry(d) \/ Cleanup(d)
       PROVE  AwaitInv'
  <2>1. UNCHANGED <<sweeps, evicts, stand, instance, sorry>>
    BY <1>12 DEF Shutdown, TakeLive, CloseRegistry, Cleanup
  <2>2. evicts[d] = {}
    <3>1. phase[d] # "evicting" \/ evicts[d] = {}
      BY <1>12 DEF Shutdown, TakeLive, CloseRegistry, Cleanup
    <3> QED
      BY <1>i, <1>t, <3>1
  <2>3. \E s \in Phases : phase' = [phase EXCEPT ![d] = s]
    BY <1>12, <1>p DEF Shutdown, TakeLive, CloseRegistry, Cleanup
  <2>4. phase' \in [Downs -> Phases] /\ \A e \in Downs \ {d} : phase'[e] = phase[e]
    BY <1>t, <2>3
  <2> QED
    BY <1>t, <1>u, <2>1, <2>2, <2>4
<1>13. ASSUME NEW d \in Downs, NEW k \in Ids, EvictNext(d, k) PROVE AwaitInv'
  <2>1. UNCHANGED <<sweeps, sorry, stand, phase>> /\ phase[d] = "evicting" /\ evicts[d] = {}
    BY <1>13 DEF EvictNext
  <2>2. CASE k \in stale[d]
    <3>1. evicts' = evicts /\ \A j \in Ids : instance'[j] \in {instance[j], "none"}
      BY <1>13, <1>t, <2>2 DEF EvictNext
    <3>2. \A j \in Ids : instance'[j] \in Closing => instance[j] \in Closing
      BY <3>1 DEF Closing
    <3> QED
      BY <1>t, <1>u, <2>1, <3>1, <3>2
  <2>3. CASE k \notin stale[d]
    <3>1. /\ evicts' = [evicts EXCEPT ![d] = {k}] /\ \A j \in Ids \ {k} : instance'[j] = instance[j]
      BY <1>13, <1>t, <2>3 DEF EvictNext
    <3>2. /\ evicts' \in [Downs -> SUBSET Ids] /\ evicts'[d] = {k}
          /\ \A e \in Downs \ {d} : evicts'[e] = evicts[e]
      BY <1>t, <3>1
    <3>3. ASSUME NEW e \in Downs, NEW l \in evicts'[e]
          PROVE  phase'[e] = "evicting" /\ evicts'[e] = {l}
      BY <1>i, <2>1, <3>2
    <3>4. ASSUME NEW l \in Ids, instance'[l] \in Closing
          PROVE  (\E i \in Ids : l \in sweeps'[i]) \/ (\E e \in Downs : l \in evicts'[e])
      <4>1. CASE l = k
        BY <3>2, <4>1
      <4>2. CASE l # k
        <5>1. (\E i \in Ids : l \in sweeps[i]) \/ (\E e \in Downs : l \in evicts[e])
          BY <1>i, <3>1, <3>4, <4>2
        <5> QED
          BY <2>1, <3>2, <5>1
      <4> QED
        BY <4>1, <4>2
    <3> QED
      BY <1>i, <1>t, <2>1, <3>2, <3>3, <3>4 DEF AwaitInv
  <2> QED
    BY <2>2, <2>3
<1>14. CASE UNCHANGED catalogVars
  BY <1>14, <1>t, <1>u DEF catalogVars
<1> QED
  BY <1>1, <1>2, <1>3, <1>4, <1>5, <1>6, <1>7, <1>8, <1>9, <1>10, <1>11, <1>12, <1>13, <1>14
  DEF CatalogNext, Ongoing, Draining, Loading, Leaving, Stopping
-----------------------------------------------------------------------------
(* A shutdown that no other overlaps knows who was being opened, and closes the rest. *)
LEMMA DownStep ==
    ASSUME QueueInv, LifeInv, AwaitInv, DownInv, CatalogNext
    PROVE  DownInv'
<1> USE DEF standVars, heldVars, connVars, drainVars, downVars
<1>t. /\ stand \in [Ids -> Stands] /\ instance \in [Ids -> Lives] /\ phase \in [Downs -> Phases]
      /\ flag \in BOOLEAN /\ overlapped \in BOOLEAN /\ early \subseteq Ids
      /\ evicting \in [Downs -> SUBSET Ids] /\ stale \in [Downs -> SUBSET Ids]
  BY DEF LifeInv, AwaitInv, DownInv
<1>e. \A k \in Ids : /\ stand'[k] \in Underway => stand[k] \in Underway \/ ~flag
                     /\ instance'[k] = "live" => instance[k] = "live" \/ stand[k] \in Underway
  BY StepEases
<1>n. \A d \in Downs : d \in Active <=> phase[d] \notin {"new", "done"}
  BY DEF Active
<1>m. \A d \in Downs : d \in Active' <=> phase'[d] \notin {"new", "done"}
  BY DEF Active
<1>o. Active \subseteq Downs /\ Active' \subseteq Downs
  BY DEF Active
<1>l. ASSUME ~overlapped, NEW d \in Active
      PROVE  /\ flag /\ Active = {d}
             /\ \A k \in Ids : stand'[k] \in Underway => k \in early
             /\ phase[d] \in {"evicting", "closed"} =>
                   \A k \in Ids : instance'[k] = "live" => k \in early \cup evicting[d]
             /\ phase[d] = "closed" => evicting[d] = {}
  <2>1. LoneInv
    BY <1>l DEF DownInv
  <2>2. flag
    BY <1>l, <2>1 DEF LoneInv
  <2> QED
    BY <1>e, <1>l, <2>1, <2>2 DEF LoneInv
<1>u. ASSUME UNCHANGED <<flag, overlapped, early, evicting, phase>>, stale' \in [Downs -> SUBSET Ids]
      PROVE  DownInv'
  <2>1. Active' = Active
    BY <1>u DEF Active
  <2>2. ASSUME ~overlapped PROVE LoneInv'
    <3> SUFFICES ASSUME NEW d \in Active
                 PROVE  /\ flag' /\ Active' = {d}
                        /\ \A k \in Ids : stand'[k] \in Underway => k \in early'
                        /\ phase'[d] \in {"evicting", "closed"} =>
                              \A k \in Ids : instance'[k] = "live" => k \in early' \cup evicting'[d]
                        /\ phase'[d] = "closed" => evicting'[d] = {}
      BY <2>1 DEF LoneInv
    <3> QED
      BY <1>l, <1>u, <2>1, <2>2
  <2> QED
    BY <1>t, <1>u, <2>2 DEF DownInv
<1>1. ASSUME UNCHANGED downVars PROVE DownInv'
  BY <1>1, <1>t, <1>u
<1>2. ASSUME NEW k \in Ids, EvictEnds(k) PROVE DownInv'
  <2>1. /\ UNCHANGED <<flag, overlapped, early, evicting>>
        /\ phase' = [d \in Downs |-> IF k \in evicts[d] \cap sorry THEN "failed" ELSE phase[d]]
        /\ stale' = [d \in Downs |-> stale[d] \cup (evicting[d] \cap {k})]
    BY <1>2 DEF EvictEnds
  <2>2. stale' \in [Downs -> SUBSET Ids]
    BY <1>t, <2>1
  <2>3. \A d \in Downs : phase'[d] = phase[d] \/ (phase[d] = "evicting" /\ phase'[d] = "failed")
    BY <2>1 DEF AwaitInv
  <2>4. Active' = Active
    BY <2>3 DEF Active
  <2>5. ASSUME ~overlapped PROVE LoneInv'
    <3> SUFFICES ASSUME NEW d \in Active
                 PROVE  /\ flag' /\ Active' = {d}
                        /\ \A j \in Ids : stand'[j] \in Underway => j \in early'
                        /\ phase'[d] \in {"evicting", "closed"} =>
                              \A j \in Ids : instance'[j] = "live" => j \in early' \cup evicting'[d]
                        /\ phase'[d] = "closed" => evicting'[d] = {}
      BY <2>4 DEF LoneInv
    <3>1. phase'[d] \in {"evicting", "closed"} => phase'[d] = phase[d]
      BY <1>o, <2>3
    <3> QED
      BY <1>l, <2>1, <2>4, <2>5, <3>1
  <2> QED
    BY <1>t, <2>1, <2>2, <2>5 DEF DownInv
<1>3. ASSUME NEW d \in Downs, Shutdown(d) PROVE DownInv'
  <2>1. /\ phase[d] = "new" /\ phase' = [phase EXCEPT ![d] = "begun"] /\ flag' = TRUE
        /\ early' = Are(Underway) /\ overlapped' = (overlapped \/ Active # {})
        /\ UNCHANGED <<evicting, stale, stand>>
    BY <1>3 DEF Shutdown
  <2>2. ASSUME ~overlapped' PROVE LoneInv'
    <3>1. Active = {} /\ phase'[d] = "begun" /\ \A e \in Downs \ {d} : phase'[e] = phase[e]
      BY <1>t, <2>1, <2>2
    <3>2. Active' = {d}
      BY <1>m, <1>n, <1>o, <3>1
    <3>3. \A k \in Ids : stand'[k] \in Underway => k \in early'
      BY <2>1 DEF Are
    <3> QED
      BY <2>1, <3>1, <3>2, <3>3 DEF LoneInv
  <2>3. early' \subseteq Ids /\ overlapped' \in BOOLEAN
    BY <2>1 DEF Are
  <2> QED
    BY <1>t, <2>1, <2>2, <2>3 DEF DownInv
<1>4. ASSUME NEW d \in Downs, TakeLive(d) PROVE DownInv'
  <2>1. /\ phase[d] = "begun" /\ phase' = [phase EXCEPT ![d] = "evicting"]
        /\ evicting' = [evicting EXCEPT ![d] = Being({"live"})]
        /\ UNCHANGED <<flag, overlapped, early, stale, instance, stand>>
    BY <1>4 DEF TakeLive
  <2>2. /\ evicting' \in [Downs -> SUBSET Ids] /\ phase'[d] = "evicting"
        /\ evicting'[d] = Being({"live"}) /\ \A e \in Downs \ {d} : phase'[e] = phase[e]
    BY <1>t, <2>1 DEF Being
  <2>3. ASSUME ~overlapped PROVE LoneInv'
    <3>1. d \in Active /\ Active = {d}
      BY <1>l, <1>n, <2>1, <2>3
    <3>2. Active' = {d}
      BY <1>m, <1>n, <1>o, <2>2, <3>1
    <3>3. \A k \in Ids : instance'[k] = "live" => k \in evicting'[d]
      BY <2>1, <2>2 DEF Being
    <3>4. flag' /\ \A k \in Ids : stand'[k] \in Underway => k \in early'
      BY <1>l, <2>1, <2>3, <3>1
    <3> QED
      BY <2>2, <3>2, <3>3, <3>4 DEF LoneInv
  <2> QED
    BY <1>t, <2>1, <2>2, <2>3 DEF DownInv
<1>5. ASSUME NEW d \in Downs, NEW k \in Ids, EvictNext(d, k) PROVE DownInv'
  <2>1. /\ phase[d] = "evicting" /\ evicting' = [evicting EXCEPT ![d] = @ \ {k}]
        /\ UNCHANGED <<flag, overlapped, early, phase, stand>>
    BY <1>5 DEF EvictNext
  <2>2. /\ evicting' \in [Downs -> SUBSET Ids] /\ evicting'[d] = evicting[d] \ {k}
    BY <1>t, <2>1
  <2>3. stale' \in [Downs -> SUBSET Ids]
    <3>1. CASE k \in stale[d]
      <4>1. stale' = [e \in Downs |-> IF e = d THEN stale[e] \ {k}
                                      ELSE stale[e] \cup (evicting[e] \cap {k})]
        BY <1>5, <3>1 DEF EvictNext
      <4> QED
        BY <1>t, <4>1
    <3>2. CASE k \notin stale[d]
      BY <1>5, <1>t, <3>2 DEF EvictNext
    <3> QED
      BY <3>1, <3>2
  <2>4. /\ instance'[k] # "live" /\ \A j \in Ids : instance'[j] = "live" => instance[j] = "live"
    BY <1>5, <1>t DEF EvictNext
  <2>5. ASSUME ~overlapped PROVE LoneInv'
    <3>1. d \in Active /\ Active = {d}
      BY <1>l, <1>n, <2>1, <2>5
    <3>2. Active' = {d}
      BY <2>1, <3>1 DEF Active
    <3>3. flag' /\ \A j \in Ids : stand'[j] \in Underway => j \in early'
      BY <1>l, <2>1, <2>5, <3>1
    <3>4. \A j \in Ids : instance'[j] = "live" => j \in early \cup evicting[d]
      BY <1>l, <2>1, <2>5, <3>1
    <3>5. \A j \in Ids : instance'[j] = "live" => j \in early' \cup evicting'[d]
      BY <2>1, <2>2, <2>4, <3>4
    <3> QED
      BY <2>1, <3>2, <3>3, <3>5 DEF LoneInv
  <2> QED
    BY <1>t, <2>1, <2>2, <2>3, <2>5 DEF DownInv
<1>6. ASSUME NEW d \in Downs, CloseRegistry(d) PROVE DownInv'
  <2>1. /\ phase[d] = "evicting" /\ phase' = [phase EXCEPT ![d] = "closed"] /\ evicting[d] = {}
        /\ UNCHANGED <<flag, overlapped, early, stale, instance, stand, evicting>>
    BY <1>6 DEF CloseRegistry
  <2>2. /\ phase'[d] = "closed" /\ \A e \in Downs \ {d} : phase'[e] = phase[e]
    BY <1>t, <2>1
  <2>3. ASSUME ~overlapped PROVE LoneInv'
    <3>1. d \in Active /\ Active = {d}
      BY <1>l, <1>n, <2>1, <2>3
    <3>2. Active' = {d}
      BY <1>m, <1>n, <1>o, <2>2, <3>1
    <3>3. /\ flag' /\ \A k \in Ids : stand'[k] \in Underway => k \in early'
          /\ \A k \in Ids : instance'[k] = "live" => k \in early' \cup evicting'[d]
      BY <1>l, <2>1, <2>3, <3>1
    <3> QED
      BY <2>1, <2>2, <3>2, <3>3 DEF LoneInv
  <2> QED
    BY <1>t, <2>1, <2>3 DEF DownInv
<1>7. ASSUME NEW d \in Downs, Cleanup(d) PROVE DownInv'
  <2>1. /\ phase[d] \in {"closed", "failed"} /\ phase' = [phase EXCEPT ![d] = "done"] /\ flag' = FALSE
        /\ evicting' = [evicting EXCEPT ![d] = {}] /\ stale' = [stale EXCEPT ![d] = {}]
        /\ UNCHANGED <<overlapped, early>>
    BY <1>7 DEF Cleanup
  <2>2. /\ phase'[d] = "done" /\ \A e \in Downs \ {d} : phase'[e] = phase[e]
        /\ evicting' \in [Downs -> SUBSET Ids] /\ stale' \in [Downs -> SUBSET Ids]
    BY <1>t, <2>1
  <2>3. ASSUME ~overlapped PROVE LoneInv'
    <3>1. d \in Active /\ Active = {d}
      BY <1>l, <1>n, <2>1, <2>3
    <3>2. Active' = {}
      BY <1>m, <1>n, <1>o, <2>2, <3>1
    <3> QED
      BY <3>2 DEF LoneInv
  <2> QED
    BY <1>t, <2>1, <2>2, <2>3 DEF DownInv
<1>8. ASSUME NEW k \in Ids, BeginOpening(k) \/ Loading(k) \/ TouchRow(k) \/ TouchAgain(k) PROVE DownInv'
  BY <1>1, <1>8 DEF BeginOpening, Loading, SweepIdle, Prepare, PrepareFails, Submit, GoLive,
     TouchRow, TouchAgain
<1>9. ASSUME NEW n \in 1..MaxConns, Connecting(n) PROVE DownInv'
  BY <1>1, <1>9 DEF Connecting, RegistryOpens, RegistryFails
<1>10. CASE Draining
  BY <1>1, <1>10 DEF Draining, RunSingle, RunGrouped, GroupCommits, CommitFails
<1>11. CASE UNCHANGED catalogVars
  BY <1>1, <1>11 DEF catalogVars
<1> QED
  BY <1>2, <1>3, <1>4, <1>5, <1>6, <1>7, <1>8, <1>9, <1>10, <1>11
  DEF CatalogNext, Ongoing, Leaving, Stopping
-----------------------------------------------------------------------------
(* A connection asked for while nothing is open is the only one being opened. *)
LEMMA ConnStep ==
    ASSUME LifeInv, AwaitInv, DownInv, ConnInv, CatalogNext
    PROVE  ConnInv'
<1> USE DEF standVars, heldVars, connVars, drainVars, downVars, Numbers
<1>m. MaxConns \in Nat \ {0}
  BY CatalogAssumption DEF CatalogAssumption
<1>t. tried \in Nat /\ tried <= MaxConns /\ 0 \in 0..tried /\ 0 \notin 1..tried
      /\ phase \in [Downs -> Phases]
  BY <1>m DEF ConnInv, AwaitInv
<1>u. ASSUME UNCHANGED <<registry, promise, tried, db, openings, conns, stray, overlapped>>,
             Active' \subseteq Active, \A d \in Downs : phase'[d] = "closed" => phase[d] = "closed"
      PROVE  ConnInv'
  BY <1>u DEF ConnInv
<1>v. ASSUME UNCHANGED <<registry, promise, tried, db, openings, conns, stray, overlapped, phase>>
      PROVE  ConnInv'
  BY <1>u, <1>v DEF Active
<1>1. ASSUME NEW k \in Ids, BeginOpening(k) PROVE ConnInv'
  <2>0. ~flag /\ UNCHANGED <<registry, conns, stray, overlapped, phase>>
    BY <1>1 DEF BeginOpening
  <2>1. CASE registry # 0
    <3>1. db' = [db EXCEPT ![k] = registry] /\ UNCHANGED <<promise, openings, tried>>
      BY <1>1, <2>1 DEF BeginOpening
    <3> QED
      BY <2>0, <3>1 DEF ConnInv, Active
  <2>2. CASE registry = 0 /\ promise # 0
    <3>1. db' = [db EXCEPT ![k] = promise] /\ UNCHANGED <<promise, openings, tried>>
      BY <1>1, <2>2 DEF BeginOpening, Ask
    <3> QED
      BY <2>0, <3>1 DEF ConnInv, Active
  <2>3. CASE registry = 0 /\ promise = 0
    <3>1. /\ tried < MaxConns /\ tried' = tried + 1 /\ promise' = tried + 1
          /\ openings' = openings \cup {tried + 1} /\ db' = [db EXCEPT ![k] = tried + 1]
      BY <1>1, <2>3 DEF BeginOpening, Ask
    <3>2. /\ tried + 1 \in 1..MaxConns /\ tried + 1 \in 0..MaxConns
          /\ \A n \in 1..tried : n \in 1..(tried + 1) /\ n # tried + 1
          /\ tried + 1 \in 1..(tried + 1) /\ 0 \in 0..(tried + 1)
      BY <1>m, <1>t, <3>1
    <3>3. stray = {} /\ ~overlapped => openings = {} /\ Active = {}
      <4>1. ~overlapped => Active = {}
        BY <2>0 DEF DownInv, LoneInv
      <4>2. stray = {} /\ ~overlapped => openings = {}
        BY <1>t, <2>3 DEF ConnInv
      <4> QED
        BY <4>1, <4>2
    <3>4. /\ {registry', promise'} \subseteq Numbers /\ tried' \in Numbers
          /\ db' \in [Ids -> Numbers] /\ registry' \in 0..tried'
      BY <2>0, <2>3, <3>1, <3>2 DEF ConnInv
    <3>5. /\ openings' \subseteq 1..tried' /\ conns' \subseteq 1..tried' /\ openings' \cap conns' = {}
      BY <2>0, <3>1, <3>2 DEF ConnInv
    <3>6. Active' = Active
      BY <2>0 DEF Active
    <3> QED
      BY <2>0, <2>3, <3>1, <3>3, <3>4, <3>5, <3>6 DEF ConnInv
  <2> QED
    BY <2>1, <2>2, <2>3
<1>2. ASSUME NEW n \in 1..MaxConns, RegistryOpens(n) PROVE ConnInv'
  <2>1. /\ n \in openings /\ openings' = openings \ {n} /\ conns' = conns \cup {n}
        /\ registry' = n /\ promise' = 0 /\ UNCHANGED <<db, tried, phase, stray, overlapped>>
    BY <1>2 DEF RegistryOpens
  <2>2. n \in 1..tried /\ n \in 0..tried /\ n \in 0..MaxConns
    BY <1>m, <1>t, <2>1 DEF ConnInv
  <2>3. stray = {} /\ ~overlapped => conns = {} /\ openings = {n} /\ Active = {}
    BY <1>t, <2>1 DEF ConnInv
  <2>4. stray = {} /\ ~overlapped => \A d \in Downs : phase[d] # "closed"
    BY <2>3 DEF Active
  <2> QED
    BY <1>m, <2>1, <2>2, <2>3, <2>4 DEF ConnInv
<1>3. ASSUME NEW n \in 1..MaxConns, RegistryFails(n) PROVE ConnInv'
  <2>1. /\ n \in openings /\ openings' = openings \ {n} /\ promise' = 0
        /\ UNCHANGED <<db, tried, phase, stray, overlapped, registry, conns>>
    BY <1>3 DEF RegistryFails
  <2>2. stray = {} /\ ~overlapped => openings = {n}
    BY <2>1 DEF ConnInv
  <2> QED
    BY <1>m, <2>1, <2>2 DEF ConnInv
<1>4. ASSUME NEW k \in Ids, Loading(k) \/ TouchRow(k) \/ TouchAgain(k) PROVE ConnInv'
  BY <1>4, <1>v DEF Loading, SweepIdle, Prepare, PrepareFails, Submit, GoLive, TouchRow, TouchAgain
<1>5. CASE Draining
  BY <1>5, <1>v DEF Draining, RunSingle, RunGrouped, GroupCommits, CommitFails
<1>6. ASSUME NEW k \in Ids, EvictEnds(k) PROVE ConnInv'
  <2>1. /\ UNCHANGED <<registry, promise, tried, db, openings, conns, stray, overlapped>>
        /\ phase' = [d \in Downs |-> IF k \in evicts[d] \cap sorry THEN "failed" ELSE phase[d]]
    BY <1>6 DEF EvictEnds
  <2>2. \A d \in Downs : phase'[d] = phase[d] \/ (phase[d] = "evicting" /\ phase'[d] = "failed")
    BY <2>1 DEF AwaitInv
  <2>3. Active' = Active
    BY <2>2 DEF Active
  <2> QED
    BY <1>u, <2>1, <2>2, <2>3
<1>7. ASSUME NEW d \in Downs, Shutdown(d) PROVE ConnInv'
  <2>1. /\ phase[d] = "new" /\ phase' = [phase EXCEPT ![d] = "begun"]
        /\ stray' = stray \cup openings /\ overlapped' = (overlapped \/ Active # {})
        /\ UNCHANGED <<registry, promise, tried, db, openings, conns>>
    BY <1>7 DEF Shutdown
  <2>2. stray' \subseteq 1..MaxConns
    <3>1. \A n \in 1..tried : n \in 1..MaxConns
      BY <1>m, <1>t
    <3> QED
      BY <2>1, <3>1 DEF ConnInv
  <2>3. stray' = {} /\ ~overlapped' => openings = {} /\ stray = {} /\ ~overlapped
    BY <2>1
  <2>4. \A e \in Downs : phase'[e] = "closed" => phase[e] = "closed"
    BY <1>t, <2>1
  <2> QED
    BY <2>1, <2>2, <2>3, <2>4 DEF ConnInv
<1>8. ASSUME NEW d \in Downs, TakeLive(d) PROVE ConnInv'
  <2>1. /\ phase[d] = "begun" /\ phase' = [phase EXCEPT ![d] = "evicting"]
        /\ UNCHANGED <<registry, promise, tried, db, openings, conns, stray, overlapped>>
    BY <1>8 DEF TakeLive
  <2>2. Active' \subseteq Active /\ \A e \in Downs : phase'[e] = "closed" => phase[e] = "closed"
    BY <1>t, <2>1 DEF Active
  <2> QED
    BY <1>u, <2>1, <2>2
<1>9. ASSUME NEW d \in Downs, NEW k \in Ids, EvictNext(d, k) PROVE ConnInv'
  BY <1>9, <1>v DEF EvictNext
<1>10. ASSUME NEW d \in Downs, CloseRegistry(d) PROVE ConnInv'
  <2>1. /\ phase[d] = "evicting" /\ phase' = [phase EXCEPT ![d] = "closed"] /\ conns' = conns \ {registry}
        /\ UNCHANGED <<registry, promise, tried, db, openings, stray, overlapped>>
    BY <1>10 DEF CloseRegistry
  <2>2. Active' \subseteq Active
    BY <1>t, <2>1 DEF Active
  <2>3. stray = {} /\ ~overlapped => conns' = {}
    BY <2>1 DEF ConnInv
  <2> QED
    BY <2>1, <2>2, <2>3 DEF ConnInv
<1>11. ASSUME NEW d \in Downs, Cleanup(d) PROVE ConnInv'
  <2>1. /\ phase[d] \in {"closed", "failed"} /\ phase' = [phase EXCEPT ![d] = "done"]
        /\ registry' = 0 /\ promise' = 0 /\ UNCHANGED <<tried, db, openings, conns, overlapped>>
        /\ stray' = IF phase[d] = "failed" THEN stray \cup conns ELSE stray
    BY <1>11 DEF Cleanup
  <2>2. d \in Active /\ \A e \in Downs : phase'[e] = "closed" => phase[e] = "closed"
    BY <1>t, <2>1 DEF Active
  <2>3. stray' = {} /\ ~overlapped' => /\ stray = {} /\ openings = {} /\ conns = {}
    BY <2>1, <2>2 DEF ConnInv
  <2>4. stray' \subseteq 1..MaxConns
    <3>1. \A n \in 1..tried : n \in 1..MaxConns
      BY <1>m, <1>t
    <3> QED
      BY <2>1, <3>1 DEF ConnInv
  <2> QED
    BY <1>m, <1>t, <2>1, <2>2, <2>3, <2>4 DEF ConnInv
<1>12. CASE UNCHANGED catalogVars
  BY <1>12, <1>v DEF catalogVars
<1> QED
  BY <1>1, <1>2, <1>3, <1>4, <1>5, <1>6, <1>7, <1>8, <1>9, <1>10, <1>11, <1>12
  DEF CatalogNext, Ongoing, Leaving, Stopping, Connecting
-----------------------------------------------------------------------------
(* The bounds on openings and busy answers. *)
LEMMA CountStep ==
    ASSUME CountInv, CatalogNext
    PROVE  CountInv'
<1> USE DEF standVars, heldVars, connVars, drainVars, downVars
<1>m. MaxOpens \in Nat /\ MaxBusy \in Nat
  BY CatalogAssumption DEF CatalogAssumption
<1>1. ASSUME NEW k \in Ids, BeginOpening(k) PROVE CountInv'
  <2>1. opens < MaxOpens /\ opens' = opens + 1 /\ UNCHANGED busy
    BY <1>1 DEF BeginOpening
  <2> QED
    BY <1>m, <2>1 DEF CountInv
<1>2. ASSUME NEW reply \in Replies, RunSingle(reply) \/ CommitFails(reply) PROVE CountInv'
  <2>1. Counted(reply) /\ UNCHANGED opens
    BY <1>2 DEF RunSingle, CommitFails
  <2>2. busy' \in 0..MaxBusy
    BY <1>m, <2>1 DEF Counted, CountInv
  <2> QED
    BY <2>1, <2>2 DEF CountInv
<1>3. ASSUME UNCHANGED <<opens, busy>> PROVE CountInv'
  BY <1>3 DEF CountInv
<1>4. ASSUME NEW k \in Ids, Loading(k) \/ Leaving(k) PROVE CountInv'
  BY <1>3, <1>4 DEF Loading, SweepIdle, Prepare, PrepareFails, Submit, GoLive, Leaving, TouchRow,
     TouchAgain, EvictEnds
<1>5. ASSUME NEW n \in 1..MaxConns, Connecting(n) PROVE CountInv'
  BY <1>3, <1>5 DEF Connecting, RegistryOpens, RegistryFails
<1>6. ASSUME NEW d \in Downs, Shutdown(d) \/ Stopping(d) PROVE CountInv'
  BY <1>3, <1>6 DEF Shutdown, Stopping, TakeLive, EvictNext, CloseRegistry, Cleanup
<1>7. CASE GroupCommits \/ \E reply \in Replies : RunGrouped(reply)
  BY <1>3, <1>7 DEF GroupCommits, RunGrouped
<1>8. CASE UNCHANGED catalogVars
  BY <1>3, <1>8 DEF catalogVars
<1> QED
  BY <1>1, <1>2, <1>4, <1>5, <1>6, <1>7, <1>8 DEF CatalogNext, Ongoing, Draining
-----------------------------------------------------------------------------
(* The invariant at the beginning, at every step, and what it says. *)
LEMMA CatalogBegins == CatalogInit => CatalogInv
<1> SUFFICES ASSUME CatalogInit PROVE CatalogInv
  OBVIOUS
<1>m. MaxConns \in Nat \ {0} /\ {MaxOpens, MaxDowns, MaxBusy} \subseteq Nat
  BY CatalogAssumption DEF CatalogAssumption
<1>1. Asked = {} /\ Active = {}
  BY DEF CatalogInit, Asked, Are, Being, Active
<1>2. QueueInv
  <2>1. Items(waiting) = {} /\ Items(batch) = {} /\ Apart(waiting) /\ Apart(batch)
    BY ItemsOfNone DEF CatalogInit
  <2>2. group.ran = {} /\ group.fine = {} /\ group = [ran |-> group.ran, fine |-> group.fine]
    BY DEF CatalogInit, NoGroup
  <2> QED
    BY <1>1, <2>1, <2>2 DEF CatalogInit, QueueInv
<1>3. LifeInv
  <2>1. "out" \notin Underway /\ "out" \in Stands /\ "none" \in Lives /\ "out" \notin Begun
    BY DEF Underway, Stands, Lives, Begun
  <2> QED
    BY <2>1 DEF CatalogInit, LifeInv
<1>4. AwaitInv
  <2>1. "new" \in Phases /\ "none" \notin Closing
    BY DEF Phases, Closing
  <2> QED
    BY <2>1 DEF CatalogInit, AwaitInv
<1>5. DownInv
  BY <1>1 DEF CatalogInit, DownInv, LoneInv
<1>6. ConnInv
  <2>1. 0 \in 0..MaxConns /\ 0 \in 0..0
    BY <1>m
  <2> QED
    BY <2>1 DEF CatalogInit, ConnInv, Numbers
<1>7. CountInv
  BY <1>m DEF CatalogInit, CountInv
<1> QED
  BY <1>2, <1>3, <1>4, <1>5, <1>6, <1>7 DEF CatalogInv

(* Every step keeps the invariant of the catalog, *)
LEMMA CatalogSteps == CatalogInv /\ [CatalogNext]_catalogVars => CatalogInv'
<1> SUFFICES ASSUME CatalogInv, [CatalogNext]_catalogVars PROVE CatalogInv'
  OBVIOUS
<1>1. CASE CatalogNext
  BY <1>1, QueueStep, LifeStep, AwaitStep, DownStep, ConnStep, CountStep DEF CatalogInv
<1>2. CASE UNCHANGED catalogVars
  <2> USE <1>2 DEF catalogVars, standVars, heldVars, connVars, drainVars, downVars, CatalogInv
  <2>1. QueueInv'
    <3>1. /\ Items(waiting)' = Items(waiting) /\ Items(batch)' = Items(batch) /\ Asked' = Asked
          /\ Apart(waiting)' = Apart(waiting) /\ Apart(batch)' = Apart(batch)
      BY DEF Items, Apart, Asked, Are, Being
    <3>2. UNCHANGED <<waiting, batch, drain, group>>
      OBVIOUS
    <3> QED
      BY <3>1, <3>2 DEF QueueInv
  <2>2. LifeInv'
    BY DEF LifeInv
  <2>3. AwaitInv'
    BY DEF AwaitInv
  <2>4. DownInv'
    BY DEF DownInv, LoneInv, Active
  <2>5. ConnInv'
    BY DEF ConnInv, Active
  <2>6. CountInv'
    BY DEF CountInv
  <2> QED
    BY <2>1, <2>2, <2>3, <2>4, <2>5, <2>6
<1> QED
  BY <1>1, <1>2

(* which therefore always holds, *)
LEMMA CatalogAlways == CatalogSpec => []CatalogInv
  BY CatalogBegins, CatalogSteps, PTL DEF CatalogSpec

(* and has the types in it. *)
LEMMA InvTyped == CatalogInv => CatalogTypeOK
<1> SUFFICES ASSUME CatalogInv PROVE CatalogTypeOK
  OBVIOUS
<1>1. /\ group \in [ran : SUBSET Ids, fine : SUBSET Ids]
      /\ waiting \in Seq(Ids) /\ batch \in Seq(Ids) /\ drain \in {"idle", "single", "group"}
      /\ Items(waiting) \cup Items(batch) \cup group.ran = Asked
      /\ (drain = "idle" => waiting = <<>> /\ batch = <<>> /\ group.ran = {})
  BY DEF CatalogInv, QueueInv
<1>2. /\ db \in [Ids -> Numbers] /\ {registry, promise, tried} \subseteq Numbers
      /\ openings \cup conns \subseteq 1..tried /\ openings \cap conns = {}
      /\ stray \subseteq 1..MaxConns
  BY DEF CatalogInv, ConnInv
<1>3. /\ stand \in [Ids -> Stands] /\ instance \in [Ids -> Lives] /\ rows \subseteq Ids
      /\ sweeps \in [Ids -> SUBSET Ids] /\ sorry \subseteq Ids /\ phase \in [Downs -> Phases]
      /\ {evicting, stale, evicts} \subseteq [Downs -> SUBSET Ids]
      /\ flag \in BOOLEAN /\ overlapped \in BOOLEAN /\ early \subseteq Ids
  BY DEF CatalogInv, LifeInv, AwaitInv, DownInv
<1> QED
  BY <1>1, <1>2, <1>3 DEF CatalogInv, CountInv, CatalogTypeOK

(* Every statement that was handed to the catalog, by an opener or by the close of an   *)
(* instance, is waiting, in the batch or in the transaction: the books of onCatalog and    *)
(* drainCatalog. *)
THEOREM CatalogTyped == CatalogSpec => []CatalogTypeOK
  BY CatalogAlways, InvTyped, PTL

(* No worker is live before its row is committed, however statements are grouped and   *)
(* whichever statement or commit fails. *)
THEOREM CatalogRows == CatalogSpec => []LiveHasRow
<1>1. CatalogInv => LiveHasRow
  BY DEF CatalogInv, LifeInv, LiveHasRow, Are, Being, Lives
<1> QED
  BY <1>1, CatalogAlways, PTL

(* registryDb shares the opening under way: an open connection is the registry's, unless  *)
(* a shutdown began while one was being opened, or failed, or two of them overlapped.    *)
THEOREM CatalogOneConnection == CatalogSpec => []OneConnection
<1>1. CatalogInv => OneConnection
  BY DEF CatalogInv, ConnInv, OneConnection
<1> QED
  BY <1>1, CatalogAlways, PTL

(* shutdown() leaves nothing live or open that it could know of, over all of its awaits,    *)
(* and what still closes when it resolves is what an opener that was there before sweeps. *)
THEOREM CatalogShutdown == CatalogSpec => ShutdownComplete
<1> DEFINE Complete == \A d \in Downs : Resolves(d) =>
        /\ Are(Underway) \cup Being({"live"}) \subseteq early
        /\ Being(Closing) \subseteq UNION {sweeps[j] : j \in early}
        /\ stray = {} => conns \cup openings = {}
<1>1. CatalogInv => Complete
  <2> SUFFICES ASSUME CatalogInv, NEW d \in Downs, phase[d] = "closed", ~overlapped
               PROVE  /\ Are(Underway) \cup Being({"live"}) \subseteq early
                      /\ Being(Closing) \subseteq UNION {sweeps[j] : j \in early}
                      /\ stray = {} => conns \cup openings = {}
    BY DEF Resolves
  <2>1. d \in Active
    BY DEF Active
  <2>2. /\ Active = {d} /\ evicting[d] = {} /\ \A k \in Ids : stand[k] \in Underway => k \in early
        /\ \A k \in Ids : instance[k] = "live" => k \in early
    BY <2>1 DEF CatalogInv, DownInv, LoneInv
  <2>3. Are(Underway) \cup Being({"live"}) \subseteq early
    BY <2>2 DEF Are, Being
  <2>4. ASSUME NEW k \in Being(Closing) PROVE k \in UNION {sweeps[j] : j \in early}
    <3>1. \A e \in Downs : evicts[e] = {}
      <4>1. \A e \in Downs : phase[e] # "evicting"
        BY <2>2 DEF Active
      <4> QED
        BY <4>1 DEF CatalogInv, AwaitInv
    <3>2. PICK j \in Ids : k \in sweeps[j]
      BY <3>1 DEF CatalogInv, AwaitInv, Being
    <3>3. stand[j] \in Underway
      BY <3>2 DEF CatalogInv, AwaitInv, Underway
    <3> QED
      BY <2>2, <3>2, <3>3
  <2>5. stray = {} => conns \cup openings = {}
    BY <2>1 DEF CatalogInv, ConnInv
  <2> QED
    BY <2>3, <2>4, <2>5
<1>2. CatalogInv => [Complete]_catalogVars
  BY <1>1
<1> QED
  BY <1>2, CatalogAlways, PTL DEF ShutdownComplete
=============================================================================
