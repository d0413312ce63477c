----------------------------- MODULE HttpServer -----------------------------
(***************************************************************************)
(* A server of runtime:http: class Server (http.js), the provider under it     *)
(* (default-providers/src/system_http.rs) and the graceful shutdown of the     *)
(* process (cli-common/src/shutdown.rs).  The server belongs to an agent whose   *)
(* thread polls its ops and connections; a signal is seen to by the main        *)
(* thread, which steps in at any lock.                                        *)
(*                                                                          *)
(* A connection sends one request at a time and is its request's name.          *)
(***************************************************************************)
EXTENDS Integers, Sequences, FiniteSets

CONSTANTS
    Conns,    \* the connections clients open
    SamePeer, \* those of them from one address; any other has its own
    Slots,    \* max_connections
    PeerMax,  \* max_connections_per_ip
    Cap,      \* the capacity of the request channel (1024)
    Batch,    \* MAX_BATCH
    MaxSent   \* bound: requests sent by all of them

ASSUME HttpAssumption ==
    /\ IsFiniteSet(Conns) /\ SamePeer \subseteq Conns
    /\ {Slots, PeerMax, Cap, Batch} \subseteq Nat \ {0} /\ MaxSent \in Nat

VARIABLES
    loop,      \* where the accept loop of Server is, see Loops
    stopped,   \* Server._stopped
    receiver,  \* the request receiver: none, home in the registry, out or gone
    control,   \* the server's Control is in the registry
    listens,   \* next_requests found the Control when it looked
    notified,  \* the shutdown signal reached the parked next_requests
    accepting, \* the acceptor runs
    granted,   \* it holds a permit for the connection it accepts next
    permits,   \* the semaphore
    peerHeld,  \* PeerLimit.live of the address of SamePeer
    draining,  \* the drain flag was sent, or its sender dropped
    conn,      \* where each connection is
    sent,      \* how many requests were sent
    answer,    \* what its last request was answered
    ran,       \* the handler ran for it
    channel,   \* the requests in the channel
    pending,   \* SystemHttpServer.pending
    handed,    \* SystemHttpServer.delivered
    handling,  \* the requests whose handler has not responded
    live,      \* LiveConnections.count
    process,   \* where the shutdown of the process is
    woken      \* the waiter of wait_idle was notified

readerVars == <<loop, stopped, receiver, control, listens, notified>>
acceptVars == <<accepting, granted, permits, peerHeld>>
requestVars == <<sent, answer, ran, channel, pending, handed, handling>>
shutdownVars == <<process, woken>>
httpVars == <<readerVars, acceptVars, draining, conn, requestVars, live, shutdownVars>>

(* looking: next_request is called; fetching, ready: within its first poll.       *)
Loops == {"binding", "looking", "fetching", "ready", "parked", "ended"}

(* sending: it waits for room in the channel; answered: the response is with     *)
(* hyper, not yet on the socket.                                              *)
Stations == {"out", "open", "sending", "queued", "taken", "answered", "over"}
Processes == {"running", "stopping", "draining", "checking", "registered", "waiting",
              "drained", "forced"}

Running(c) == conn[c] \notin {"out", "over"}
InChannel == {channel[i] : i \in DOMAIN channel}

HttpTypeOK ==
    /\ loop \in Loops /\ stopped \in BOOLEAN /\ control \in BOOLEAN /\ listens \in BOOLEAN
    /\ notified \in BOOLEAN /\ accepting \in BOOLEAN /\ granted \in BOOLEAN
    /\ draining \in BOOLEAN /\ woken \in BOOLEAN
    /\ receiver \in {"none", "home", "out", "gone"}
    /\ (receiver = "out" <=> loop \in {"fetching", "ready", "parked"})
    /\ permits \in 0..Slots /\ peerHeld \in 0..PeerMax /\ live \in Nat
    /\ conn \in [Conns -> Stations] /\ sent \in 0..MaxSent
    /\ answer \in [Conns -> {"none", "handler", "refused"}]
    /\ ran \subseteq Conns /\ pending \subseteq Conns /\ handed \subseteq Conns
    /\ handling \subseteq Conns /\ channel \in Seq(Conns) /\ Len(channel) <= Cap
    /\ process \in Processes

HttpInit ==
    /\ loop = "binding" /\ stopped = FALSE /\ receiver = "none" /\ control = FALSE
    /\ listens = FALSE /\ notified = FALSE /\ accepting = FALSE /\ granted = FALSE
    /\ permits = Slots /\ peerHeld = 0 /\ draining = FALSE
    /\ conn = [c \in Conns |-> "out"] /\ sent = 0
    /\ answer = [c \in Conns |-> "none"] /\ ran = {} /\ channel = <<>>
    /\ pending = {} /\ handed = {} /\ handling = {}
    /\ live = 0 /\ process = "running" /\ woken = FALSE
-----------------------------------------------------------------------------
Station(c, s) == [conn EXCEPT ![c] = s]

(* serve: it binds, or fails to; the loop looks whether it was stopped meanwhile. *)
Serve ==
    /\ loop = "binding" /\ loop' = IF stopped THEN "ended" ELSE "looking"
    /\ receiver' = "home" /\ control' = TRUE /\ accepting' = TRUE
    /\ UNCHANGED <<stopped, listens, notified, granted, permits, peerHeld, draining, conn,
                   requestVars, live, shutdownVars>>
ServeFails ==
    /\ loop = "binding" /\ loop' = "ended"
    /\ UNCHANGED <<stopped, receiver, control, listens, notified, acceptVars, draining, conn,
                   requestVars, live, shutdownVars>>

(* The acceptor takes a permit before it accepts, *)
TakePermit ==
    /\ accepting /\ ~granted /\ permits > 0
    /\ granted' = TRUE /\ permits' = permits - 1
    /\ UNCHANGED <<readerVars, accepting, peerHeld, draining, conn, requestVars, live,
                   shutdownVars>>

(* and hands it to the connection, unless its address holds as many as it may.   *)
Accept(c) ==
    /\ accepting /\ granted /\ conn[c] = "out" /\ granted' = FALSE
    /\ IF c \in SamePeer /\ peerHeld >= PeerMax
       THEN /\ conn' = Station(c, "over") /\ permits' = permits + 1
            /\ UNCHANGED <<peerHeld, live>>
       ELSE /\ conn' = Station(c, "open") /\ live' = live + 1
            /\ peerHeld' = IF c \in SamePeer THEN peerHeld + 1 ELSE peerHeld
            /\ UNCHANGED permits
    /\ UNCHANGED <<readerVars, accepting, draining, requestVars, shutdownVars>>

AcceptFails ==
    /\ accepting /\ granted /\ granted' = FALSE /\ permits' = permits + 1
    /\ UNCHANGED <<readerVars, accepting, peerHeld, draining, conn, requestVars, live,
                   shutdownVars>>
-----------------------------------------------------------------------------
(* hyper reads a request and the service runs up to the send into the channel.   *)
Request(c) ==
    /\ conn[c] = "open" /\ sent < MaxSent
    /\ conn' = Station(c, "sending") /\ sent' = sent + 1
    /\ answer' = [answer EXCEPT ![c] = "none"] /\ ran' = ran \ {c}
    /\ UNCHANGED <<readerVars, acceptVars, draining, channel, pending, handed, handling,
                   live, shutdownVars>>

Send(c) ==
    /\ conn[c] = "sending"
    /\ \/ /\ receiver = "gone" /\ conn' = Station(c, "answered")
          /\ answer' = [answer EXCEPT ![c] = "refused"] /\ UNCHANGED channel
       \/ /\ receiver # "gone" /\ Len(channel) < Cap
          /\ conn' = Station(c, "queued") /\ channel' = Append(channel, c)
          /\ UNCHANGED answer
    /\ UNCHANGED <<readerVars, acceptVars, draining, sent, ran, pending, handed, handling,
                   live, shutdownVars>>

(* Fault: the count is left when the handshake or the client fails. *)
EndKeepsSlot(c) ==
    /\ conn' = Station(c, "over") /\ live' = live - 1 /\ permits' = permits + 1
    /\ woken' = (woken \/ (live = 1 /\ process \in {"registered", "waiting"}))
    /\ UNCHANGED peerHeld

(* The connection's task ends: its slots are given back and leave counts it out.  *)
End(c) ==
    /\ conn' = Station(c, "over") /\ live' = live - 1 /\ permits' = permits + 1
    /\ peerHeld' = IF c \in SamePeer THEN peerHeld - 1 ELSE peerHeld
    /\ woken' = (woken \/ (live = 1 /\ process \in {"registered", "waiting"}))

(* The response is on the socket; a connection that drains closes after it.      *)
Written(c) ==
    /\ conn[c] = "answered"
    /\ IF draining THEN End(c)
       ELSE conn' = Station(c, "open") /\ UNCHANGED <<live, permits, peerHeld, woken>>
    /\ UNCHANGED <<readerVars, accepting, granted, draining, requestVars, process>>

(* The drain closes a connection without a request. *)
Wind(c) ==
    /\ draining /\ conn[c] = "open" /\ End(c)
    /\ UNCHANGED <<readerVars, accepting, granted, draining, requestVars, process>>

(* The client goes away or is timed out, whatever was going on.                 *)
Vanish(c) ==
    /\ Running(c) /\ End(c)
    /\ UNCHANGED <<readerVars, accepting, granted, draining, requestVars, process>>
-----------------------------------------------------------------------------
(* next_requests takes the receiver out of the registry, *)
TakeReceiver ==
    /\ loop = "looking"
    /\ IF receiver = "home" THEN loop' = "fetching" /\ receiver' = "out"
       ELSE loop' = "ended" /\ UNCHANGED receiver
    /\ UNCHANGED <<stopped, control, listens, notified, acceptVars, draining, conn,
                   requestVars, live, shutdownVars>>

(* then looks up the Control, *)
FetchControl ==
    /\ loop = "fetching" /\ loop' = "ready" /\ listens' = control
    /\ UNCHANGED <<stopped, receiver, control, notified, acceptVars, draining, conn,
                   requestVars, live, shutdownVars>>

(* then waits for its signal as well as for the channel. *)
Park ==
    /\ loop = "ready" /\ loop' = "parked" /\ notified' = FALSE
    /\ UNCHANGED <<stopped, receiver, control, listens, acceptVars, draining, conn,
                   requestVars, live, shutdownVars>>

(* However it ends the receiver goes home. *)
Hear ==
    /\ loop = "parked" /\ listens /\ notified
    /\ loop' = "ended" /\ receiver' = "home"
    /\ UNCHANGED <<stopped, control, listens, notified, acceptVars, draining, conn,
                   requestVars, live, shutdownVars>>

(* A batch is given ids, and the loop starts a handler for each. *)
Receive ==
    /\ loop = "parked" /\ ~(listens /\ notified) /\ channel # <<>>
    /\ LET n == IF Len(channel) < Batch THEN Len(channel) ELSE Batch
           taken == {channel[i] : i \in 1..n} IN
       /\ conn' = [c \in Conns |-> IF c \in taken /\ conn[c] = "queued" THEN "taken"
                                   ELSE conn[c]]
       /\ channel' = SubSeq(channel, n + 1, Len(channel))
       /\ pending' = pending \cup taken /\ handed' = handed \cup taken
       /\ handling' = handling \cup taken /\ ran' = ran \cup taken
    /\ loop' = (IF stopped THEN "ended" ELSE "looking") /\ receiver' = "home"
    /\ UNCHANGED <<stopped, control, listens, notified, acceptVars, draining, sent, answer,
                   live, shutdownVars>>

(* Every sender is gone: no connection and no acceptor is left. *)
Exhausted ==
    /\ loop = "parked" /\ ~(listens /\ notified) /\ channel = <<>>
    /\ ~accepting /\ \A c \in Conns : ~Running(c)
    /\ loop' = "ended" /\ receiver' = "home"
    /\ UNCHANGED <<stopped, control, listens, notified, acceptVars, draining, conn,
                   requestVars, live, shutdownVars>>

(* request.signal: the watch is taken out of its table. *)
Watch(c) ==
    /\ c \in handling /\ c \in handed /\ handed' = handed \ {c}
    /\ UNCHANGED <<readerVars, acceptVars, draining, conn, sent, answer, ran, channel,
                   pending, handling, live, shutdownVars>>

(* handleRequest responds, whatever the handler does; the client may be gone.     *)
Respond(c) ==
    /\ c \in handling /\ handling' = handling \ {c}
    /\ pending' = pending \ {c} /\ handed' = handed \ {c}
    /\ IF conn[c] = "taken"
       THEN conn' = Station(c, "answered") /\ answer' = [answer EXCEPT ![c] = "handler"]
       ELSE UNCHANGED <<conn, answer>>
    /\ UNCHANGED <<readerVars, acceptVars, draining, sent, ran, channel, live, shutdownVars>>
-----------------------------------------------------------------------------
(* Fault: the requests that were taken from it are refused too. *)
DropReceiverAndTaken ==
    IF receiver = "home"
    THEN /\ receiver' = "gone" /\ channel' = <<>>
         /\ conn' = [c \in Conns |-> IF conn[c] \in {"queued", "taken"} THEN "answered"
                                     ELSE conn[c]]
         /\ answer' = [c \in Conns |-> IF conn[c] \in {"queued", "taken"} THEN "refused"
                                       ELSE answer[c]]
    ELSE UNCHANGED <<receiver, channel, conn, answer>>

(* The receiver is dropped if it is at home: the requests in the channel are      *)
(* answered for, as are those that are still to be sent.                        *)
DropReceiver ==
    IF receiver = "home"
    THEN /\ receiver' = "gone" /\ channel' = <<>>
         /\ conn' = [c \in Conns |-> IF conn[c] = "queued" THEN "answered" ELSE conn[c]]
         /\ answer' = [c \in Conns |-> IF conn[c] = "queued" THEN "refused" ELSE answer[c]]
    ELSE UNCHANGED <<receiver, channel, conn, answer>>

(* Fault: connections are not told to drain, and the reader not woken. *)
HaltSilently == DropReceiver /\ accepting' = FALSE /\ granted' = FALSE
                /\ UNCHANGED <<notified, draining>>

(* What close and shutdown_all do to a server whose Control they hold. *)
Halt ==
    /\ DropReceiver /\ accepting' = FALSE /\ granted' = FALSE /\ draining' = TRUE
    /\ notified' = (notified \/ (loop = "parked" /\ listens))

(* stop, as often as it is called: without an id there is nothing to close.  Its   *)
(* op is polled by the thread that polls next_requests.                          *)
StopServer ==
    /\ stopped' = TRUE /\ loop \notin {"fetching", "ready"}
    /\ IF control
       THEN control' = FALSE /\ Halt
       ELSE /\ IF loop = "binding" THEN UNCHANGED <<receiver, channel, conn, answer>>
               ELSE DropReceiver
            /\ UNCHANGED <<control, accepting, granted, draining, notified>>
    /\ UNCHANGED <<loop, listens, permits, peerHeld, sent, ran, pending, handed,
                   handling, live, shutdownVars>>

(* drain: shutdown_all takes the Control out; with none the process leaves.       *)
Signal ==
    /\ process = "running" /\ process' = IF control THEN "stopping" ELSE "forced"
    /\ control' = FALSE
    /\ UNCHANGED <<loop, stopped, receiver, listens, notified, acceptVars, draining, conn,
                   requestVars, live, woken>>

ShutdownAll ==
    /\ process = "stopping" /\ process' = "draining" /\ Halt
    /\ UNCHANGED <<loop, stopped, control, listens, permits, peerHeld, sent, ran, pending,
                   handed, handling, live, woken>>

(* A second signal, or the end of the grace. *)
Leave ==
    /\ process \notin {"running", "stopping"} /\ process' = "forced"
    /\ UNCHANGED <<readerVars, acceptVars, draining, conn, requestVars, live, woken>>

(* The drive of the main agent returns when nothing is left to do. *)
DriveEnds ==
    /\ process = "draining" /\ loop = "ended" /\ handling = {} /\ process' = "checking"
    /\ UNCHANGED <<readerVars, acceptVars, draining, conn, requestVars, live, woken>>

(* wait_idle looks at the count, registers, *)
CheckIdle ==
    /\ process = "checking" /\ process' = IF live = 0 THEN "drained" ELSE "registered"
    /\ woken' = FALSE
    /\ UNCHANGED <<readerVars, acceptVars, draining, conn, requestVars, live>>

(* Fault: it does not look again. *)
RecheckIdleNever ==
    /\ process = "registered" /\ process' = "waiting" /\ woken' = FALSE
    /\ UNCHANGED <<readerVars, acceptVars, draining, conn, requestVars, live>>

(* looks again, *)
RecheckIdle ==
    /\ process = "registered" /\ process' = IF live = 0 THEN "drained" ELSE "waiting"
    /\ UNCHANGED <<readerVars, acceptVars, draining, conn, requestVars, live, woken>>

(* and waits to be notified. *)
IdleWoken ==
    /\ process = "waiting" /\ woken /\ process' = "checking"
    /\ UNCHANGED <<readerVars, acceptVars, draining, conn, requestVars, live, woken>>
-----------------------------------------------------------------------------
Gone == process \in {"drained", "forced"}

Reading == TakeReceiver \/ FetchControl \/ Park \/ Hear \/ Receive \/ Exhausted
Answering(c) == Send(c) \/ Written(c) \/ Wind(c) \/ Respond(c)
Waiting == CheckIdle \/ RecheckIdle \/ IdleWoken

HttpNext ==
    \/ /\ ~Gone
       /\ \/ Serve \/ ServeFails \/ TakePermit \/ AcceptFails \/ Reading
          \/ StopServer \/ Signal \/ ShutdownAll \/ Leave \/ DriveEnds \/ Waiting
          \/ \E c \in Conns : \/ Accept(c) \/ Request(c) \/ Answering(c) \/ Vanish(c)
                              \/ Watch(c)
    \/ Gone /\ UNCHANGED httpVars

(* A bind ends, woken tasks are polled and handlers respond; nothing makes a       *)
(* client act, or the grace run out.                                            *)
(* What the server and the process go on with by themselves. *)
ServerGoesOn ==
    /\ ~Gone
    /\ Serve \/ ServeFails \/ Reading \/ ShutdownAll \/ Waiting \/ \E c \in Conns : Answering(c)

HttpSpec == HttpInit /\ [][HttpNext]_httpVars /\ WF_httpVars(ServerGoesOn)
-----------------------------------------------------------------------------
Alive == {c \in Conns : Running(c)}

(* The connection counts are exact however connections end: a slot not given back  *)
(* would be lost to the server for good, and a drain would wait for a count that   *)
(* never reaches zero.                                                         *)
SlotsExact ==
    /\ live = Cardinality(Alive) /\ peerHeld = Cardinality(Alive \cap SamePeer)
    /\ accepting => permits + live + (IF granted THEN 1 ELSE 0) = Slots

(* Nothing is kept of a request that was responded to: every entry of the tables    *)
(* belongs to a handler that is still to respond.                                *)
NothingKept == pending = handling /\ handed \subseteq handling

(* A client that is told the server could not take its request can retry it: its    *)
(* handler never ran.  What the handler has is undisturbed by a close.             *)
RefusedNeverRan == \A c \in Conns : answer[c] = "refused" => c \notin ran

(* A drain that does not run out of its grace has put every response on its        *)
(* socket.                                                                    *)
DrainedClean == process = "drained" => Alive = {} /\ handling = {}

(* wait_idle never sleeps past the end of the last connection. *)
WakesWhenIdle == process = "waiting" /\ live = 0 => woken

(* The receiver is in the registry and the loop that read it has ended: close       *)
(* came while it was out, or stop before the bind.                                *)
Unread == receiver = "home" /\ loop = "ended"

(* The server answers: a request is answered or its client goes, unless nobody reads it,  *)
(* and once it is stopped, or the process told to leave, the accept loop ends: finished   *)
(* resolves, wherever next_requests was.  As requests are bounded, again and again nothing  *)
(* is left of either.                                                              *)
ServerAnswers ==
    []<>(\/ Gone
         \/ /\ Unread \/ \A c \in Conns : conn[c] \notin {"sending", "queued", "taken"}
            /\ stopped \/ draining => loop = "ended")
=============================================================================
