---------------------------- MODULE MessagePorts ----------------------------
(***************************************************************************)
(* A MessagePort that travels: the port's queue in the process                 *)
(* (default-providers/src/ports.rs, under the ops of worker_ops.rs) and the      *)
(* MessagePort objects that read it one after the other, each in its agent        *)
(* (class MessagePort, prelude/channel.js).  Messages are numbered in the order   *)
(* they are posted by the peer.                                               *)
(***************************************************************************)
EXTENDS Integers, Sequences, FiniteSets

CONSTANTS
    MaxHolders, \* bound: the objects that hold the port, one after the other
    MaxPosts    \* bound: the messages posted to it

ASSUME PortAssumption == MaxHolders \in Nat \ {0} /\ MaxPosts \in Nat

VARIABLES
    posted,    \* how many messages were posted
    inbox,     \* Port.inbox
    line,      \* who asked for its lock: the first one holds it
    told,      \* parked readers that detached.notify_waiters reached
    holder,    \* the object the port belongs to: those before it are #detached
    gone,      \* the port was closed by its holder
    reader,    \* where the pump of each object is
    carries,   \* the message its recv resolved with, 0 for null
    delivered  \* the messages whose event was fired

portVars == <<posted, inbox, line, told, holder, gone, reader, carries, delivered>>

Objects == 1..MaxHolders
Messages == 1..MaxPosts

(* called: the recv op is not polled yet; queued: it waits for the lock; parked: it   *)
(* waits for a message or the notify; resolved: JavaScript has not gone on yet;      *)
(* fired: the event was; over: the pump has returned.                              *)
Pumps == {"idle", "called", "queued", "parked", "resolved", "fired", "over"}

Members(s) == {s[i] : i \in DOMAIN s}

PortTypeOK ==
    /\ posted \in 0..MaxPosts /\ inbox \in Seq(Messages) /\ line \in Seq(Objects)
    /\ told \subseteq Objects /\ holder \in Objects /\ gone \in BOOLEAN
    /\ reader \in [Objects -> Pumps] /\ carries \in [Objects -> {0} \cup Messages]
    /\ delivered \in Seq(Messages)
    /\ Members(line) = {h \in Objects : reader[h] \in {"queued", "parked"}}
    /\ \A h \in Objects : reader[h] = "parked" => h = Head(line)
    /\ \A h \in Objects : h > holder => reader[h] = "idle"

PortInit ==
    /\ posted = 0 /\ inbox = <<>> /\ line = <<>> /\ told = {} /\ holder = 1 /\ gone = FALSE
    /\ reader = [h \in Objects |-> "idle"] /\ carries = [h \in Objects |-> 0] /\ delivered = <<>>
-----------------------------------------------------------------------------
Pump(h, p) == reader' = [reader EXCEPT ![h] = p]
Carry(h, m) == carries' = [carries EXCEPT ![h] = m]

(* postMessage on the peer: after a close it goes nowhere. *)
Post ==
    /\ ~gone /\ posted < MaxPosts
    /\ posted' = posted + 1 /\ inbox' = Append(inbox, posted + 1)
    /\ UNCHANGED <<line, told, holder, gone, reader, carries, delivered>>

(* start, or onmessage: the pump calls recv. *)
StartPort(h) ==
    /\ h = holder /\ ~gone /\ reader[h] = "idle" /\ Pump(h, "called")
    /\ UNCHANGED <<posted, inbox, line, told, holder, gone, carries, delivered>>

(* The op is polled for the first time: it finds the port, and the lock free or not.  *)
Poll(h) ==
    /\ reader[h] = "called"
    /\ IF gone THEN Pump(h, "resolved") /\ UNCHANGED line
       ELSE /\ Pump(h, IF line = <<>> THEN "parked" ELSE "queued") /\ line' = Append(line, h)
    /\ UNCHANGED <<posted, inbox, told, holder, gone, carries, delivered>>

(* It is polled again when the lock has come to it; only now does it listen for the    *)
(* notify.                                                                        *)
GetLock(h) ==
    /\ reader[h] = "queued" /\ h = Head(line) /\ Pump(h, "parked")
    /\ UNCHANGED <<posted, inbox, line, told, holder, gone, carries, delivered>>

(* Fault: the lock is not passed on. *)
GetsMessageLocked(h) ==
    /\ reader[h] = "parked" /\ inbox # <<>>
    /\ Pump(h, "resolved") /\ Carry(h, Head(inbox)) /\ inbox' = Tail(inbox)
    /\ told' = told \ {h}
    /\ UNCHANGED <<posted, line, holder, gone, delivered>>

(* Either branch of the select may win when both are ready. *)
GetsMessage(h) ==
    /\ reader[h] = "parked" /\ inbox # <<>>
    /\ Pump(h, "resolved") /\ Carry(h, Head(inbox)) /\ inbox' = Tail(inbox)
    /\ line' = Tail(line) /\ told' = told \ {h}
    /\ UNCHANGED <<posted, holder, gone, delivered>>

GetsNull(h) ==
    /\ reader[h] = "parked" /\ (h \in told \/ (gone /\ inbox = <<>>))
    /\ Pump(h, "resolved") /\ line' = Tail(line) /\ told' = told \ {h}
    /\ UNCHANGED <<posted, inbox, holder, gone, carries, delivered>>

Stays(h) == h = holder /\ ~gone

(* Fault: a pump that was told to end drops its message and reads on. *)
ResumeReadsOn(h) ==
    /\ reader[h] = "resolved" /\ Carry(h, 0)
    /\ IF carries[h] = 0 THEN Pump(h, "over") /\ UNCHANGED delivered
       ELSE IF Stays(h) THEN Pump(h, "fired") /\ delivered' = Append(delivered, carries[h])
       ELSE Pump(h, "called") /\ UNCHANGED delivered
    /\ UNCHANGED <<posted, inbox, line, told, holder, gone>>

(* The pump goes on behind the await: a message it is no longer to deliver is dropped.  *)
Resume(h) ==
    /\ reader[h] = "resolved" /\ Carry(h, 0)
    /\ IF carries[h] # 0 /\ Stays(h)
       THEN Pump(h, "fired") /\ delivered' = Append(delivered, carries[h])
       ELSE Pump(h, "over") /\ UNCHANGED delivered
    /\ UNCHANGED <<posted, inbox, line, told, holder, gone>>

(* The listeners have returned, and may have transferred or closed the port. *)
Again(h) ==
    /\ reader[h] = "fired" /\ Pump(h, IF Stays(h) THEN "called" ELSE "over")
    /\ UNCHANGED <<posted, inbox, line, told, holder, gone, carries, delivered>>

NotifyWaiters == told' = told \cup {h \in Objects : reader[h] = "parked"}

(* The holder posts the port away: the object is detached and the reader notified.     *)
Transfer ==
    /\ ~gone /\ holder < MaxHolders /\ holder' = holder + 1 /\ NotifyWaiters
    /\ UNCHANGED <<posted, inbox, line, gone, reader, carries, delivered>>

ClosePort ==
    /\ ~gone /\ gone' = TRUE /\ NotifyWaiters
    /\ UNCHANGED <<posted, inbox, line, holder, reader, carries, delivered>>
-----------------------------------------------------------------------------
Pumping(h) ==
    Poll(h) \/ GetLock(h) \/ GetsMessage(h) \/ GetsNull(h) \/ Resume(h) \/ Again(h)

PortNext ==
    \/ Post \/ Transfer \/ ClosePort
    \/ \E h \in Objects : StartPort(h) \/ Pumping(h)
    \/ gone /\ (\A h \in Objects : reader[h] \in {"idle", "over"}) /\ UNCHANGED portVars

(* The agents of the objects poll their ops. *)
PortSpec == PortInit /\ [][PortNext]_portVars /\ \A h \in Objects : WF_portVars(Pumping(h))
-----------------------------------------------------------------------------
(* Events are fired in the order of the posts, and once, wherever the port goes: a     *)
(* message an earlier holder has is never delivered behind one of a later holder.       *)
InOrder == \A i, j \in DOMAIN delivered : i < j => delivered[i] < delivered[j]

(* Neither waiting nor delivered nor on its way to the listeners. *)
Lost == (1..posted) \ (Members(inbox) \cup Members(delivered) \cup {carries[h] : h \in Objects})

(* providers/src/lib.rs:2067: a transfer consumes no message that is queued.  It does: the   *)
(* reader that is left behind may take one although the notify is there, or have been     *)
(* resolved with one already, and drops it.                                            *)
NothingLost == gone \/ Lost = {}

(* What holds instead: every transfer costs one message at most, as a reader that was      *)
(* left behind reads no second one.                                                    *)
LostToTransfers == gone \/ Cardinality(Lost) <= holder - 1

(* What holds of a port at all times, part by part as above. *)
PortInv == PortTypeOK /\ InOrder /\ LostToTransfers

(* Once the last holder has started the port, it is read to the end: no reader that was   *)
(* left behind keeps the queue from it for good.                                      *)
PortDrained == <>[](reader[holder] # "idle") => <>[](inbox = <<>> \/ gone)
=============================================================================
