----------------------------- MODULE Rejections -----------------------------
(***************************************************************************)
(* Promise rejections nobody handles: the tables of OpState that V8's        *)
(* promise-reject callback fills and tick's phase 4 drains                   *)
(* (crates/engine/src/op.rs), the unhandledrejection and rejectionhandled     *)
(* events the prelude dispatches from there (prelude/globals.js), and what    *)
(* the driver hands the embedder (DriveOutcome).                             *)
(***************************************************************************)
EXTENDS Naturals

CONSTANTS
    Promises,      \* promises the program may reject, each at most once
    Collisions,    \* BOOLEAN: V8 gives them all one identity hash
    ListenerActs   \* what the events' listeners do: reject, attach, claim

ASSUME RejectionsAssumption ==
    /\ Collisions \in BOOLEAN /\ ListenerActs \subseteq {"reject", "attach", "claim"}
    /\ "none" \notin Promises

VARIABLES
    phase,      \* js: phases 1-3 of a tick; drained: phase 4; listening: in a hook
    rejected,   \* promises that are rejected
    handler,    \* promises that have a handler
    unhandled,  \* OpState.unhandled_rejections
    reported,   \* OpState.reported_rejections, identity hashes
    handledQ,   \* OpState.rejections_handled
    toAnnounce, \* the rejections this drain has still to dispatch
    toRetract,  \* the promises it has still to fire rejectionhandled for
    cur,        \* the promise whose unhandledrejection listener runs
    outcome,    \* what the embedder was given
    claimed,    \* rejections a listener claimed with preventDefault
    retracted   \* promises rejectionhandled was fired for

rejTables == <<unhandled, reported, handledQ>>
drain == <<toAnnounce, toRetract, cur>>
results == <<outcome, claimed, retracted>>
rejVars == <<phase, rejected, handler, rejTables, drain, results>>

NoPromise == "none"

(* get_identity_hash: a small random number, not an identity. *)
Key(p) == IF Collisions THEN "same" ELSE p

(* The types; the table of pending reports names only rejections that still    *)
(* lack a handler, and a listener runs for one promise at a time.             *)
RejTypeOK ==
    /\ phase \in {"js", "retracting", "announcing", "listening", "ended", "exit"}
    /\ rejected \subseteq Promises /\ handler \subseteq Promises
    /\ unhandled \subseteq rejected \ handler
    /\ reported \subseteq {Key(p) : p \in Promises} /\ handledQ \subseteq Promises
    /\ toAnnounce \subseteq rejected /\ toRetract \subseteq Promises
    /\ cur \in rejected \cup {NoPromise}
    /\ (phase = "listening" <=> cur # NoPromise)
    /\ outcome \subseteq rejected /\ claimed \subseteq rejected /\ retracted \subseteq Promises

RejInit ==
    /\ phase = "js" /\ rejected = {} /\ handler = {}
    /\ unhandled = {} /\ reported = {} /\ handledQ = {}
    /\ toAnnounce = {} /\ toRetract = {} /\ cur = NoPromise
    /\ outcome = {} /\ claimed = {} /\ retracted = {}

SameKey(S, p) == {q \in S : Key(q) = Key(p)}

JSRuns(act) == phase = "js" \/ (phase \in {"listening", "retracting"} /\ act \in ListenerActs)

(* A promise is rejected; with no handler V8 reports it and the callback       *)
(* inserts it under its hash.                                                *)
Reject(p) ==
    /\ JSRuns("reject") /\ p \notin rejected /\ rejected' = rejected \cup {p}
    /\ unhandled' = IF p \in handler THEN unhandled
                    ELSE (unhandled \ SameKey(unhandled, p)) \cup {p}
    /\ UNCHANGED <<phase, handler, reported, handledQ, drain, results>>

(* Fault: every handler that comes late retracts a report. *)
AttachAlwaysRetracts(p) ==
    /\ JSRuns("attach") /\ p \notin handler /\ handler' = handler \cup {p}
    /\ IF p \in rejected
       THEN /\ unhandled' = unhandled \ SameKey(unhandled, p)
            /\ reported' = reported \ {Key(p)} /\ handledQ' = handledQ \cup {p}
       ELSE UNCHANGED rejTables
    /\ UNCHANGED <<phase, rejected, drain, results>>

(* A first handler is attached; after the rejection V8 reports that too. *)
Attach(p) ==
    /\ JSRuns("attach") /\ p \notin handler /\ handler' = handler \cup {p}
    /\ IF p \in rejected
       THEN /\ unhandled' = unhandled \ SameKey(unhandled, p)
            /\ IF Key(p) \in reported
               THEN reported' = reported \ {Key(p)} /\ handledQ' = handledQ \cup {p}
               ELSE UNCHANGED <<reported, handledQ>>
       ELSE UNCHANGED rejTables
    /\ UNCHANGED <<phase, rejected, drain, results>>

(* Fault: the retractions stay queued. *)
DrainKeepsHandled ==
    /\ phase = "js" /\ phase' = "retracting"
    /\ toAnnounce' = unhandled /\ unhandled' = {} /\ toRetract' = {}
    /\ UNCHANGED <<rejected, handler, reported, handledQ, cur, results>>

(* take_unhandled_rejections takes both tables. *)
Drain ==
    /\ phase = "js" /\ phase' = "retracting"
    /\ toAnnounce' = unhandled /\ unhandled' = {}
    /\ toRetract' = handledQ /\ handledQ' = {}
    /\ UNCHANGED <<rejected, handler, reported, cur, results>>

(* rejectionhandled for each retraction; its listeners run meanwhile. *)
Retract(p) ==
    /\ phase = "retracting" /\ p \in toRetract
    /\ toRetract' = toRetract \ {p} /\ retracted' = retracted \cup {p}
    /\ UNCHANGED <<phase, rejected, handler, rejTables, toAnnounce, cur, outcome, claimed>>

RetractsDone ==
    /\ phase = "retracting" /\ toRetract = {} /\ phase' = "announcing"
    /\ UNCHANGED <<rejected, handler, rejTables, drain, results>>

(* unhandledrejection for one of the drained rejections, in the order of a     *)
(* hash map, up to its listener.                                             *)
Announce(p) ==
    /\ phase = "announcing" /\ p \in toAnnounce
    /\ phase' = "listening" /\ cur' = p /\ toAnnounce' = toAnnounce \ {p}
    /\ UNCHANGED <<rejected, handler, rejTables, toRetract, results>>

(* Fault: a rejection is only reported when something listens. *)
ListenerReturnsSilent(claim) ==
    /\ phase = "listening" /\ (claim => "claim" \in ListenerActs)
    /\ phase' = "announcing" /\ cur' = NoPromise
    /\ claimed' = IF claim THEN claimed \cup {cur} ELSE claimed
    /\ UNCHANGED <<rejected, handler, rejTables, toAnnounce, toRetract, outcome, retracted>>

(* The listener claims the rejection, or it is reported. *)
ListenerReturns(claim) ==
    /\ phase = "listening" /\ (claim => "claim" \in ListenerActs)
    /\ phase' = "announcing" /\ cur' = NoPromise
    /\ IF claim
       THEN claimed' = claimed \cup {cur} /\ UNCHANGED <<reported, outcome>>
       ELSE /\ reported' = reported \cup {Key(cur)} /\ outcome' = outcome \cup {cur}
            /\ UNCHANGED claimed
    /\ UNCHANGED <<rejected, handler, unhandled, handledQ, toAnnounce, toRetract, retracted>>

AnnouncesDone ==
    /\ phase = "announcing" /\ toAnnounce = {} /\ phase' = "ended"
    /\ UNCHANGED <<rejected, handler, rejTables, drain, results>>

(* The driver ticks again while other work is pending, and stops otherwise:    *)
(* rejections are not work.                                                  *)
TickAgain ==
    /\ phase = "ended" /\ phase' = "js"
    /\ UNCHANGED <<rejected, handler, rejTables, drain, results>>

Quit ==
    /\ phase = "ended" /\ phase' = "exit"
    /\ UNCHANGED <<rejected, handler, rejTables, drain, results>>

Stopped == phase = "exit" /\ UNCHANGED rejVars

RejGuest == \E p \in Promises : Reject(p) \/ Attach(p)

Loop ==
    \/ Drain \/ RetractsDone \/ AnnouncesDone \/ TickAgain \/ Quit
    \/ \E p \in Promises : Retract(p) \/ Announce(p)
    \/ \E b \in BOOLEAN : ListenerReturns(b)

RejNext == RejGuest \/ Loop \/ Stopped

RejSpec == RejInit /\ [][RejNext]_rejVars /\ WF_rejVars(Loop)

-----------------------------------------------------------------------------
(* rejectionhandled is a retraction: it is only ever fired, or about to be,    *)
(* for a promise whose rejection the embedder was given.                      *)
RetractsOnlyReports == handledQ \cup toRetract \cup retracted \subseteq outcome

(* The inductive form: a reported hash belongs to a reported promise. *)
RejectionInv ==
    /\ RetractsOnlyReports
    /\ \A p \in Promises : Key(p) \in reported => p \in outcome

(* What the embedder is given is a rejection that has no handler at that time: *)
(* a handler attached before the report revokes it.                           *)
ReportsOnlyUnhandled == [][\A p \in outcome' \ outcome : p \notin handler]_rejVars

(* A program does not end with a rejection nobody heard of: one without a      *)
(* handler was given to the embedder or claimed by a listener.                *)
NoneForgotten ==
    phase = "exit" => \A p \in rejected \ handler : p \in outcome \cup claimed

(* A handler attached to a reported promise retracts the report: again and again   *)
(* there is none whose report is still to be retracted.                         *)
LateHandlerRetracts == []<>(phase = "exit" \/ outcome \cap handler \subseteq retracted)

(* The inductive form of the two, for listeners that neither reject nor attach *)
(* and hashes that do not collide: every rejection without a handler is on its *)
(* way to the embedder, and nothing else is.                                  *)
QuietInv ==
    /\ unhandled \cup toAnnounce \subseteq rejected \ handler
    /\ cur # NoPromise => cur \notin handler
    /\ phase # "js" => unhandled = {}
    /\ phase \in {"js", "ended", "exit"} => toAnnounce = {}
    /\ \A p \in rejected \ handler :
          p \in unhandled \cup toAnnounce \cup {cur} \cup outcome \cup claimed
=============================================================================
