-------------------------- MODULE RejectionsProofs --------------------------
(***************************************************************************)
(* Theorems about Rejections for any number of promises, whose identity      *)
(* hashes do not collide.                                                   *)
(***************************************************************************)
EXTENDS Rejections, TLAPS

(* Distinct hashes: what is keyed by a hash is keyed by its promise. *)
LEMMA DistinctKeys ==
    ASSUME Collisions = FALSE
    PROVE  /\ \A p : Key(p) = p
           /\ \A S, p : S \ SameKey(S, p) = S \ {p}
<1>1. \A p : Key(p) = p
  BY DEF Key
<1> QED
  BY <1>1 DEF SameKey

(* Every step keeps the types. *)
LEMMA TypeStep == RejTypeOK /\ [RejNext]_rejVars => RejTypeOK'
<1> USE RejectionsAssumption DEF rejTables, drain, results
<1> SUFFICES ASSUME RejTypeOK, [RejNext]_rejVars PROVE RejTypeOK'
  OBVIOUS
<1>1. ASSUME NEW p \in Promises, Reject(p) PROVE RejTypeOK'
  BY <1>1 DEF Reject, RejTypeOK, SameKey
<1>2. ASSUME NEW p \in Promises, Attach(p) PROVE RejTypeOK'
  BY <1>2 DEF Attach, RejTypeOK, SameKey
<1>3. CASE Drain
  BY <1>3 DEF Drain, RejTypeOK
<1>4. ASSUME NEW p \in Promises, Retract(p) PROVE RejTypeOK'
  BY <1>4 DEF Retract, RejTypeOK
<1>5. ASSUME NEW p \in Promises, Announce(p) PROVE RejTypeOK'
  BY <1>5 DEF Announce, RejTypeOK, NoPromise
<1>6. CASE RetractsDone \/ AnnouncesDone \/ TickAgain \/ Quit
  BY <1>6 DEF RetractsDone, AnnouncesDone, TickAgain, Quit, RejTypeOK
<1>7. ASSUME NEW b \in BOOLEAN, ListenerReturns(b) PROVE RejTypeOK'
  BY <1>7 DEF ListenerReturns, RejTypeOK, NoPromise
<1>8. CASE UNCHANGED rejVars
  BY <1>8 DEF rejVars, RejTypeOK
<1> QED
  BY <1>1, <1>2, <1>3, <1>4, <1>5, <1>6, <1>7, <1>8 DEF RejNext, RejGuest, Loop, Stopped

(* The type invariant holds whatever the listeners do and the hashes are.      *)
THEOREM RejectionsType == RejSpec => []RejTypeOK
<1>1. RejInit => RejTypeOK
  BY DEF RejInit, RejTypeOK, NoPromise
<1> QED
  BY <1>1, TypeStep, PTL DEF RejSpec

-----------------------------------------------------------------------------
(* With distinct hashes a reported hash names a promise the embedder was given. *)
LEMMA RetractStep ==
    ASSUME Collisions = FALSE
    PROVE  RejTypeOK /\ RejectionInv /\ [RejNext]_rejVars => RejectionInv'
<1> USE RejectionsAssumption DEF rejTables, drain, results
<1> SUFFICES ASSUME RejTypeOK, RejectionInv, [RejNext]_rejVars PROVE RejectionInv'
  OBVIOUS
<1>k. \A p : Key(p) = p
  BY DistinctKeys
<1>1. ASSUME NEW p \in Promises, Reject(p) PROVE RejectionInv'
  BY <1>1 DEF Reject, RejectionInv, RetractsOnlyReports
<1>2. ASSUME NEW p \in Promises, Attach(p) PROVE RejectionInv'
  BY <1>2, <1>k DEF Attach, RejectionInv, RetractsOnlyReports
<1>3. CASE Drain
  BY <1>3 DEF Drain, RejectionInv, RetractsOnlyReports
<1>4. ASSUME NEW p \in Promises, Retract(p) PROVE RejectionInv'
  BY <1>4 DEF Retract, RejectionInv, RetractsOnlyReports
<1>5. ASSUME NEW p \in Promises, Announce(p) PROVE RejectionInv'
  BY <1>5 DEF Announce, RejectionInv, RetractsOnlyReports
<1>6. CASE RetractsDone \/ AnnouncesDone \/ TickAgain \/ Quit
  BY <1>6 DEF RetractsDone, AnnouncesDone, TickAgain, Quit, RejectionInv, RetractsOnlyReports
<1>7. ASSUME NEW b \in BOOLEAN, ListenerReturns(b) PROVE RejectionInv'
  BY <1>7, <1>k DEF ListenerReturns, RejectionInv, RetractsOnlyReports, RejTypeOK, NoPromise
<1>8. CASE UNCHANGED rejVars
  BY <1>8 DEF rejVars, RejectionInv, RetractsOnlyReports
<1> QED
  BY <1>1, <1>2, <1>3, <1>4, <1>5, <1>6, <1>7, <1>8 DEF RejNext, RejGuest, Loop, Stopped

(* rejectionhandled retracts only what was reported: take_unhandled_rejections *)
(* marks a hash as reported exactly when it hands the rejection out, and the   *)
(* callback queues a retraction only for a marked hash. Listeners may do       *)
(* anything.                                                                 *)
THEOREM RetractionsSound ==
    ASSUME Collisions = FALSE
    PROVE  RejSpec => []RetractsOnlyReports
<1>1. RejInit => RejectionInv
  BY DEF RejInit, RejectionInv, RetractsOnlyReports
<1>2. RejectionInv => RetractsOnlyReports
  BY DEF RejectionInv
<1> QED
  BY <1>1, <1>2, RejectionsType, RetractStep, PTL DEF RejSpec

-----------------------------------------------------------------------------
(* Listeners that only claim leave the tables alone while a drain runs, so     *)
(* QuietInv is inductive.                                                    *)
LEMMA QuietStep ==
    ASSUME Collisions = FALSE, ListenerActs \subseteq {"claim"}
    PROVE  RejTypeOK /\ QuietInv /\ [RejNext]_rejVars => QuietInv'
<1> USE RejectionsAssumption DEF rejTables, drain, results
<1> SUFFICES ASSUME RejTypeOK, QuietInv, [RejNext]_rejVars PROVE QuietInv'
  OBVIOUS
<1>k. \A S, p : S \ SameKey(S, p) = S \ {p}
  BY DistinctKeys
<1>j. \A act \in {"reject", "attach"} : JSRuns(act) => phase = "js"
  BY DEF JSRuns
<1>1. ASSUME NEW p \in Promises, Reject(p) PROVE QuietInv'
  BY <1>1, <1>k, <1>j DEF Reject, QuietInv, RejTypeOK, NoPromise
<1>2. ASSUME NEW p \in Promises, Attach(p) PROVE QuietInv'
  BY <1>2, <1>k, <1>j DEF Attach, QuietInv, RejTypeOK, NoPromise
<1>3. CASE Drain
  BY <1>3 DEF Drain, QuietInv, RejTypeOK
<1>4. ASSUME NEW p \in Promises, Retract(p) PROVE QuietInv'
  BY <1>4 DEF Retract, QuietInv
<1>5. ASSUME NEW p \in Promises, Announce(p) PROVE QuietInv'
  BY <1>5 DEF Announce, QuietInv, RejTypeOK, NoPromise
<1>6. CASE RetractsDone \/ AnnouncesDone \/ TickAgain \/ Quit
  BY <1>6 DEF RetractsDone, AnnouncesDone, TickAgain, Quit, QuietInv
<1>7. ASSUME NEW b \in BOOLEAN, ListenerReturns(b) PROVE QuietInv'
  BY <1>7 DEF ListenerReturns, QuietInv, RejTypeOK, NoPromise
<1>8. CASE UNCHANGED rejVars
  BY <1>8 DEF rejVars, QuietInv
<1> QED
  BY <1>1, <1>2, <1>3, <1>4, <1>5, <1>6, <1>7, <1>8 DEF RejNext, RejGuest, Loop, Stopped

(* The first state has nothing to report. *)
LEMMA QuietInitially == RejInit => QuietInv
  BY DEF RejInit, QuietInv, NoPromise

(* No rejection is forgotten: without a handler it waits in the table, in the  *)
(* drain or with its listener until the embedder has it or a listener claims   *)
(* it, and the table is empty whenever the loop may end.                      *)
THEOREM RejectionsHeard ==
    ASSUME Collisions = FALSE, ListenerActs \subseteq {"claim"}
    PROVE  RejSpec => []NoneForgotten
<1>1. RejTypeOK /\ QuietInv => NoneForgotten
  BY RejectionsAssumption DEF RejTypeOK, QuietInv, NoneForgotten, NoPromise
<1> QED
  BY <1>1, QuietInitially, RejectionsType, QuietStep, PTL DEF RejSpec

(* What the embedder is given had no handler: attaching one before the drain   *)
(* revokes the entry.                                                        *)
THEOREM ReportsSound ==
    ASSUME Collisions = FALSE, ListenerActs \subseteq {"claim"}
    PROVE  RejSpec => ReportsOnlyUnhandled
<1> DEFINE Sound == \A p \in outcome' \ outcome : p \notin handler
<1>1. RejTypeOK /\ QuietInv /\ [RejNext]_rejVars => [Sound]_rejVars
  <2> SUFFICES ASSUME RejTypeOK, QuietInv, RejNext PROVE Sound
    BY DEF rejVars
  <2>1. ASSUME NEW b \in BOOLEAN, ListenerReturns(b) PROVE Sound
    BY <2>1 DEF ListenerReturns, QuietInv, RejTypeOK
  <2>2. ASSUME ~ \E b \in BOOLEAN : ListenerReturns(b) PROVE outcome' = outcome
    BY <2>2 DEF RejNext, RejGuest, Loop, Stopped, Reject, Attach, Drain, Retract, Announce,
                RetractsDone, AnnouncesDone, TickAgain, Quit, results, rejVars
  <2> QED
    BY <2>1, <2>2
<1> QED
  BY <1>1, QuietInitially, RejectionsType, QuietStep, PTL DEF RejSpec, ReportsOnlyUnhandled
=============================================================================
