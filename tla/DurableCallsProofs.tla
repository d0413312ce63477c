------------------------- MODULE DurableCallsProofs -------------------------
(***************************************************************************)
(* Proofs about DurableCalls, for any workers, calls, sweeps and failures:    *)
(* the wait-for graph is exact and no calls wait in a circle, the tables and   *)
(* the mailboxes are what the calls say (CallTypesHold), and no two instances  *)
(* write one file while a sweep finds what it listed (OneWriterWhileCurrent),  *)
(* as it does when it lists one worker (InstancesHold).                       *)
(*                                                                          *)
(* As far as the graph is concerned a step is one of four kinds: a call is     *)
(* made (NewCall), it begins to wait and is recorded (Records), it moves on     *)
(* without changing that (Moves), or calls are answered (Settles).             *)
(***************************************************************************)
EXTENDS DurableCalls, FiniteSetTheorems, SequenceTheorems, TLAPS

States == {"idle", "gate"} \cup Waiting \cup Answers

(* A call that was made has a target, and was made by code that exists. *)
Books ==
    /\ made \in 0..MaxCalls /\ at \in [Calls -> States]
    /\ from \in [Calls -> Frames] /\ to \in [Calls -> Workers \cup {NoOne}]
    /\ waits \in [Workers \X Workers -> Nat]
    /\ \A c \in Calls : at[c] = "idle" <=> c > made
    /\ \A c \in Calls : c <= made => to[c] \in Workers /\ (from[c] \in Calls => from[c] <= made)
    /\ \A c \in Calls : at[c] = "gate" => Caller(c) \in Workers

(* The inductive invariant. *)
CallsInv == Books /\ WaitsExact /\ NoCircle

(* A call f makes to w, which is put at x. *)
NewCall(f, w, x) ==
    /\ made < MaxCalls /\ made' = made + 1 /\ UNCHANGED waits
    /\ from' = [from EXCEPT ![made + 1] = f] /\ to' = [to EXCEPT ![made + 1] = w]
    /\ at' = [at EXCEPT ![made + 1] = x]
    /\ \/ x = "cycle"
       \/ f = Outside /\ x \in {"found", "opening"}
       \/ x = "gate" /\ f \in Calls \cup Workers
    /\ f \in Calls => at[f] = "queued"

(* The call c, whose writes are committed, begins to wait and is in the graph. *)
Records(c, x) ==
    /\ at[c] = "gate" /\ Caller(c) \notin WaitPath(to[c]) /\ UNCHANGED <<made, from, to>>
    /\ x \in {"found", "opening"} /\ at' = [at EXCEPT ![c] = x]
    /\ waits' = [waits EXCEPT ![<<Caller(c), to[c]>>] = @ + 1]

(* No call begins or ceases to wait. *)
Moves ==
    /\ UNCHANGED <<made, from, to, waits>> /\ at' \in [Calls -> States]
    /\ \A c \in Calls : /\ at'[c] \in Waiting <=> at[c] \in Waiting
                        /\ at'[c] = "idle" <=> at[c] = "idle"
                        /\ at'[c] = "gate" => at[c] = "gate"

(* The calls of S are answered. *)
Settles(S) ==
    /\ UNCHANGED <<made, from, to>> /\ \A c \in S : at[c] \in Waiting
    /\ at' \in [Calls -> States] /\ waits' = RemoveWaits(S)
    /\ \A c \in Calls : IF c \in S THEN at'[c] \in Answers ELSE at'[c] = at[c]

-----------------------------------------------------------------------------
(* The calls are finitely many, and so are those that wait. *)
LEMMA WaitersFinite ==
    \A T : T \subseteq Calls => IsFiniteSet(T) /\ Cardinality(T) \in Nat
<1>1. IsFiniteSet(Calls)
  BY CallsAssumption, FS_Interval DEF Calls
<1> QED
  BY <1>1, FS_Subset, FS_CardinalityType

(* The code a call was made by does not change while calls and targets stay. *)
LEMMA CallerStays ==
    ASSUME UNCHANGED <<from, to>>, NEW c
    PROVE  Caller(c)' = Caller(c)
  BY DEF Caller, CodeOf

-----------------------------------------------------------------------------
(* Every step is of one of the kinds. *)
LEMMA StepKinds ==
    ASSUME Books, [Next]_vars
    PROVE  \/ \E f \in Frames, w \in Workers, x \in States : NewCall(f, w, x)
           \/ \E c \in Calls, x \in States : Records(c, x)
           \/ Moves
           \/ \E S \in SUBSET Calls : Settles(S)
<1> USE DEF States, Waiting, Answers
<1>1. ASSUME NEW f \in Frames, NEW w \in Workers, MakeCall(f, w)
      PROVE  \E x \in States : NewCall(f, w, x)
  BY <1>1, CallsAssumption DEF MakeCall, NewCall, Materialize, Frames, Runs, Running, Outside, Calls
<1>2. ASSUME NEW c \in Calls, Leave(c)
      PROVE  (\E x \in States : Records(c, x)) \/ Moves
  BY <1>2 DEF Books, Leave, Materialize, Records, Moves, callVars
<1>3. ASSUME NEW c \in Calls, LeaveFails(c)
      PROVE  Moves
  BY <1>3 DEF Books, LeaveFails, Moves, callVars
<1>4. ASSUME NEW c \in Calls, NEW r \in Answers, Refused(c, r), at[c] \in Waiting,
             UNCHANGED <<made, from, to>>
      PROVE  Moves \/ Settles({c})
  BY <1>4 DEF Books, Refused, Answer, Materialize, Moves, Settles
<1>5. ASSUME NEW c \in Calls, Enqueue(c)
      PROVE  Moves \/ Settles({c})
  BY <1>4, <1>5 DEF Books, Enqueue, Moves
<1>6. ASSUME NEW c \in Calls, Return(c)
      PROVE  Moves
  BY <1>6 DEF Books, Return, Running, Moves, callVars
<1>7. ASSUME NEW c \in Calls, NEW r \in Answers, Throw(c, r)
      PROVE  Moves \/ Settles({c})
  BY <1>4, <1>7 DEF Throw, Running
<1>8. ASSUME NEW c \in Calls, NEW r \in Answers, Release(c, r)
      PROVE  Settles({c})
  BY <1>8 DEF Books, Release, Answer, Settles, callVars
<1>9. ASSUME NEW w \in Workers, NEW r \in Answers, MaterializeFails(w, r), UNCHANGED <<made, from, to>>
      PROVE  Settles(Opening(w))
  BY <1>9 DEF Books, MaterializeFails, Opening, Settles
<1>10. ASSUME NEW w \in Workers, Swept(w)
       PROVE  Moves \/ Settles(Opening(w))
  BY <1>9, <1>10 DEF Books, Swept, Moves, callVars
<1>11. ASSUME NEW w \in Workers, OpenFails(w) \/ \E r \in Answers : StartFails(w, r)
       PROVE  Settles(Opening(w))
  BY <1>9, <1>11 DEF OpenFails, StartFails, callVars
<1>12. ASSUME NEW w \in Workers, Started(w)
       PROVE  Moves
  BY <1>12 DEF Books, Started, Opening, Moves, callVars
<1>13. ASSUME UNCHANGED <<callVars, at, waits>>
       PROVE  Moves
  BY <1>13 DEF Books, Moves, callVars
<1>14. ASSUME NEW w \in Workers, Registry(w) \/ Sweep(w) \/ Open(w)
       PROVE  Moves
  BY <1>13, <1>14 DEF Registry, Sweep, Open
<1>15. ASSUME NEW e \in Instances, NEW end \in {"closed", "broken"}, Close(e, end)
       PROVE  Moves
  BY <1>13, <1>15 DEF Close
<1>16. \A w \in Workers : Opening(w) \in SUBSET Calls
  BY DEF Opening
<1>17. CASE UNCHANGED vars
  BY <1>13, <1>17 DEF vars
<1>18. CASE Code
  BY <1>1, <1>18 DEF Code
<1>19. CASE Calling
  BY <1>2, <1>3, <1>5, <1>6, <1>7, <1>8, <1>19 DEF Calling
<1>20. CASE Materializing
  BY <1>10, <1>11, <1>12, <1>14, <1>15, <1>16, <1>20 DEF Materializing
<1> QED
  BY <1>17, <1>18, <1>19, <1>20 DEF Next

-----------------------------------------------------------------------------
(* A call that is made leaves the others, and the code they are of, alone. *)
LEMMA OthersStay ==
    ASSUME Books, NEW f \in Frames, NEW w \in Workers, NEW x \in States, NewCall(f, w, x),
           NEW d \in Calls, d # made + 1
    PROVE  /\ from'[d] = from[d] /\ to'[d] = to[d] /\ at'[d] = at[d]
           /\ d <= made => Caller(d)' = Caller(d)
<1>1. /\ from'[d] = from[d] /\ to'[d] = to[d] /\ at'[d] = at[d]
  BY DEF Books, NewCall
<1>2. ASSUME d <= made
      PROVE  Caller(d)' = Caller(d)
  <2>1. CASE from[d] \in Calls
    <3>1. from[d] # made + 1
      BY <1>2, <2>1 DEF Books, Calls
    <3>2. to'[from[d]] = to[from[d]]
      BY <3>1, <2>1 DEF Books, NewCall
    <3> QED
      BY <1>1, <3>2 DEF Caller, CodeOf
  <2>2. CASE from[d] = Outside \/ from[d] \in Workers
    BY <1>1, <2>2 DEF Caller, CodeOf
  <2> QED
    BY <2>1, <2>2 DEF Books, Frames
<1> QED
  BY <1>1, <1>2

(* A call that is made is entered in the books. *)
LEMMA BooksNewCall ==
    ASSUME Books, NEW f \in Frames, NEW w \in Workers, NEW x \in States, NewCall(f, w, x)
    PROVE  Books'
<1> DEFINE n == made + 1
<1>1. n \in Calls /\ made \in Nat
  BY CallsAssumption DEF Books, NewCall, Calls
<1>2. /\ made' \in 0..MaxCalls /\ at' \in [Calls -> States] /\ from' \in [Calls -> Frames]
      /\ to' \in [Calls -> Workers \cup {NoOne}] /\ waits' \in [Workers \X Workers -> Nat]
  BY <1>1, CallsAssumption DEF Books, NewCall
<1>3. \A c \in Calls : at'[c] = "idle" <=> c > made'
  BY <1>1 DEF Books, NewCall, Calls
<1>4. ASSUME NEW c \in Calls, c <= made'
      PROVE  to'[c] \in Workers /\ (from'[c] \in Calls => from'[c] <= made')
  <2>1. CASE c = n
    <3>1. to'[c] = w /\ from'[c] = f
      BY <2>1, <1>1 DEF Books, NewCall
    <3>2. f \in Calls => f <= made'
      BY <1>1 DEF NewCall, Books, Calls
    <3> QED
      BY <3>1, <3>2
  <2>2. CASE c # n
    BY <2>2, <1>1, <1>4, OthersStay DEF Books, NewCall, Calls
  <2> QED
    BY <2>1, <2>2
<1>5. ASSUME NEW c \in Calls, at'[c] = "gate"
      PROVE  Caller(c)' \in Workers
  <2>1. CASE c = n
    <3>1. from'[c] = f /\ f \in Calls \cup Workers /\ (f \in Calls => at[f] = "queued")
      BY <1>1, <1>5, <2>1 DEF Books, NewCall
    <3>2. CASE f \in Calls
      <4>1. f <= made /\ f # n
        BY <1>1, <3>1, <3>2 DEF Books, Calls
      <4>2. to'[f] \in Workers
        BY <1>4, <3>2, <4>1, <1>1 DEF NewCall, Calls
      <4>3. f # Outside
        BY <3>2 DEF Calls, Outside
      <4> QED
        BY <3>1, <4>2, <4>3 DEF Caller, CodeOf
    <3>3. CASE f \in Workers
      BY <3>1, <3>3, CallsAssumption DEF Caller, CodeOf, Outside
    <3> QED
      BY <3>1, <3>2, <3>3
  <2>2. CASE c # n
    <3>1. at[c] = "gate" /\ c <= made
      BY <1>1, <1>5, <2>2, OthersStay DEF Books, Calls
    <3> QED
      BY <2>2, <3>1, OthersStay DEF Books
  <2> QED
    BY <2>1, <2>2
<1> QED
  BY <1>2, <1>3, <1>4, <1>5 DEF Books

(* Which calls wait, and on whom, is untouched by a call that is made: it waits    *)
(* only if no worker made it.                                                 *)
LEMMA WaitersNewCall ==
    ASSUME Books, NEW f \in Frames, NEW w \in Workers, NEW x \in States, NewCall(f, w, x),
           NEW u \in Workers, NEW v \in Workers
    PROVE  Waiters(u, v)' = Waiters(u, v)
<1>0. PICK n \in Calls : n = made + 1
  BY CallsAssumption DEF Books, NewCall, Calls
<1>1. made \in Nat /\ at[n] = "idle"
  BY <1>0, CallsAssumption DEF Books, NewCall, Calls
<1>2. ASSUME NEW d \in Calls, d # n
      PROVE  d \in Waiters(u, v)' <=> d \in Waiters(u, v)
  BY <1>0, <1>2, OthersStay DEF Books, Waiters, Waiting, Calls
<1>3. n \notin Waiters(u, v)
  BY <1>1 DEF Waiters, Waiting
<1>4. ASSUME at'[n] \in Waiting
      PROVE  Caller(n)' = NoOne
  <2>1. f = Outside
    BY <1>0, <1>4 DEF Books, NewCall, Waiting
  <2>2. from'[n] = f
    BY <1>0 DEF Books, NewCall
  <2> QED
    BY <2>1, <2>2, CallsAssumption DEF Caller, CodeOf, Outside
<1>5. n \notin Waiters(u, v)'
  BY <1>4, CallsAssumption DEF Waiters
<1>6. Waiters(u, v) \subseteq Calls /\ Waiters(u, v)' \subseteq Calls
  BY DEF Waiters
<1> QED
  BY <1>2, <1>3, <1>5, <1>6

(* Without new waiters there is no new circle. *)
LEMMA FewerWaiters ==
    ASSUME NoCircle, \A u, v \in Workers : Waiters(u, v)' # {} => Waiters(u, v) # {}
    PROVE  NoCircle'
<1>1. SUFFICES ASSUME NEW S \in SUBSET Workers,
                      \A u \in S : \E v \in S : Waiters(u, v)' # {}
               PROVE  S = {}
  BY DEF NoCircle
<1>2. \A u \in S : \E v \in S : Waiters(u, v) # {}
  BY <1>1
<1> QED
  BY <1>2 DEF NoCircle

(* The graph stays as it is when the waiters do. *)
LEMMA SameGraph ==
    ASSUME WaitsExact, NoCircle, UNCHANGED waits,
           \A u, v \in Workers : Waiters(u, v)' = Waiters(u, v)
    PROVE  WaitsExact' /\ NoCircle'
<1>1. WaitsExact'
  BY DEF WaitsExact
<1>2. NoCircle'
  BY FewerWaiters
<1> QED
  BY <1>1, <1>2

(* A call that moves on waits as before, and on the same worker. *)
LEMMA MovesKeeps ==
    ASSUME CallsInv, Moves
    PROVE  CallsInv'
<1>1. \A c : Caller(c)' = Caller(c)
  BY CallerStays DEF Moves
<1>2. \A u, v \in Workers : Waiters(u, v)' = Waiters(u, v)
  BY <1>1 DEF Moves, Waiters
<1>3. Books'
  BY <1>1 DEF CallsInv, Books, Moves
<1> QED
  BY <1>2, <1>3, SameGraph DEF CallsInv, Moves

(* Answers take away waiters and edges alike. *)
LEMMA SettlesKeeps ==
    ASSUME CallsInv, NEW S \in SUBSET Calls, Settles(S)
    PROVE  CallsInv'
<1>1. \A c : Caller(c)' = Caller(c)
  BY CallerStays DEF Settles
<1>2. ASSUME NEW u \in Workers, NEW v \in Workers
      PROVE  /\ Waiters(u, v)' = Waiters(u, v) \ Held(S, u, v)
             /\ Held(S, u, v) \subseteq Waiters(u, v)
             /\ Waiters(u, v) \subseteq Calls
  BY <1>1 DEF Settles, Waiters, Held, Waiting, Answers
<1>3. ASSUME NEW u \in Workers, NEW v \in Workers
      PROVE  /\ waits'[<<u, v>>] = Cardinality(Waiters(u, v)')
             /\ waits'[<<u, v>>] \in Nat
  <2>1. /\ IsFiniteSet(Waiters(u, v)) /\ IsFiniteSet(Held(S, u, v))
        /\ IsFiniteSet(Waiters(u, v)') /\ Cardinality(Waiters(u, v)') \in Nat
    BY <1>2, WaitersFinite
  <2>2. Waiters(u, v) \cap Held(S, u, v) = Held(S, u, v)
    BY <1>2
  <2>3. Cardinality(Waiters(u, v)')
            = Cardinality(Waiters(u, v)) - Cardinality(Held(S, u, v))
    BY <1>2, <2>1, <2>2, FS_Difference
  <2>4. waits'[<<u, v>>] = waits[<<u, v>>] - Cardinality(Held(S, u, v))
    BY DEF Settles, RemoveWaits
  <2>5. waits[<<u, v>>] = Cardinality(Waiters(u, v))
    BY DEF CallsInv, WaitsExact
  <2> QED
    BY <2>1, <2>3, <2>4, <2>5
<1>4. waits' \in [Workers \X Workers -> Nat]
  <2> DEFINE g(e) == waits[e] - Cardinality(Held(S, e[1], e[2]))
  <2>1. waits' = [e \in Workers \X Workers |-> g(e)]
    BY DEF Settles, RemoveWaits
  <2>2. ASSUME NEW e \in Workers \X Workers
        PROVE  g(e) \in Nat
    <3>1. PICK u \in Workers, v \in Workers : e = <<u, v>>
      OBVIOUS
    <3>2. waits'[e] \in Nat
      BY <1>3, <3>1
    <3> QED
      BY <2>1, <3>2
  <2> HIDE DEF g
  <2> QED
    BY <2>1, <2>2
<1>5. Books'
  BY <1>1, <1>4 DEF CallsInv, Books, Settles, Waiting, Answers
<1>6. NoCircle'
  BY <1>2, FewerWaiters DEF CallsInv
<1> QED
  BY <1>3, <1>5, <1>6 DEF CallsInv, WaitsExact

(* A call that is made does not touch the graph. *)
LEMMA NewCallKeeps ==
    ASSUME CallsInv, NEW f \in Frames, NEW w \in Workers, NEW x \in States, NewCall(f, w, x)
    PROVE  CallsInv'
<1>1. \A u, v \in Workers : Waiters(u, v)' = Waiters(u, v)
  BY WaitersNewCall DEF CallsInv
<1>2. UNCHANGED waits
  BY DEF NewCall
<1> QED
  BY <1>1, <1>2, SameGraph, BooksNewCall DEF CallsInv

(* The heart of it: a call that begins to wait adds one edge to the graph, from   *)
(* a worker its target does not reach, and so closes no circle.                 *)
LEMMA RecordsKeeps ==
    ASSUME CallsInv, NEW c \in Calls, NEW x \in States, Records(c, x)
    PROVE  CallsInv'
<1> DEFINE src == Caller(c)
           dst == to[c]
           R == WaitPath(dst)
<1>1. \A d : Caller(d)' = Caller(d)
  BY CallerStays DEF Records
<1>2. src \in Workers /\ dst \in Workers
  <2>1. c <= made
    BY DEF CallsInv, Books, Records, Calls
  <2> QED
    BY <2>1 DEF CallsInv, Books, Records
<1>3. ASSUME NEW u \in Workers, NEW v \in Workers
      PROVE  /\ Waiters(u, v)' = IF u = src /\ v = dst THEN Waiters(u, v) \cup {c}
                                                       ELSE Waiters(u, v)
             /\ c \notin Waiters(u, v)
             /\ IsFiniteSet(Waiters(u, v)) /\ Cardinality(Waiters(u, v)) \in Nat
             /\ waits[<<u, v>>] > 0 <=> Waiters(u, v) # {}
  <2>1. at' = [at EXCEPT ![c] = x] /\ x \in Waiting /\ at[c] \notin Waiting /\ to' = to
    BY DEF Records, Waiting
  <2>2. /\ Waiters(u, v)' = IF u = src /\ v = dst THEN Waiters(u, v) \cup {c}
                                                  ELSE Waiters(u, v)
        /\ c \notin Waiters(u, v) /\ Waiters(u, v) \subseteq Calls
    BY <1>1, <2>1 DEF Waiters, CallsInv, Books
  <2>3. IsFiniteSet(Waiters(u, v)) /\ Cardinality(Waiters(u, v)) \in Nat
    BY <2>2, WaitersFinite
  <2>4. Cardinality(Waiters(u, v)) = 0 <=> Waiters(u, v) = {}
    BY <2>3, FS_EmptySet
  <2> QED
    BY <2>2, <2>3, <2>4 DEF CallsInv, WaitsExact
<1>4. ASSUME NEW u \in Workers, NEW v \in Workers
      PROVE  waits'[<<u, v>>] = Cardinality(Waiters(u, v)')
  <2>1. waits'[<<u, v>>] = IF u = src /\ v = dst THEN waits[<<u, v>>] + 1 ELSE waits[<<u, v>>]
    BY <1>2 DEF Records, CallsInv, Books
  <2>2. waits[<<u, v>>] = Cardinality(Waiters(u, v))
    BY DEF CallsInv, WaitsExact
  <2>3. Cardinality(Waiters(u, v) \cup {c}) = Cardinality(Waiters(u, v)) + 1
    BY <1>3, FS_AddElement
  <2> QED
    BY <1>3, <2>1, <2>2, <2>3
<1>5. Books'
  <2>1. waits' \in [Workers \X Workers -> Nat]
    BY <1>2 DEF Records, CallsInv, Books
  <2> QED
    BY <1>1, <2>1 DEF Records, CallsInv, Books, States
<1>6. dst \in R /\ src \notin R /\ R \subseteq Workers
  BY <1>2 DEF Records, WaitPath
<1>7. ASSUME NEW u \in R, NEW v \in Workers, Waiters(u, v) # {}
      PROVE  v \in R
  <2>1. waits[<<u, v>>] > 0
    BY <1>3, <1>6, <1>7
  <2> QED
    BY <2>1 DEF WaitPath, Closed
<1>8. ASSUME NEW S \in SUBSET Workers, \A u \in S : \E v \in S : Waiters(u, v)' # {}
      PROVE  S = {}
  <2>1. \A u \in S : \E v \in S : Waiters(u, v) # {} \/ (u = src /\ v = dst)
    BY <1>3, <1>8
  <2>2. \A u \in S \cap R : \E v \in S \cap R : Waiters(u, v) # {}
    BY <1>6, <1>7, <2>1
  <2>3. S \cap R = {}
    <3>1. S \cap R \in SUBSET Workers
      OBVIOUS
    <3> QED
      BY <2>2, <3>1 DEF CallsInv, NoCircle
  <2>4. \A u \in S : \E v \in S : Waiters(u, v) # {}
    BY <1>6, <2>1, <2>3
  <2> QED
    BY <2>4 DEF CallsInv, NoCircle
<1>9. NoCircle'
  BY <1>8 DEF NoCircle
<1> QED
  BY <1>4, <1>5, <1>9 DEF CallsInv, WaitsExact

-----------------------------------------------------------------------------
(* The invariant holds at first, and every step keeps it. *)
LEMMA CallsInvInit ==
    ASSUME Init
    PROVE  CallsInv
<1>1. Books
  BY CallsAssumption DEF Init, Books, Calls, States, Frames
<1>2. \A u, v \in Workers : Waiters(u, v) = {}
  BY DEF Init, Waiters, Waiting
<1>3. WaitsExact
  BY <1>2, FS_EmptySet DEF Init, WaitsExact
<1>4. NoCircle
  BY <1>2 DEF NoCircle
<1> QED
  BY <1>1, <1>3, <1>4 DEF CallsInv

(* Whatever kind a step is of, the graph stays exact and without a circle. *)
LEMMA CallsInvStep == CallsInv /\ [Next]_vars => CallsInv'
<1> SUFFICES ASSUME CallsInv, [Next]_vars
             PROVE  CallsInv'
  OBVIOUS
<1>1. Books
  BY DEF CallsInv
<1> QED
  BY <1>1, StepKinds, NewCallKeeps, RecordsKeeps, MovesKeeps, SettlesKeeps

(* For any workers, calls and failures (WaitInv): the wait-for graph that the      *)
(* references keep counts exactly the calls that wait, and no calls wait on each  *)
(* other in a circle, although each worker's code only answers when its own calls *)
(* are answered.                                                              *)
THEOREM NoCircularWait == Spec => []WaitInv
  BY CallsInvInit, CallsInvStep, PTL DEF Spec, CallsInv, WaitInv

-----------------------------------------------------------------------------
(* The members of a sequence; and that none is in it twice. *)
Elements(s) == {s[i] : i \in DOMAIN s}
Once(s) == \A i, j \in DOMAIN s : s[i] = s[j] => i = j

(* One more at the end of a sequence, and its first taken off. *)
LEMMA Appended ==
    ASSUME NEW S, NEW s \in Seq(S), NEW x \in S
    PROVE  /\ Append(s, x) \in Seq(S) /\ Elements(Append(s, x)) = Elements(s) \cup {x}
           /\ Len(Append(s, x)) = Len(s) + 1 /\ Append(s, x) # <<>>
           /\ Once(s) /\ x \notin Elements(s) => Once(Append(s, x))
<1>1. /\ Append(s, x) \in Seq(S) /\ Len(Append(s, x)) = Len(s) + 1 /\ Len(s) \in Nat
      /\ \A i \in 1 .. Len(s) : Append(s, x)[i] = s[i]
      /\ Append(s, x)[Len(s) + 1] = x
  OBVIOUS
<1> DEFINE a == Append(s, x)
<1> HIDE DEF a
<1>2. DOMAIN a = 1 .. Len(s) + 1 /\ DOMAIN s = 1 .. Len(s)
  BY <1>1 DEF a
<1>3. /\ \A i \in DOMAIN s : i \in DOMAIN a /\ a[i] = s[i] /\ i # Len(s) + 1
      /\ Len(s) + 1 \in DOMAIN a /\ a[Len(s) + 1] = x
      /\ \A i \in DOMAIN a : i \in DOMAIN s \/ i = Len(s) + 1
  BY <1>1, <1>2 DEF a
<1>4. Elements(a) = Elements(s) \cup {x}
  BY <1>3 DEF Elements
<1>5. Once(s) /\ x \notin Elements(s) => Once(a)
  BY <1>3 DEF Elements, Once
<1>6. a # <<>>
  BY <1>1 DEF a
<1> QED
  BY <1>1, <1>4, <1>5, <1>6 DEF a

(* What a sequence that holds nothing twice holds without its head. *)
LEMMA Tails ==
    ASSUME NEW S, NEW s \in Seq(S), s # <<>>, Once(s)
    PROVE  /\ Head(s) \in Elements(s) /\ Head(s) \in S
           /\ Tail(s) \in Seq(S) /\ Once(Tail(s))
           /\ Elements(Tail(s)) = Elements(s) \ {Head(s)}
<1> DEFINE t == Tail(s)
<1>1. /\ t \in Seq(S) /\ Len(t) = Len(s) - 1 /\ Len(s) \in Nat \ {0} /\ Head(s) = s[1]
      /\ \A i \in 1 .. Len(s) - 1 : t[i] = s[i + 1]
  OBVIOUS
<1>2. DOMAIN t = 1 .. Len(s) - 1 /\ DOMAIN s = 1 .. Len(s)
  BY <1>1
<1>3. Tail(s) = t
  OBVIOUS
<1> HIDE DEF t
<1>4. /\ \A i \in DOMAIN t : i \in Nat /\ i + 1 \in DOMAIN s /\ t[i] = s[i + 1] /\ i + 1 # 1
      /\ \A i \in DOMAIN s : i # 1 => i - 1 \in DOMAIN t /\ t[i - 1] = s[i]
      /\ 1 \in DOMAIN s /\ s[1] \in S
  BY <1>1, <1>2
<1>5. Once(t)
  BY <1>4 DEF Once
<1>6. Elements(t) = Elements(s) \ {s[1]}
  BY <1>4 DEF Once, Elements
<1>7. Head(s) \in Elements(s)
  BY <1>1, <1>4 DEF Elements
<1>8. Elements(Tail(s)) = Elements(s) \ {Head(s)} /\ Once(Tail(s)) /\ Tail(s) \in Seq(S)
  BY <1>1, <1>3, <1>5, <1>6
<1>9. Head(s) \in S
  BY <1>1, <1>4
<1> QED
  BY <1>7, <1>8, <1>9
-----------------------------------------------------------------------------
(* The calls that were given an instance. *)
HasInstance == {"found", "queued", "gating"}

(* A call that was given an instance has one; the mailboxes hold the calls that are    *)
(* queued, each once; who starts has an instance, and who sweeps something to sweep.   *)
Boxes ==
    /\ \A c \in Calls : at[c] \in HasInstance => inst[c] \in 1..MaxLife
    /\ \A e \in Instances :
          Once(mail[e]) /\ Elements(mail[e]) = {c \in Calls : at[c] = "queued" /\ Box(c) = e}
    /\ \A w \in Workers : (m[w] = "start" => life[w] # 0) /\ (m[w] = "sweep" => sweep[w] # <<>>)

(* What is recorded of a call has its type. *)
CallFields ==
    /\ chain \in [Calls -> SUBSET Workers] /\ again \in [Calls -> BOOLEAN]
    /\ inst \in [Calls -> 0..MaxLife]

(* The inductive invariant of the types: the mailboxes are what the calls say. *)
TypeInv == CallsInv /\ CallFields /\ InstanceTypes /\ Boxes
-----------------------------------------------------------------------------
(* The queues stay while nobody joins or leaves one. *)
LEMMA SameBoxes ==
    ASSUME Boxes, mail' = mail,
           \A c \in Calls : at'[c] = "queued" <=> at[c] = "queued",
           \A c \in Calls : at[c] = "queued" => inst'[c] = inst[c] /\ to'[c] = to[c],
           \A c \in Calls : at'[c] \in HasInstance => inst'[c] \in 1..MaxLife,
           \A w \in Workers : (m'[w] = "start" => life'[w] # 0) /\ (m'[w] = "sweep" => sweep'[w] # <<>>)
    PROVE  Boxes'
<1>1. ASSUME NEW e \in Instances
      PROVE  Once(mail'[e]) /\ Elements(mail'[e]) = {c \in Calls : at'[c] = "queued" /\ Box(c)' = e}
  BY DEF Boxes, Box
<1> QED
  BY <1>1 DEF Boxes, Once, Elements

(* A call is given the live instance, or awaits one. *)
LEMMA MaterializeIs ==
    ASSUME InstanceTypes, at \in [Calls -> States], inst \in [Calls -> 0..MaxLife],
           NEW c \in Calls, NEW w \in Workers, Materialize(c, w)
    PROVE  /\ at' \in [Calls -> States] /\ at'[c] \in {"found", "opening"}
           /\ \A d \in Calls \ {c} : at'[d] = at[d] /\ inst'[d] = inst[d]
           /\ inst' \in [Calls -> 0..MaxLife]
           /\ at'[c] = "found" => inst'[c] \in 1..MaxLife
           /\ m' \in [Workers -> {"none", "registry", "behind", "sweep", "open", "start"}]
           /\ \A v \in Workers : m'[v] = m[v] \/ m'[v] = "registry"
<1>0. live[w] \in 0..MaxLife /\ MaxLife \in Nat
  BY CallsAssumption DEF InstanceTypes, CallsAssumption
<1>1. CASE live[w] # 0 /\ st[<<w, live[w]>>] \notin Shut
  <2>1. at' = [at EXCEPT ![c] = "found"] /\ inst' = [inst EXCEPT ![c] = live[w]] /\ m' = m
    BY <1>1 DEF Materialize
  <2>2. "found" \in States /\ m \in [Workers -> {"none", "registry", "behind", "sweep", "open", "start"}]
    BY DEF States, Waiting, InstanceTypes
  <2>3. live[w] \in 1..MaxLife
    BY <1>0, <1>1
  <2> QED
    BY <1>0, <2>1, <2>2, <2>3
<1>2. CASE ~(live[w] # 0 /\ st[<<w, live[w]>>] \notin Shut)
  <2>1. at' = [at EXCEPT ![c] = "opening"] /\ inst' = inst
        /\ m' \in {m, [m EXCEPT ![w] = "registry"]}
    BY <1>2 DEF Materialize
  <2>2. "opening" \in States /\ m \in [Workers -> {"none", "registry", "behind", "sweep", "open", "start"}]
    BY DEF States, Waiting, InstanceTypes
  <2> QED
    BY <2>1, <2>2
<1> QED
  BY <1>1, <1>2

(* The facts about types, one by one. *)
LEMMA TypeFacts ==
    ASSUME TypeInv
    PROVE  /\ at \in [Calls -> States] /\ to \in [Calls -> Workers \cup {NoOne}]
           /\ inst \in [Calls -> 0..MaxLife] /\ made \in Nat /\ MaxLife \in Nat
           /\ chain \in [Calls -> SUBSET Workers] /\ again \in [Calls -> BOOLEAN]
           /\ \A c \in Calls : at[c] # "idle" => to[c] \in Workers
           /\ \A c \in Calls : at[c] \in HasInstance =>
                 inst[c] \in 1..MaxLife /\ Box(c) \in Instances
           /\ \A w \in Workers : life[w] \in 0..MaxLife /\ live[w] \in 0..MaxLife
           /\ \A e \in Instances : mail[e] \in Seq(Calls)
<1>1. \A c \in Calls : at[c] # "idle" => to[c] \in Workers
  BY CallsAssumption DEF TypeInv, CallsInv, Books, Calls, CallsAssumption
<1>2. \A c \in Calls : at[c] \in HasInstance => inst[c] \in 1..MaxLife /\ Box(c) \in Instances
  BY <1>1 DEF TypeInv, Boxes, Box, Instances, HasInstance
<1> QED
  BY <1>1, <1>2, CallsAssumption
  DEF CallsAssumption, TypeInv, CallsInv, Books, CallFields, InstanceTypes, Calls

(* A call is made: it is refused, waits at its caller's gate, or is materialized. *)
LEMMA MakeCallKeeps ==
    ASSUME TypeInv, NEW f \in Frames, NEW w \in Workers, MakeCall(f, w)
    PROVE  CallFields' /\ InstanceTypes' /\ Boxes'
<1> DEFINE c == made + 1
<1>0. c \in Calls /\ at[c] = "idle"
  BY CallsAssumption DEF MakeCall, TypeInv, CallsInv, Books, Calls, CallsAssumption
<1>1. /\ to' = [to EXCEPT ![c] = w] /\ chain' = [chain EXCEPT ![c] = ChainOf(f)]
      /\ UNCHANGED <<again, waits, behind, sweep, instVars, mail>>
  BY DEF MakeCall
<1>2. ChainOf(f) \subseteq Workers
  <2>1. CASE f = Outside
    BY <2>1 DEF ChainOf
  <2>2. CASE f # Outside /\ f \in Workers
    BY <2>2 DEF ChainOf
  <2>3. CASE f # Outside /\ f \notin Workers
    <3>1. f \in Calls /\ Running(f)
      BY <2>3 DEF Frames, MakeCall, Runs
    <3>2. to[f] \in Workers /\ chain[f] \subseteq Workers
      BY <3>1, TypeFacts DEF Running
    <3> QED
      BY <2>3, <3>2 DEF ChainOf
  <2> QED
    BY <2>1, <2>2, <2>3
<1>3. \/ at' = [at EXCEPT ![c] = "cycle"] /\ UNCHANGED <<inst, m>>
      \/ Materialize(c, w)
      \/ at' = [at EXCEPT ![c] = "gate"] /\ UNCHANGED <<inst, m>>
  BY DEF MakeCall
<1>4. /\ inst' \in [Calls -> 0..MaxLife]
      /\ m' \in [Workers -> {"none", "registry", "behind", "sweep", "open", "start"}]
      /\ \A v \in Workers : m'[v] = m[v] \/ m'[v] = "registry"
      /\ \A d \in Calls \ {c} : at'[d] = at[d] /\ inst'[d] = inst[d]
      /\ at'[c] \in {"cycle", "gate", "opening", "found"}
      /\ at'[c] = "found" => inst'[c] \in 1..MaxLife
  <2>1. InstanceTypes /\ at \in [Calls -> States] /\ inst \in [Calls -> 0..MaxLife]
    BY TypeFacts DEF TypeInv
  <2>2. CASE Materialize(c, w)
    BY <1>0, <2>1, <2>2, MaterializeIs
  <2>3. CASE at' \in {[at EXCEPT ![c] = "cycle"], [at EXCEPT ![c] = "gate"]} /\ UNCHANGED <<inst, m>>
    BY <1>0, <2>1, <2>3 DEF InstanceTypes
  <2> QED
    BY <1>3, <2>2, <2>3
<1> HIDE DEF c
<1>5. CallFields'
  BY <1>0, <1>1, <1>2, <1>4 DEF TypeInv, CallFields
<1>6. InstanceTypes'
  BY <1>1, <1>4 DEF TypeInv, InstanceTypes, instVars
<1>7. Boxes'
  <2>1. \A d \in Calls : at'[d] = "queued" <=> at[d] = "queued"
    BY <1>0, <1>4
  <2>2. \A d \in Calls : at[d] = "queued" => inst'[d] = inst[d] /\ to'[d] = to[d]
    BY <1>0, <1>1, <1>4, TypeFacts
  <2>3. \A d \in Calls : at'[d] \in HasInstance => inst'[d] \in 1..MaxLife
    BY <1>0, <1>4 DEF TypeInv, Boxes, HasInstance
  <2> QED
    BY <1>1, <1>4, <2>1, <2>2, <2>3, SameBoxes DEF TypeInv, Boxes, instVars
<1> QED
  BY <1>5, <1>6, <1>7

(* The call leaves its gate, or the instance refuses it: it is given another, awaits one   *)
(* or is answered.                                                                    *)
LEMMA OneMoves ==
    ASSUME TypeInv, NEW c \in Calls, at[c] \notin {"idle", "queued"},
           UNCHANGED <<made, from, to, chain, behind, sweep, instVars, mail>>,
           again' \in [Calls -> BOOLEAN],
           \/ Materialize(c, to[c])
           \/ (\E x \in {"cycle", "failed", "done", "closed"} : at' = [at EXCEPT ![c] = x])
              /\ UNCHANGED <<inst, m>>
    PROVE  CallFields' /\ InstanceTypes' /\ Boxes'
<1>0. to[c] \in Workers /\ InstanceTypes /\ at \in [Calls -> States] /\ inst \in [Calls -> 0..MaxLife]
  BY TypeFacts DEF TypeInv
<1>1. /\ inst' \in [Calls -> 0..MaxLife]
      /\ m' \in [Workers -> {"none", "registry", "behind", "sweep", "open", "start"}]
      /\ \A v \in Workers : m'[v] = m[v] \/ m'[v] = "registry"
      /\ \A d \in Calls \ {c} : at'[d] = at[d] /\ inst'[d] = inst[d]
      /\ at'[c] \in {"cycle", "failed", "done", "closed", "opening", "found"}
      /\ at'[c] = "found" => inst'[c] \in 1..MaxLife
  <2>1. CASE Materialize(c, to[c])
    BY <1>0, <2>1, MaterializeIs
  <2>2. CASE (\E x \in {"cycle", "failed", "done", "closed"} : at' = [at EXCEPT ![c] = x])
             /\ UNCHANGED <<inst, m>>
    BY <1>0, <2>2 DEF InstanceTypes
  <2> QED
    BY <2>1, <2>2
<1>2. CallFields' /\ InstanceTypes'
  BY <1>1 DEF TypeInv, CallFields, InstanceTypes, instVars
<1>3. \A d \in Calls : at'[d] \in HasInstance => inst'[d] \in 1..MaxLife
  BY <1>1 DEF TypeInv, Boxes, HasInstance
<1>4. /\ \A d \in Calls : at'[d] = "queued" <=> at[d] = "queued"
      /\ \A d \in Calls : at[d] = "queued" => inst'[d] = inst[d] /\ to'[d] = to[d]
  BY <1>1
<1>5. Boxes'
  BY <1>1, <1>3, <1>4, SameBoxes DEF TypeInv, Boxes, instVars
<1> QED
  BY <1>2, <1>5

(* A call comes to its instance: it is refused, or joins the mailbox at the end. *)
LEMMA EnqueueKeeps ==
    ASSUME TypeInv, NEW c \in Calls, Enqueue(c)
    PROVE  CallFields' /\ InstanceTypes' /\ Boxes'
<1>0. /\ at[c] = "found" /\ again \in [Calls -> BOOLEAN]
      /\ UNCHANGED <<made, from, to, chain, behind, sweep, instVars>>
  BY TypeFacts DEF Enqueue
<1>1. ASSUME NEW r \in {"closed", "failed"}, Refused(c, r), mail' = mail
      PROVE  CallFields' /\ InstanceTypes' /\ Boxes'
  <2>1. again' \in [Calls -> BOOLEAN]
    BY <1>0, <1>1 DEF Refused
  <2>2. \/ Materialize(c, to[c])
        \/ (\E x \in {"cycle", "failed", "done", "closed"} : at' = [at EXCEPT ![c] = x])
           /\ UNCHANGED <<inst, m>>
    BY <1>1 DEF Refused, Answer
  <2> QED
    BY <1>0, <1>1, <2>1, <2>2, OneMoves
<1>2. CASE /\ at' = [at EXCEPT ![c] = "queued"]
           /\ mail' = [mail EXCEPT ![Box(c)] = Append(@, c)]
           /\ UNCHANGED <<again, inst, m, waits>>
  <2>1. Box(c) \in Instances /\ inst[c] \in 1..MaxLife /\ mail \in [Instances -> Seq(Calls)]
    BY <1>0, TypeFacts DEF HasInstance, TypeInv, InstanceTypes
  <2>2. /\ Once(mail[Box(c)]) /\ c \notin Elements(mail[Box(c)])
        /\ Elements(mail[Box(c)]) = {d \in Calls : at[d] = "queued" /\ Box(d) = Box(c)}
    BY <1>0, <2>1 DEF TypeInv, Boxes
  <2>3. mail[Box(c)] \in Seq(Calls)
    BY <2>1
  <2>4. /\ mail'[Box(c)] \in Seq(Calls) /\ Once(mail'[Box(c)])
        /\ Elements(mail'[Box(c)]) = Elements(mail[Box(c)]) \cup {c}
    BY <1>2, <2>1, <2>2, <2>3, Appended
  <2>5. \A e \in Instances : e # Box(c) => mail'[e] = mail[e]
    BY <1>2, <2>1
  <2>6. mail' \in [Instances -> Seq(Calls)]
    BY <1>2, <2>1, <2>4
  <2>7. \A d \in Calls : Box(d)' = Box(d)
    BY <1>0, <1>2 DEF Box
  <2>8. \A d \in Calls : at'[d] = IF d = c THEN "queued" ELSE at[d]
    BY <1>2, TypeFacts
  <2>9. ASSUME NEW e \in Instances
        PROVE  Once(mail'[e]) /\ Elements(mail'[e]) = {d \in Calls : at'[d] = "queued" /\ Box(d)' = e}
    <3>1. CASE e = Box(c)
      BY <2>2, <2>4, <2>7, <2>8, <3>1
    <3>2. CASE e # Box(c)
      <4>1. Once(mail[e]) /\ Elements(mail[e]) = {d \in Calls : at[d] = "queued" /\ Box(d) = e}
        BY DEF TypeInv, Boxes
      <4> QED
        BY <2>5, <2>7, <2>8, <3>2, <4>1
    <3> QED
      BY <3>1, <3>2
  <2>10. CallFields' /\ InstanceTypes'
    BY <1>0, <1>2, <2>6 DEF TypeInv, CallFields, InstanceTypes, instVars
  <2>11. \A d \in Calls : at'[d] \in HasInstance => inst'[d] \in 1..MaxLife
    BY <1>2, <2>1, <2>8 DEF TypeInv, Boxes, HasInstance
  <2>12. Boxes'
    BY <1>0, <1>2, <2>9, <2>11 DEF TypeInv, Boxes, Once, Elements, instVars
  <2> QED
    BY <2>10, <2>12
<1> QED
  BY <1>1, <1>2 DEF Enqueue

(* The running call leaves the mailbox. *)
LEMMA LeavesBox ==
    ASSUME TypeInv, NEW c \in Calls, Running(c), mail' = [mail EXCEPT ![Box(c)] = Tail(@)],
           to' = to, \A d \in Calls \ {c} : at'[d] = at[d] /\ inst'[d] = inst[d],
           at'[c] # "queued"
    PROVE  /\ mail' \in [Instances -> Seq(Calls)]
           /\ \A e \in Instances : Once(mail'[e])
                 /\ Elements(mail'[e]) = {d \in Calls : at'[d] = "queued" /\ Box(d)' = e}
<1>0. /\ at[c] = "queued" /\ Head(mail[Box(c)]) = c
      /\ Box(c) \in Instances /\ mail \in [Instances -> Seq(Calls)]
  BY TypeFacts DEF Running, HasInstance, TypeInv, InstanceTypes
<1>1. \A e \in Instances :
         Once(mail[e]) /\ Elements(mail[e]) = {d \in Calls : at[d] = "queued" /\ Box(d) = e}
  BY DEF TypeInv, Boxes
<1>2. c \in Elements(mail[Box(c)]) /\ Once(mail[Box(c)]) /\ mail[Box(c)] \in Seq(Calls)
  BY <1>0, <1>1
<1>3. mail[Box(c)] # <<>>
  BY <1>2 DEF Elements
<1>4. /\ Tail(mail[Box(c)]) \in Seq(Calls) /\ Once(Tail(mail[Box(c)]))
      /\ Elements(Tail(mail[Box(c)])) = Elements(mail[Box(c)]) \ {c}
  BY <1>0, <1>2, <1>3, Tails
<1>5. \A d \in Calls \ {c} : Box(d)' = Box(d)
  BY DEF Box
<1>6. ASSUME NEW e \in Instances
      PROVE  Once(mail'[e]) /\ Elements(mail'[e]) = {d \in Calls : at'[d] = "queued" /\ Box(d)' = e}
  <2>1. CASE e = Box(c)
    <3>1. mail'[e] = Tail(mail[Box(c)])
      BY <1>0, <2>1
    <3>2. Elements(mail[Box(c)]) = {d \in Calls : at[d] = "queued" /\ Box(d) = Box(c)}
      BY <1>0, <1>1
    <3> QED
      BY <1>4, <1>5, <2>1, <3>1, <3>2
  <2>2. CASE e # Box(c)
    <3>1. mail'[e] = mail[e]
      BY <1>0, <2>2
    <3> QED
      BY <1>0, <1>1, <1>5, <2>2, <3>1
  <2> QED
    BY <2>1, <2>2
<1>7. mail' \in [Instances -> Seq(Calls)]
  BY <1>0, <1>4
<1> QED
  BY <1>6, <1>7

(* A method returns: its call leaves the mailbox, and waits for its writes. *)
LEMMA ReturnKeeps ==
    ASSUME TypeInv, NEW c \in Calls, Return(c)
    PROVE  CallFields' /\ InstanceTypes' /\ Boxes'
<1>0. /\ Running(c) /\ at' = [at EXCEPT ![c] = "gating"] /\ mail' = [mail EXCEPT ![Box(c)] = Tail(@)]
      /\ UNCHANGED <<callVars, inst, waits, openVars, instVars>>
  BY DEF Return
<1>1. \A d \in Calls : at'[d] = IF d = c THEN "gating" ELSE at[d]
  BY <1>0, TypeFacts
<1>2. /\ mail' \in [Instances -> Seq(Calls)]
      /\ \A e \in Instances : Once(mail'[e])
            /\ Elements(mail'[e]) = {d \in Calls : at'[d] = "queued" /\ Box(d)' = e}
  <2>1. at'[c] # "queued" /\ to' = to
    BY <1>0, <1>1 DEF callVars
  <2>2. \A d \in Calls \ {c} : at'[d] = at[d] /\ inst'[d] = inst[d]
    BY <1>0, <1>1
  <2>3. Running(c) /\ mail' = [mail EXCEPT ![Box(c)] = Tail(@)]
    BY <1>0
  <2> QED
    BY <2>1, <2>2, <2>3, LeavesBox
<1>3. CallFields' /\ InstanceTypes'
  BY <1>0, <1>2 DEF TypeInv, CallFields, InstanceTypes, instVars, callVars, openVars
<1>4. \A d \in Calls : at'[d] \in HasInstance => inst'[d] \in 1..MaxLife
  BY <1>0, <1>1 DEF TypeInv, Boxes, HasInstance, Running
<1>5. Boxes'
  BY <1>0, <1>2, <1>4 DEF TypeInv, Boxes, Once, Elements, instVars, openVars
<1> QED
  BY <1>3, <1>5

(* A method throws: its call leaves the mailbox and is answered, or starts over. *)
LEMMA ThrowKeeps ==
    ASSUME TypeInv, NEW c \in Calls, NEW r \in Answers, Throw(c, r)
    PROVE  CallFields' /\ InstanceTypes' /\ Boxes'
<1>0. /\ Running(c) /\ Refused(c, r) /\ mail' = [mail EXCEPT ![Box(c)] = Tail(@)]
      /\ UNCHANGED <<made, from, to, chain, behind, sweep, instVars>>
  BY DEF Throw
<1>1. /\ again' \in [Calls -> BOOLEAN] /\ inst' \in [Calls -> 0..MaxLife]
      /\ m' \in [Workers -> {"none", "registry", "behind", "sweep", "open", "start"}]
      /\ \A v \in Workers : m'[v] = m[v] \/ m'[v] = "registry"
      /\ \A d \in Calls \ {c} : at'[d] = at[d] /\ inst'[d] = inst[d]
      /\ at'[c] \in {"opening", "found"} \cup Answers
      /\ at'[c] = "found" => inst'[c] \in 1..MaxLife
  <2>0. /\ to[c] \in Workers /\ InstanceTypes /\ at \in [Calls -> States]
        /\ inst \in [Calls -> 0..MaxLife] /\ again \in [Calls -> BOOLEAN]
    BY <1>0, TypeFacts DEF TypeInv, Running
  <2>1. CASE Materialize(c, to[c]) /\ again' = [again EXCEPT ![c] = TRUE]
    BY <2>0, <2>1, MaterializeIs
  <2>2. CASE at' = [at EXCEPT ![c] = r] /\ UNCHANGED <<again, inst, m>>
    BY <2>0, <2>2 DEF InstanceTypes, Answers
  <2> QED
    BY <1>0, <2>1, <2>2 DEF Refused, Answer
<1>2. /\ mail' \in [Instances -> Seq(Calls)]
      /\ \A e \in Instances : Once(mail'[e])
            /\ Elements(mail'[e]) = {d \in Calls : at'[d] = "queued" /\ Box(d)' = e}
  <2>1. at'[c] # "queued" /\ to' = to
    BY <1>0, <1>1 DEF Answers
  <2>2. \A d \in Calls \ {c} : at'[d] = at[d] /\ inst'[d] = inst[d]
    BY <1>1
  <2>3. Running(c) /\ mail' = [mail EXCEPT ![Box(c)] = Tail(@)]
    BY <1>0
  <2> QED
    BY <2>1, <2>2, <2>3, LeavesBox
<1>3. CallFields' /\ InstanceTypes'
  BY <1>0, <1>1, <1>2 DEF TypeInv, CallFields, InstanceTypes, instVars
<1>4. \A d \in Calls : at'[d] \in HasInstance => inst'[d] \in 1..MaxLife
  BY <1>0, <1>1 DEF TypeInv, Boxes, HasInstance, Answers
<1>5. Boxes'
  BY <1>0, <1>1, <1>2, <1>4 DEF TypeInv, Boxes, Once, Elements, instVars
<1> QED
  BY <1>3, <1>5

(* A call leaves its gate, or is let through by the gate of what it wrote. *)
LEMMA GatesKeep ==
    ASSUME TypeInv, NEW c \in Calls,
           Leave(c) \/ LeaveFails(c) \/ \E r \in Answers : Release(c, r)
    PROVE  CallFields' /\ InstanceTypes' /\ Boxes'
<1>1. /\ UNCHANGED <<made, from, to, chain, again, behind, sweep, instVars, mail>>
      /\ at[c] \in {"gate", "gating"}
  BY DEF Leave, LeaveFails, Release, callVars, openVars
<1>2. \/ Materialize(c, to[c])
      \/ (\E x \in {"cycle", "failed", "done", "closed"} : at' = [at EXCEPT ![c] = x])
         /\ UNCHANGED <<inst, m>>
  BY DEF Leave, LeaveFails, Release, Answer, openVars
<1>3. again' \in [Calls -> BOOLEAN]
  BY <1>1, TypeFacts
<1> QED
  BY <1>1, <1>2, <1>3, OneMoves

-----------------------------------------------------------------------------
(* What a sweep takes are instances, and what it does to the first keeps the types. *)
LEMMA EvictFirstTypes ==
    ASSUME InstanceTypes, NEW w \in Workers, NEW list \in Seq(Instances), list # <<>>,
           NEW others \in [Workers -> Workers \cup {NoOne}], EvictFirst(w, list, others)
    PROVE  /\ live' \in [Workers -> 0..MaxLife] /\ closing' \in [Workers -> Workers \cup {NoOne}]
           /\ st' \in [Instances -> {"none", "starting", "open", "closing", "closed", "broken", "dead"}]
<1>1. Head(list) \in Instances
  BY HeadTailProperties
<1>2. Head(list)[1] \in Workers /\ 0 \in 0..MaxLife
  BY <1>1, CallsAssumption DEF Instances, CallsAssumption
<1> QED
  BY <1>1, <1>2 DEF InstanceTypes, EvictFirst

(* What evictIdle may list are instances. *)
LEMMA SweepsAre ==
    ASSUME InstanceTypes, NEW list \in Sweeps
    PROVE  list \in Seq(Instances)
<1>1. PICK n \in 0..MaxSweep : list \in [1..n -> Closeable]
  BY DEF Sweeps, Lists
<1>2. n \in Nat
  BY CallsAssumption DEF CallsAssumption
<1>3. ASSUME NEW u \in Workers, live[u] # 0
      PROVE  <<u, live[u]>> \in Instances
  <2>1. live[u] \in 1..MaxLife
    BY <1>3, CallsAssumption DEF InstanceTypes, CallsAssumption
  <2> QED
    BY <2>1 DEF Instances
<1>4. \A e \in Closeable : e \in Instances
  BY <1>3 DEF Closeable
<1>5. list \in [1..n -> Instances]
  BY <1>1, <1>4
<1> QED
  BY <1>2, <1>5

(* A materialization that fails gives its calls their answer, and nothing else. *)
LEMMA FailureKeeps ==
    ASSUME TypeInv, NEW w \in Workers, NEW r \in Answers, MaterializeFails(w, r),
           UNCHANGED <<to, chain, again, inst, life, mail>>
    PROVE  /\ m' \in [Workers -> {"none", "registry", "behind", "sweep", "open", "start"}]
           /\ sweep' \in [Workers -> Seq(Instances)]
           /\ CallFields' /\ Boxes'
<1>1. /\ m' = [m EXCEPT ![w] = "none"] /\ sweep' = [sweep EXCEPT ![w] = <<>>]
      /\ at' = [c \in Calls |-> IF c \in Opening(w) THEN r ELSE at[c]]
  BY DEF MaterializeFails
<1>2. /\ m \in [Workers -> {"none", "registry", "behind", "sweep", "open", "start"}]
      /\ sweep \in [Workers -> Seq(Instances)]
  BY DEF TypeInv, InstanceTypes
<1>3. /\ \A c \in Calls : at'[c] = "queued" <=> at[c] = "queued"
      /\ \A c \in Calls : at[c] = "queued" => inst'[c] = inst[c] /\ to'[c] = to[c]
      /\ \A c \in Calls : at'[c] \in HasInstance => at'[c] = at[c]
  BY <1>1 DEF Opening, Answers, HasInstance
<1>4. \A c \in Calls : at'[c] \in HasInstance => inst'[c] \in 1..MaxLife
  BY <1>3 DEF TypeInv, Boxes
<1>5. \A v \in Workers : /\ m'[v] = IF v = w THEN "none" ELSE m[v]
                         /\ sweep'[v] = IF v = w THEN <<>> ELSE sweep[v]
  BY <1>1, <1>2
<1>6. \A v \in Workers : (m'[v] = "start" => life'[v] # 0) /\ (m'[v] = "sweep" => sweep'[v] # <<>>)
  BY <1>5 DEF TypeInv, Boxes
<1>7. Boxes'
  BY <1>3, <1>4, <1>6, SameBoxes DEF TypeInv
<1>8. CallFields'
  BY DEF TypeInv, CallFields
<1>9. <<>> \in Seq(Instances)
  OBVIOUS
<1> QED
  BY <1>1, <1>2, <1>7, <1>8, <1>9

(* The steps of materialize that give no call its answer. *)
LEMMA RegistryKeeps ==
    ASSUME TypeInv, NEW w \in Workers, Registry(w)
    PROVE  CallFields' /\ InstanceTypes' /\ Boxes'
<1>1. /\ m' = [m EXCEPT ![w] = "behind"] /\ behind' = [behind EXCEPT ![w] = closing[w]]
      /\ UNCHANGED <<callVars, at, inst, waits, sweep, instVars, mail>>
  BY DEF Registry
<1>2. InstanceTypes'
  BY <1>1 DEF TypeInv, InstanceTypes, instVars
<1>3. \A v \in Workers : (m'[v] = "start" => life'[v] # 0) /\ (m'[v] = "sweep" => sweep'[v] # <<>>)
  BY <1>1 DEF TypeInv, Boxes, InstanceTypes, instVars
<1>4. Boxes'
  BY <1>1, <1>3, SameBoxes DEF TypeInv, Boxes, callVars
<1> QED
  BY <1>1, <1>2, <1>4 DEF TypeInv, CallFields, callVars

(* evictIdle makes its list, and closes the first. *)
LEMMA SweepKeeps ==
    ASSUME TypeInv, NEW w \in Workers, Sweep(w)
    PROVE  CallFields' /\ InstanceTypes' /\ Boxes'
<1>1. /\ behind' = [behind EXCEPT ![w] = NoOne]
      /\ UNCHANGED <<callVars, at, inst, waits, life, mail>>
  BY DEF Sweep
<1>2. PICK list \in Sweeps :
         /\ sweep' = [sweep EXCEPT ![w] = list]
         /\ m' = [m EXCEPT ![w] = IF list = <<>> THEN "open" ELSE "sweep"]
         /\ IF list = <<>> THEN UNCHANGED <<st, live, closing>> ELSE EvictFirst(w, list, closing)
  BY DEF Sweep
<1>3. list \in Seq(Instances) /\ InstanceTypes
  BY SweepsAre DEF TypeInv
<1>4. /\ live' \in [Workers -> 0..MaxLife] /\ closing' \in [Workers -> Workers \cup {NoOne}]
      /\ st' \in [Instances -> {"none", "starting", "open", "closing", "closed", "broken", "dead"}]
  <2>1. closing \in [Workers -> Workers \cup {NoOne}]
    BY <1>3 DEF InstanceTypes
  <2>2. CASE list = <<>>
    BY <1>2, <1>3, <2>2 DEF InstanceTypes
  <2>3. CASE list # <<>>
    BY <1>2, <1>3, <2>1, <2>3, EvictFirstTypes
  <2> QED
    BY <2>2, <2>3
<1>5. InstanceTypes'
  BY <1>1, <1>2, <1>3, <1>4 DEF InstanceTypes
<1>6. \A v \in Workers : (m'[v] = "start" => life'[v] # 0) /\ (m'[v] = "sweep" => sweep'[v] # <<>>)
  BY <1>1, <1>2, <1>3 DEF TypeInv, Boxes, InstanceTypes
<1>7. Boxes'
  BY <1>1, <1>6, SameBoxes DEF TypeInv, Boxes, callVars
<1> QED
  BY <1>1, <1>5, <1>7 DEF TypeInv, CallFields, callVars

(* evictIdle is done with one: it goes on with the next, opens, or fails. *)
LEMMA SweptKeeps ==
    ASSUME TypeInv, NEW w \in Workers, Swept(w)
    PROVE  CallFields' /\ InstanceTypes' /\ Boxes'
<1> DEFINE e == Head(sweep[w])
           done == IF closing[e[1]] = w THEN [closing EXCEPT ![e[1]] = NoOne] ELSE closing
           rest == Tail(sweep[w])
<1>1. /\ m[w] = "sweep" /\ UNCHANGED <<callVars, inst, behind, life, mail>>
      /\ \/ st[e] = "broken" /\ MaterializeFails(w, "failed") /\ closing' = done /\ UNCHANGED <<st, live>>
         \/ /\ rest = <<>> /\ m' = [m EXCEPT ![w] = "open"] /\ sweep' = [sweep EXCEPT ![w] = rest]
            /\ closing' = done /\ UNCHANGED <<st, live, at, waits>>
         \/ /\ rest # <<>> /\ sweep' = [sweep EXCEPT ![w] = rest] /\ EvictFirst(w, rest, done)
            /\ UNCHANGED <<m, at, waits>>
  BY DEF Swept
<1>2. sweep[w] # <<>> /\ sweep[w] \in Seq(Instances) /\ InstanceTypes
  BY <1>1 DEF TypeInv, Boxes, InstanceTypes
<1>3. e \in Instances /\ rest \in Seq(Instances)
  BY <1>2, HeadTailProperties
<1>4. done \in [Workers -> Workers \cup {NoOne}]
  BY <1>2, <1>3 DEF InstanceTypes
<1> HIDE DEF e, rest, done
<1>5. CASE /\ MaterializeFails(w, "failed") /\ closing' = done /\ UNCHANGED <<st, live>>
  <2>1. "failed" \in Answers
    BY DEF Answers
  <2>2. /\ m' \in [Workers -> {"none", "registry", "behind", "sweep", "open", "start"}]
        /\ sweep' \in [Workers -> Seq(Instances)]
        /\ CallFields' /\ Boxes'
    BY <1>1, <1>5, <2>1, FailureKeeps DEF callVars
  <2> QED
    BY <1>1, <1>2, <1>4, <1>5, <2>2 DEF InstanceTypes
<1>6. CASE /\ rest = <<>> /\ m' = [m EXCEPT ![w] = "open"] /\ sweep' = [sweep EXCEPT ![w] = rest]
           /\ closing' = done /\ UNCHANGED <<st, live, at, waits>>
  <2>1. InstanceTypes'
    BY <1>1, <1>2, <1>3, <1>4, <1>6 DEF InstanceTypes
  <2>2. \A v \in Workers : (m'[v] = "start" => life'[v] # 0) /\ (m'[v] = "sweep" => sweep'[v] # <<>>)
    BY <1>1, <1>2, <1>6 DEF TypeInv, Boxes, InstanceTypes
  <2>3. Boxes'
    BY <1>1, <1>6, <2>2, SameBoxes DEF TypeInv, Boxes, callVars
  <2> QED
    BY <1>1, <2>1, <2>3 DEF TypeInv, CallFields, callVars
<1>7. CASE /\ rest # <<>> /\ sweep' = [sweep EXCEPT ![w] = rest] /\ EvictFirst(w, rest, done)
           /\ UNCHANGED <<m, at, waits>>
  <2>1. /\ live' \in [Workers -> 0..MaxLife] /\ closing' \in [Workers -> Workers \cup {NoOne}]
        /\ st' \in [Instances -> {"none", "starting", "open", "closing", "closed", "broken", "dead"}]
    BY <1>2, <1>3, <1>4, <1>7, EvictFirstTypes
  <2>2. InstanceTypes'
    BY <1>1, <1>2, <1>3, <1>7, <2>1 DEF InstanceTypes
  <2>3. \A v \in Workers : (m'[v] = "start" => life'[v] # 0) /\ (m'[v] = "sweep" => sweep'[v] # <<>>)
    BY <1>1, <1>2, <1>7 DEF TypeInv, Boxes, InstanceTypes
  <2>4. Boxes'
    BY <1>1, <1>7, <2>3, SameBoxes DEF TypeInv, Boxes, callVars
  <2> QED
    BY <1>1, <2>2, <2>4 DEF TypeInv, CallFields, callVars
<1> QED
  BY <1>1, <1>5, <1>6, <1>7

(* The file is opened for one instance more. *)
LEMMA OpenKeeps ==
    ASSUME TypeInv, NEW w \in Workers, Open(w)
    PROVE  CallFields' /\ InstanceTypes' /\ Boxes'
<1>1. /\ life[w] < MaxLife /\ life' = [life EXCEPT ![w] = @ + 1]
      /\ live' = [live EXCEPT ![w] = life[w] + 1] /\ m' = [m EXCEPT ![w] = "start"]
      /\ st' = [st EXCEPT ![<<w, life[w] + 1>>] = "starting"]
      /\ UNCHANGED <<callVars, at, inst, waits, behind, sweep, closing, mail>>
  BY DEF Open
<1>2. InstanceTypes /\ life[w] \in Nat /\ MaxLife \in Nat
  BY CallsAssumption DEF TypeInv, InstanceTypes, CallsAssumption
<1>3. life[w] + 1 \in 1..MaxLife
  BY <1>1, <1>2
<1>4. InstanceTypes'
  <2>1. life' \in [Workers -> 0..MaxLife] /\ live' \in [Workers -> 0..MaxLife]
    <3>1. life[w] + 1 \in 0..MaxLife
      BY <1>2, <1>3
    <3> QED
      BY <1>1, <1>2, <3>1 DEF InstanceTypes
  <2>2. st' \in [Instances -> {"none", "starting", "open", "closing", "closed", "broken", "dead"}]
    BY <1>1, <1>2 DEF InstanceTypes
  <2>3. m' \in [Workers -> {"none", "registry", "behind", "sweep", "open", "start"}]
    BY <1>1, <1>2 DEF InstanceTypes
  <2> QED
    BY <1>1, <1>2, <2>1, <2>2, <2>3 DEF InstanceTypes
<1>5. \A v \in Workers : (m'[v] = "start" => life'[v] # 0) /\ (m'[v] = "sweep" => sweep'[v] # <<>>)
  BY <1>1, <1>2, <1>3 DEF TypeInv, Boxes, InstanceTypes
<1>6. Boxes'
  BY <1>1, <1>5, SameBoxes DEF TypeInv, Boxes, callVars
<1> QED
  BY <1>1, <1>4, <1>6 DEF TypeInv, CallFields, callVars

(* The file cannot be opened. *)
LEMMA OpenFailsKeeps ==
    ASSUME TypeInv, NEW w \in Workers, OpenFails(w)
    PROVE  CallFields' /\ InstanceTypes' /\ Boxes'
<1>1. "failed" \in Answers /\ InstanceTypes
  BY DEF Answers, TypeInv
<1>2. /\ MaterializeFails(w, "failed") /\ UNCHANGED <<to, chain, again, inst, life, mail>>
      /\ UNCHANGED <<callVars, inst, behind, instVars, mail>>
  BY DEF OpenFails, callVars, instVars
<1>3. /\ m' \in [Workers -> {"none", "registry", "behind", "sweep", "open", "start"}]
      /\ sweep' \in [Workers -> Seq(Instances)]
      /\ CallFields' /\ Boxes'
  BY <1>1, <1>2, FailureKeeps
<1> QED
  BY <1>1, <1>2, <1>3 DEF InstanceTypes, instVars

(* start() throws: the instance is dead and leaves the map. *)
LEMMA StartFailsKeeps ==
    ASSUME TypeInv, NEW w \in Workers, NEW r \in Answers, StartFails(w, r)
    PROVE  CallFields' /\ InstanceTypes' /\ Boxes'
<1>1. /\ MaterializeFails(w, r) /\ live' = [live EXCEPT ![w] = 0]
      /\ st' = [st EXCEPT ![<<w, life[w]>>] = "dead"]
      /\ UNCHANGED <<callVars, inst, behind, life, closing, mail>>
  BY DEF StartFails
<1>2. /\ m' \in [Workers -> {"none", "registry", "behind", "sweep", "open", "start"}]
      /\ sweep' \in [Workers -> Seq(Instances)]
      /\ CallFields' /\ Boxes'
  BY <1>1, FailureKeeps DEF callVars
<1>3. InstanceTypes /\ 0 \in 0..MaxLife
  BY CallsAssumption DEF TypeInv, CallsAssumption
<1> QED
  BY <1>1, <1>2, <1>3 DEF InstanceTypes

(* The calls that await the worker are given the instance that has started. *)
LEMMA StartedKeeps ==
    ASSUME TypeInv, NEW w \in Workers, Started(w)
    PROVE  CallFields' /\ InstanceTypes' /\ Boxes'
<1>1. /\ m[w] = "start" /\ m' = [m EXCEPT ![w] = "none"]
      /\ st' = [st EXCEPT ![<<w, life[w]>>] = IF @ = "starting" THEN "open" ELSE @]
      /\ at' = [c \in Calls |-> IF c \in Opening(w) THEN "found" ELSE at[c]]
      /\ inst' = [c \in Calls |-> IF c \in Opening(w) THEN life[w] ELSE inst[c]]
      /\ UNCHANGED <<callVars, waits, behind, sweep, life, live, closing, mail>>
  BY DEF Started
<1>2. life[w] \in 1..MaxLife /\ InstanceTypes /\ inst \in [Calls -> 0..MaxLife]
  BY <1>1, TypeFacts DEF TypeInv, Boxes
<1>3. <<w, life[w]>> \in Instances
  BY <1>2 DEF Instances
<1>4. st' \in [Instances -> {"none", "starting", "open", "closing", "closed", "broken", "dead"}]
  BY <1>1, <1>2, <1>3 DEF InstanceTypes
<1>5. InstanceTypes'
  BY <1>1, <1>2, <1>4 DEF InstanceTypes
<1>6. inst' \in [Calls -> 0..MaxLife]
  BY <1>1, <1>2
<1>7. /\ \A c \in Calls : at'[c] = "queued" <=> at[c] = "queued"
      /\ \A c \in Calls : at[c] = "queued" => inst'[c] = inst[c] /\ to'[c] = to[c]
      /\ \A c \in Calls : at'[c] \in HasInstance =>
            \/ at'[c] = at[c] /\ inst'[c] = inst[c]
            \/ inst'[c] = life[w]
  BY <1>1 DEF Opening, callVars, HasInstance
<1>8. \A c \in Calls : at'[c] \in HasInstance => inst'[c] \in 1..MaxLife
  BY <1>2, <1>7 DEF TypeInv, Boxes
<1>9. \A v \in Workers : (m'[v] = "start" => life'[v] # 0) /\ (m'[v] = "sweep" => sweep'[v] # <<>>)
  BY <1>1, <1>2 DEF TypeInv, Boxes, InstanceTypes
<1>10. Boxes'
  BY <1>1, <1>7, <1>8, <1>9, SameBoxes DEF TypeInv
<1> QED
  BY <1>1, <1>5, <1>6, <1>10 DEF TypeInv, CallFields, callVars

(* The instance has closed. *)
LEMMA CloseKeeps ==
    ASSUME TypeInv, NEW e \in Instances, NEW end \in {"closed", "broken"}, Close(e, end)
    PROVE  CallFields' /\ InstanceTypes' /\ Boxes'
<1>1. /\ st' = [st EXCEPT ![e] = end]
      /\ UNCHANGED <<callVars, at, inst, waits, openVars, life, live, closing, mail>>
  BY DEF Close
<1>2. InstanceTypes'
  BY <1>1 DEF TypeInv, InstanceTypes, openVars
<1>3. Boxes'
  BY <1>1, SameBoxes DEF TypeInv, Boxes, callVars, openVars
<1> QED
  BY <1>1, <1>2, <1>3 DEF TypeInv, CallFields, callVars

(* At first no call is made, and every mailbox is empty. *)
LEMMA TypeInvInit ==
    ASSUME Init
    PROVE  TypeInv
<1>1. CallsInv /\ CallFields
  BY CallsInvInit, CallsAssumption DEF Init, CallFields, CallsAssumption
<1>2. InstanceTypes
  BY CallsAssumption DEF Init, InstanceTypes, CallsAssumption
<1>3. Boxes
  BY DEF Init, Boxes, HasInstance, Once, Elements
<1> QED
  BY <1>1, <1>2, <1>3 DEF TypeInv

(* Every step keeps the types. *)
LEMMA TypeInvStep ==
    ASSUME TypeInv, [Next]_vars
    PROVE  TypeInv'
<1>1. CallsInv'
  BY CallsInvStep DEF TypeInv
<1>2. CASE UNCHANGED vars
  <2>1. CallFields' /\ InstanceTypes'
    BY <1>2 DEF TypeInv, CallFields, InstanceTypes, vars, callVars, openVars, instVars
  <2>2. Boxes'
    BY <1>2, SameBoxes DEF TypeInv, Boxes, vars, callVars, openVars, instVars
  <2> QED
    BY <1>1, <2>1, <2>2 DEF TypeInv
<1>3. CASE Code
  BY <1>1, <1>3, MakeCallKeeps DEF Code, TypeInv
<1>4. CASE Calling
  BY <1>1, <1>4, GatesKeep, EnqueueKeeps, ReturnKeeps, ThrowKeeps DEF Calling, TypeInv
<1>5. CASE Materializing
  BY <1>1, <1>5, RegistryKeeps, SweepKeeps, SweptKeeps, OpenKeeps, OpenFailsKeeps, StartedKeeps,
     StartFailsKeeps, CloseKeeps DEF Materializing, TypeInv
<1> QED
  BY <1>2, <1>3, <1>4, <1>5 DEF Next

(* The queued call is in its mailbox once. *)
LEMMA InboxCounts ==
    ASSUME TypeInv, NEW e \in Instances, NEW c \in Calls
    PROVE  Cardinality({n \in DOMAIN mail[e] : mail[e][n] = c})
              = IF at[c] = "queued" /\ e = <<to[c], inst[c]>> THEN 1 ELSE 0
<1> DEFINE places == {n \in DOMAIN mail[e] : mail[e][n] = c}
<1>1. Once(mail[e]) /\ Elements(mail[e]) = {d \in Calls : at[d] = "queued" /\ Box(d) = e}
  BY DEF TypeInv, Boxes
<1>2. CASE at[c] = "queued" /\ e = Box(c)
  <2>1. PICK n \in DOMAIN mail[e] : mail[e][n] = c
    BY <1>1, <1>2 DEF Elements
  <2>2. places = {n}
    BY <1>1, <2>1 DEF Once
  <2>3. Cardinality(places) = 1
    BY <2>2, FS_Singleton
  <2> QED
    BY <1>2, <2>3 DEF Box
<1>3. CASE ~(at[c] = "queued" /\ e = Box(c))
  <2>1. places = {}
    BY <1>1, <1>3 DEF Elements
  <2>2. Cardinality(places) = 0
    BY <2>1, FS_EmptySet
  <2> QED
    BY <1>3, <2>2 DEF Box
<1> QED
  BY <1>2, <1>3

(* The types that the run checks follow. *)
LEMMA TypesHold ==
    ASSUME TypeInv
    PROVE  TypeOK
<1>1. CallTypes
  BY DEF TypeInv, CallsInv, Books, CallFields, CallTypes, States
<1> QED
  BY <1>1, InboxCounts DEF TypeOK, TypeInv

(* For any workers, limits and failures: a call that is queued is in the mailbox of*)
(* the instance it was given, once and in no other, and every other call in none:*)
(* enqueue, a method's end and an eviction never lose or repeat one.        *)
THEOREM CallTypesHold == Spec => []TypeOK
  BY TypeInvInit, TypeInvStep, TypesHold, PTL DEF Spec

-----------------------------------------------------------------------------
(* The map has the instance that runs, if any. *)
MapIs ==
    /\ \A w \in Workers, i \in 1..MaxLife : st[<<w, i>>] \in {"starting", "open"} => live[w] = i
    /\ \A w \in Workers : live[w] # 0 => st[<<w, live[w]>>] \in {"starting", "open"}

(* A worker is opened while none of it runs. *)
OpenedWhenGone ==
    /\ \A w \in Workers : m[w] \in {"registry", "behind", "sweep", "open"} => live[w] = 0
    /\ \A w \in Workers : m[w] = "start" => live[w] = life[w] /\ st[<<w, life[w]>>] = "starting"

(* An instance that is closing is the one a sweep is at; an opening of the same    *)
(* worker waits for that sweep, and has not got further.                        *)
ClosingAwaited ==
    \A w \in Workers, i \in 1..MaxLife : st[<<w, i>>] = "closing" =>
        /\ live[w] = 0 /\ m[w] \notin {"sweep", "open"}
        /\ closing[w] \in Workers /\ m[closing[w]] = "sweep" /\ Head(sweep[closing[w]]) = <<w, i>>
        /\ m[w] = "behind" => behind[w] = closing[w]

(* The inductive invariant of the instances. *)
WriterInv == MapIs /\ OpenedWhenGone /\ ClosingAwaited

(* The next one a sweep is to evict still is the one that runs. *)
SweepsCurrent ==
    \A w \in Workers : m[w] = "sweep" /\ Len(sweep[w]) > 1 =>
        LET e == Head(Tail(sweep[w])) IN live[e[1]] = e[2] /\ st[e] = "open"

(* Two that write would both be in the map, or both be closed by the same sweep. *)
LEMMA WriterIsOne ==
    ASSUME WriterInv
    PROVE  OneWriter
<1>1. SUFFICES ASSUME NEW w \in Workers, NEW i \in 1..MaxLife, NEW j \in 1..MaxLife,
                      st[<<w, i>>] \in {"starting", "open", "closing"},
                      st[<<w, j>>] \in {"starting", "open", "closing"}
               PROVE  i = j
  BY DEF OneWriter
<1>2. i # 0 /\ j # 0
  OBVIOUS
<1>3. CASE st[<<w, i>>] = "closing" /\ st[<<w, j>>] = "closing"
  <2>1. Head(sweep[closing[w]]) = <<w, i>> /\ Head(sweep[closing[w]]) = <<w, j>>
    BY <1>3 DEF WriterInv, ClosingAwaited
  <2> QED
    BY <2>1
<1> QED
  BY <1>1, <1>2, <1>3 DEF WriterInv, MapIs, ClosingAwaited

(* Calls do not touch the instances: at most an opening begins, of a worker none   *)
(* of which is in the map.                                                    *)
LEMMA CallsKeepWriter ==
    ASSUME WriterInv, UNCHANGED <<behind, sweep, instVars>>,
           \A v \in Workers : m'[v] = m[v] \/ (m'[v] = "registry" /\ m[v] = "none" /\ live[v] = 0)
    PROVE  WriterInv'
  BY DEF WriterInv, MapIs, OpenedWhenGone, ClosingAwaited, instVars

(* A call begins an opening only when the map has no instance of its worker. *)
LEMMA MaterializeKeepsWriter ==
    ASSUME WriterInv, InstanceTypes, NEW c \in Calls, NEW w \in Workers, Materialize(c, w)
    PROVE  \A v \in Workers : m'[v] = m[v] \/ (m'[v] = "registry" /\ m[v] = "none" /\ live[v] = 0)
<1>1. live[w] # 0 => st[<<w, live[w]>>] \notin Shut
  BY DEF WriterInv, MapIs, Shut
<1> QED
  BY <1>1 DEF Materialize, InstanceTypes

(* Neither code nor a call touches an instance. *)
LEMMA CallingKeepsWriter ==
    ASSUME TypeInv, WriterInv, Code \/ Calling
    PROVE  WriterInv'
<1>0. InstanceTypes
  BY DEF TypeInv
<1>1. /\ UNCHANGED <<behind, sweep, instVars>>
      /\ m' = m \/ \E c \in Calls, w \in Workers : Materialize(c, w)
  <2>1. ASSUME NEW f \in Frames, NEW w \in Workers, MakeCall(f, w)
        PROVE  <1>1!1 /\ <1>1!2
    <3>1. made + 1 \in Calls
      BY <2>1, CallsAssumption DEF MakeCall, TypeInv, CallsInv, Books, Calls, CallsAssumption
    <3> QED
      BY <2>1, <3>1 DEF MakeCall
  <2>2. ASSUME NEW c \in Calls, at[c] # "idle", Leave(c) \/ LeaveFails(c) \/ Enqueue(c) \/ Return(c)
                                \/ \E r \in Answers : Throw(c, r) \/ Release(c, r)
        PROVE  <1>1!1 /\ <1>1!2
    <3>1. to[c] \in Workers
      BY <2>2, TypeFacts
    <3> QED
      BY <2>2, <3>1 DEF Leave, LeaveFails, Enqueue, Return, Throw, Release, Refused, openVars, Answer
  <2> QED
    BY <2>1, <2>2 DEF Code, Calling, Leave, LeaveFails, Enqueue, Return, Throw, Release, Running
<1>2. \A v \in Workers : m'[v] = m[v] \/ (m'[v] = "registry" /\ m[v] = "none" /\ live[v] = 0)
  BY <1>0, <1>1, MaterializeKeepsWriter
<1> QED
  BY <1>1, <1>2, CallsKeepWriter

(* A sweep evicts the next one, which runs: it leaves the map, and is awaited. *)
LEMMA EvictIs ==
    ASSUME NEW w \in Workers, NEW g \in Workers, NEW k \in 1..MaxLife, NEW list \in Seq(Instances),
           Head(list) = <<g, k>>, st[<<g, k>>] = "open", NEW others, EvictFirst(w, list, others)
    PROVE  /\ live' = [live EXCEPT ![g] = 0] /\ closing' = [others EXCEPT ![g] = w]
           /\ st' = [st EXCEPT ![<<g, k>>] = "closing"]
<1>1. Head(list)[1] = g /\ st[Head(list)] = "open"
  OBVIOUS
<1>2. /\ live' = [live EXCEPT ![Head(list)[1]] = 0]
      /\ closing' = [others EXCEPT ![Head(list)[1]] = w]
      /\ st' = IF st[Head(list)] \in {"starting", "open"}
               THEN [st EXCEPT ![Head(list)] = "closing"] ELSE st
  BY DEF EvictFirst
<1> QED
  BY <1>1, <1>2

(* A sweep takes the next one out of the map: nobody else sweeps it, and whoever*)
(* opens its worker from now on waits for it.                               *)
LEMMA EvictKeepsWriter ==
    ASSUME TypeInv, WriterInv, NEW w \in Workers, live[w] = 0,
           \A i \in 1..MaxLife : st[<<w, i>>] # "closing",
           \A v \in Workers, i \in 1..MaxLife : st[<<v, i>>] = "closing" => closing[v] # w,
           NEW g \in Workers, NEW k \in 1..MaxLife, live[g] = k, st[<<g, k>>] = "open",
           live' = [live EXCEPT ![g] = 0], st' = [st EXCEPT ![<<g, k>>] = "closing"],
           closing'[g] = w,
           \A v \in Workers \ {g} : closing[v] # w => closing'[v] = closing[v],
           m' = [m EXCEPT ![w] = "sweep"], Head(sweep'[w]) = <<g, k>>, UNCHANGED life,
           \A v \in Workers \ {w} : behind'[v] = behind[v] /\ sweep'[v] = sweep[v]
    PROVE  WriterInv'
<1>2. /\ live \in [Workers -> 0..MaxLife] /\ m \in [Workers -> {"none", "registry", "behind", "sweep", "open", "start"}]
      /\ st \in [Instances -> {"none", "starting", "open", "closing", "closed", "broken", "dead"}]
      /\ <<g, k>> \in Instances /\ k # 0
  BY DEF TypeInv, InstanceTypes, Instances
<1>3. /\ \A v \in Workers : live'[v] = IF v = g THEN 0 ELSE live[v]
      /\ \A v \in Workers, i \in 1..MaxLife :
            st'[<<v, i>>] = IF v = g /\ i = k THEN "closing" ELSE st[<<v, i>>]
      /\ \A v \in Workers : m'[v] = IF v = w THEN "sweep" ELSE m[v]
  BY <1>2 DEF Instances
<1>4. g # w /\ m[g] = "none"
  <2>1. g # w
    BY <1>2
  <2>2. m[g] # "start"
    BY DEF WriterInv, OpenedWhenGone
  <2>3. m[g] \notin {"registry", "behind", "sweep", "open"}
    BY <1>2 DEF WriterInv, OpenedWhenGone
  <2> QED
    BY <1>2, <2>1, <2>2, <2>3
<1>5. MapIs'
  <2>1. \A v \in Workers, i \in 1..MaxLife : st'[<<v, i>>] \in {"starting", "open"} => live'[v] = i
    BY <1>3 DEF WriterInv, MapIs
  <2>2. ASSUME NEW v \in Workers, live'[v] # 0
        PROVE  st'[<<v, live'[v]>>] \in {"starting", "open"}
    <3>1. v # g /\ live'[v] = live[v] /\ live[v] \in 1..MaxLife
      BY <1>2, <1>3, <2>2, CallsAssumption DEF CallsAssumption
    <3>2. st'[<<v, live[v]>>] = st[<<v, live[v]>>]
      BY <1>3, <3>1
    <3> QED
      BY <2>2, <3>1, <3>2 DEF WriterInv, MapIs
  <2> QED
    BY <2>1, <2>2 DEF MapIs
<1>6. OpenedWhenGone'
  <2>1. \A v \in Workers : m'[v] \in {"registry", "behind", "sweep", "open"} => live'[v] = 0
    BY <1>3, <1>4 DEF WriterInv, OpenedWhenGone
  <2>2. ASSUME NEW v \in Workers, m'[v] = "start"
        PROVE  live'[v] = life'[v] /\ st'[<<v, life'[v]>>] = "starting"
    <3>1. v # g /\ v # w /\ m[v] = "start"
      BY <1>3, <1>4, <2>2
    <3>2. life[v] \in 1..MaxLife
      BY <3>1, TypeFacts DEF TypeInv, Boxes
    <3> QED
      BY <1>3, <3>1, <3>2 DEF WriterInv, OpenedWhenGone
  <2> QED
    BY <2>1, <2>2 DEF OpenedWhenGone
<1>7. ClosingAwaited'
  <2>1. ASSUME NEW v \in Workers, NEW i \in 1..MaxLife, st'[<<v, i>>] = "closing"
        PROVE  /\ live'[v] = 0 /\ m'[v] \notin {"sweep", "open"}
               /\ closing'[v] \in Workers /\ m'[closing'[v]] = "sweep"
               /\ Head(sweep'[closing'[v]]) = <<v, i>>
               /\ m'[v] = "behind" => behind'[v] = closing'[v]
    <3>1. CASE v = g /\ i = k
      BY <1>3, <1>4, <3>1
    <3>2. CASE ~(v = g /\ i = k)
      <4>1. st[<<v, i>>] = "closing"
        BY <1>3, <2>1, <3>2
      <4>2. /\ live[v] = 0 /\ m[v] \notin {"sweep", "open"}
            /\ closing[v] \in Workers /\ m[closing[v]] = "sweep" /\ Head(sweep[closing[v]]) = <<v, i>>
            /\ m[v] = "behind" => behind[v] = closing[v]
        BY <4>1 DEF WriterInv, ClosingAwaited
      <4>3. v # g /\ v # w /\ closing[v] # w
        BY <1>2, <4>1, <4>2
      <4> QED
        BY <1>3, <4>2, <4>3
    <3> QED
      BY <3>1, <3>2
  <2> QED
    BY <2>1 DEF ClosingAwaited
<1> QED
  BY <1>5, <1>6, <1>7 DEF WriterInv

(* Who opens a worker and does not sweep is no one's sweep. *)
LEMMA NoSweeper ==
    ASSUME WriterInv, NEW w \in Workers,
           m[w] # "sweep" \/ st[Head(sweep[w])] # "closing"
    PROVE  \A v \in Workers, i \in 1..MaxLife : st[<<v, i>>] = "closing" => closing[v] # w
  BY DEF WriterInv, ClosingAwaited

(* evictIdle begins: the eviction of the worker to be opened, if any, is over. *)
LEMMA SweepKeepsWriter ==
    ASSUME TypeInv, WriterInv, NEW w \in Workers, Sweep(w)
    PROVE  WriterInv'
<1>1. /\ m[w] = "behind" /\ (behind[w] # NoOne => ~Evicting(behind[w], w))
      /\ behind' = [behind EXCEPT ![w] = NoOne] /\ UNCHANGED life
  BY DEF Sweep
<1>2. PICK list \in Sweeps :
         /\ sweep' = [sweep EXCEPT ![w] = list]
         /\ m' = [m EXCEPT ![w] = IF list = <<>> THEN "open" ELSE "sweep"]
         /\ IF list = <<>> THEN UNCHANGED <<st, live, closing>> ELSE EvictFirst(w, list, closing)
  BY DEF Sweep
<1>3. InstanceTypes /\ list \in Seq(Instances)
  BY SweepsAre DEF TypeInv
<1>4. live[w] = 0
  BY <1>1 DEF WriterInv, OpenedWhenGone
<1>5. ASSUME NEW i \in 1..MaxLife, st[<<w, i>>] = "closing"
      PROVE  FALSE
  <2>1. /\ closing[w] \in Workers /\ m[closing[w]] = "sweep" /\ Head(sweep[closing[w]]) = <<w, i>>
        /\ behind[w] = closing[w]
    BY <1>1, <1>5 DEF WriterInv, ClosingAwaited
  <2>2. behind[w] # NoOne
    BY <2>1, CallsAssumption DEF CallsAssumption
  <2> QED
    BY <1>1, <2>1, <2>2 DEF Evicting
<1>6. \A v \in Workers, i \in 1..MaxLife : st[<<v, i>>] = "closing" => closing[v] # w
  BY <1>1, NoSweeper
<1>7. CASE list = <<>>
  <2>1. \A v \in Workers : /\ m'[v] = IF v = w THEN "open" ELSE m[v]
                           /\ v # w => sweep'[v] = sweep[v] /\ behind'[v] = behind[v]
    BY <1>1, <1>2, <1>3, <1>7 DEF InstanceTypes
  <2>2. UNCHANGED <<st, live, closing>>
    BY <1>2, <1>7
  <2>3. MapIs' /\ OpenedWhenGone'
    BY <1>1, <1>4, <2>1, <2>2 DEF WriterInv, MapIs, OpenedWhenGone
  <2>4. ClosingAwaited'
    BY <1>5, <1>6, <2>1, <2>2 DEF WriterInv, ClosingAwaited
  <2> QED
    BY <2>3, <2>4 DEF WriterInv
<1>8. CASE list # <<>>
  <2>1. Head(list) \in Closeable
    <3>1. PICK n \in 0..MaxSweep : list \in [1..n -> Closeable]
      BY DEF Sweeps, Lists
    <3>2. n \in Nat
      BY CallsAssumption DEF CallsAssumption
    <3>3. list \in Seq(Closeable)
      BY <3>1, <3>2
    <3> QED
      BY <1>8, <3>3, HeadTailProperties
  <2>2. PICK g \in Workers, k \in 1..MaxLife :
           Head(list) = <<g, k>> /\ live[g] = k /\ st[<<g, k>>] = "open"
    <3>1. PICK g \in Workers : Head(list) = <<g, live[g]>> /\ live[g] # 0 /\ st[<<g, live[g]>>] = "open"
      BY <2>1 DEF Closeable
    <3>2. live[g] \in 1..MaxLife
      BY <1>3, <3>1, CallsAssumption DEF InstanceTypes, CallsAssumption
    <3> QED
      BY <3>1, <3>2
  <2>3. closing \in [Workers -> Workers \cup {NoOne}]
    BY <1>3 DEF InstanceTypes
  <2>4. EvictFirst(w, list, closing) /\ m' = [m EXCEPT ![w] = "sweep"]
    BY <1>2, <1>8
  <2>5. /\ live' = [live EXCEPT ![g] = 0] /\ closing' = [closing EXCEPT ![g] = w]
        /\ st' = [st EXCEPT ![<<g, k>>] = "closing"]
    BY <1>3, <2>2, <2>4, EvictIs
  <2>6. /\ closing'[g] = w /\ \A v \in Workers \ {g} : closing[v] # w => closing'[v] = closing[v]
        /\ \A v \in Workers \ {w} : behind'[v] = behind[v] /\ sweep'[v] = sweep[v]
        /\ Head(sweep'[w]) = <<g, k>>
    BY <1>1, <1>2, <1>3, <2>2, <2>3, <2>5 DEF InstanceTypes
  <2> QED
    BY <1>1, <1>4, <1>5, <1>6, <2>2, <2>4, <2>5, <2>6, EvictKeepsWriter
<1> QED
  BY <1>7, <1>8

(* A materialization goes on, or ends, without touching an instance: who does not    *)
(* sweep one that is closing may do so.                                        *)
LEMMA GoesOnKeepsWriter ==
    ASSUME TypeInv, WriterInv, NEW w \in Workers,
           NEW x \in {"none", "behind", "open"}, m' = [m EXCEPT ![w] = x],
           x # "none" => live[w] = 0,
           x = "behind" => behind'[w] = closing[w],
           x = "open" => \A i \in 1..MaxLife : st[<<w, i>>] # "closing",
           \A v \in Workers, i \in 1..MaxLife : st[<<v, i>>] = "closing" => closing[v] # w,
           UNCHANGED <<life, st, live>>,
           \A v \in Workers : closing[v] # w => closing'[v] = closing[v],
           \A v \in Workers \ {w} : behind'[v] = behind[v] /\ sweep'[v] = sweep[v]
    PROVE  WriterInv'
<1>1. \A v \in Workers : m'[v] = IF v = w THEN x ELSE m[v]
  BY DEF TypeInv, InstanceTypes
<1>2. MapIs' /\ OpenedWhenGone'
  BY <1>1 DEF WriterInv, MapIs, OpenedWhenGone
<1>3. ASSUME NEW v \in Workers, NEW i \in 1..MaxLife, st[<<v, i>>] = "closing"
      PROVE  /\ live[v] = 0 /\ m'[v] \notin {"sweep", "open"}
             /\ closing'[v] \in Workers /\ m'[closing'[v]] = "sweep"
             /\ Head(sweep'[closing'[v]]) = <<v, i>>
             /\ m'[v] = "behind" => behind'[v] = closing'[v]
  <2>1. /\ live[v] = 0 /\ m[v] \notin {"sweep", "open"}
        /\ closing[v] \in Workers /\ m[closing[v]] = "sweep" /\ Head(sweep[closing[v]]) = <<v, i>>
        /\ m[v] = "behind" => behind[v] = closing[v]
    BY <1>3 DEF WriterInv, ClosingAwaited
  <2>2. closing'[v] = closing[v] /\ closing[v] # w
    BY <1>3
  <2>3. v = w => x # "open"
    BY <1>3
  <2> QED
    BY <1>1, <2>1, <2>2, <2>3
<1>4. ClosingAwaited'
  BY <1>3 DEF ClosingAwaited
<1> QED
  BY <1>2, <1>4 DEF WriterInv

(* An opening takes note of the eviction of its worker that is under way. *)
LEMMA RegistryKeepsWriter ==
    ASSUME TypeInv, WriterInv, NEW w \in Workers, Registry(w)
    PROVE  WriterInv'
<1>1. /\ m[w] = "registry" /\ m' = [m EXCEPT ![w] = "behind"]
      /\ behind' = [behind EXCEPT ![w] = closing[w]] /\ UNCHANGED <<sweep, life, st, live, closing>>
  BY DEF Registry, instVars
<1>2. live[w] = 0
  BY <1>1 DEF WriterInv, OpenedWhenGone
<1>3. behind'[w] = closing[w] /\ \A v \in Workers \ {w} : behind'[v] = behind[v]
  BY <1>1 DEF TypeInv, InstanceTypes
<1>4. \A v \in Workers, i \in 1..MaxLife : st[<<v, i>>] = "closing" => closing[v] # w
  BY <1>1, NoSweeper
<1>5. "behind" \in {"none", "behind", "open"} /\ "behind" # "open"
  OBVIOUS
<1> QED
  BY <1>1, <1>2, <1>3, <1>4, <1>5, GoesOnKeepsWriter

(* evictIdle goes on: what it takes next still runs. *)
LEMMA SweptKeepsWriter ==
    ASSUME TypeInv, WriterInv, SweepsCurrent, NEW w \in Workers, Swept(w)
    PROVE  WriterInv'
<1> DEFINE e == Head(sweep[w])
           done == IF closing[e[1]] = w THEN [closing EXCEPT ![e[1]] = NoOne] ELSE closing
           rest == Tail(sweep[w])
<1>1. /\ m[w] = "sweep" /\ st[e] \in {"closed", "broken", "dead"}
      /\ UNCHANGED <<callVars, inst, behind, life, mail>>
      /\ \/ MaterializeFails(w, "failed") /\ closing' = done /\ UNCHANGED <<st, live>>
         \/ /\ m' = [m EXCEPT ![w] = "open"] /\ sweep' = [sweep EXCEPT ![w] = rest]
            /\ closing' = done /\ UNCHANGED <<st, live>>
         \/ /\ rest # <<>> /\ sweep' = [sweep EXCEPT ![w] = rest] /\ EvictFirst(w, rest, done)
            /\ UNCHANGED m
  BY DEF Swept
<1>2. sweep[w] # <<>> /\ sweep[w] \in Seq(Instances) /\ InstanceTypes
  BY <1>1 DEF TypeInv, Boxes, InstanceTypes
<1>3. e \in Instances /\ rest \in Seq(Instances) /\ Len(rest) = Len(sweep[w]) - 1
  BY <1>2, HeadTailProperties
<1>4. /\ live[w] = 0 /\ \A i \in 1..MaxLife : st[<<w, i>>] # "closing"
      /\ \A v \in Workers, i \in 1..MaxLife : st[<<v, i>>] = "closing" => closing[v] # w
  <2>1. st[Head(sweep[w])] # "closing"
    BY <1>1
  <2> QED
    BY <1>1, <2>1, NoSweeper DEF WriterInv, OpenedWhenGone, ClosingAwaited
<1>5. done \in [Workers -> Workers \cup {NoOne}] /\ \A v \in Workers : closing[v] # w => done[v] = closing[v]
  BY <1>2, <1>3 DEF InstanceTypes
<1>6. ASSUME NEW x \in {"none", "open"}, m' = [m EXCEPT ![w] = x],
             \A v \in Workers \ {w} : sweep'[v] = sweep[v], closing' = done, UNCHANGED <<st, live>>
      PROVE  WriterInv'
  <2>1. x \in {"none", "behind", "open"} /\ x # "behind"
    BY <1>6
  <2>2. UNCHANGED <<life, st, live>> /\ behind' = behind
    BY <1>1, <1>6
  <2> HIDE DEF done, rest, e
  <2> QED
    BY <1>4, <1>5, <1>6, <2>1, <2>2, GoesOnKeepsWriter
<1>7. CASE MaterializeFails(w, "failed") /\ closing' = done /\ UNCHANGED <<st, live>>
  <2>1. m' = [m EXCEPT ![w] = "none"] /\ \A v \in Workers \ {w} : sweep'[v] = sweep[v]
    BY <1>2, <1>7 DEF MaterializeFails, InstanceTypes
  <2> QED
    BY <1>6, <1>7, <2>1
<1>8. CASE m' = [m EXCEPT ![w] = "open"] /\ sweep' = [sweep EXCEPT ![w] = rest]
           /\ closing' = done /\ UNCHANGED <<st, live>>
  <2>1. \A v \in Workers \ {w} : sweep'[v] = sweep[v]
    BY <1>2, <1>8 DEF InstanceTypes
  <2> QED
    BY <1>6, <1>8, <2>1
<1>9. CASE rest # <<>> /\ sweep' = [sweep EXCEPT ![w] = rest] /\ EvictFirst(w, rest, done)
           /\ UNCHANGED m
  <2>1. Len(sweep[w]) > 1
    BY <1>2, <1>3, <1>9, EmptySeq
  <2>2. PICK g \in Workers, k \in 1..MaxLife : Head(rest) = <<g, k>>
    BY <1>3, <1>9, HeadTailProperties DEF Instances
  <2>3. live[g] = k /\ st[<<g, k>>] = "open"
    <3>1. live[Head(rest)[1]] = Head(rest)[2] /\ st[Head(rest)] = "open"
      BY <1>1, <2>1 DEF SweepsCurrent
    <3> HIDE DEF rest
    <3>2. Head(rest)[1] = g /\ Head(rest)[2] = k
      BY <2>2
    <3> QED
      BY <2>2, <3>1, <3>2
  <2>4. m' = [m EXCEPT ![w] = "sweep"] /\ UNCHANGED life /\ \A v \in Workers \ {w} : behind'[v] = behind[v]
    BY <1>1, <1>2, <1>9 DEF InstanceTypes
  <2> HIDE DEF done, rest, e
  <2>5. /\ live' = [live EXCEPT ![g] = 0] /\ closing' = [done EXCEPT ![g] = w]
        /\ st' = [st EXCEPT ![<<g, k>>] = "closing"]
    BY <1>3, <1>9, <2>2, <2>3, EvictIs
  <2>6. /\ closing'[g] = w /\ \A v \in Workers \ {g} : closing[v] # w => closing'[v] = closing[v]
    BY <1>5, <2>2, <2>5
  <2>7. Head(sweep'[w]) = <<g, k>> /\ \A v \in Workers \ {w} : sweep'[v] = sweep[v]
    BY <1>2, <1>9, <2>2 DEF InstanceTypes
  <2> QED
    BY <1>4, <2>2, <2>3, <2>4, <2>5, <2>6, <2>7, EvictKeepsWriter
<1> QED
  BY <1>1, <1>7, <1>8, <1>9

(* The new instance is alone: none is in the map, and none is closing. *)
LEMMA OpenKeepsWriter ==
    ASSUME TypeInv, WriterInv, NEW w \in Workers, Open(w)
    PROVE  WriterInv'
<1> DEFINE k == life[w] + 1
<1>1. /\ m[w] = "open" /\ life[w] < MaxLife /\ life' = [life EXCEPT ![w] = k]
      /\ live' = [live EXCEPT ![w] = k] /\ m' = [m EXCEPT ![w] = "start"]
      /\ st' = [st EXCEPT ![<<w, k>>] = "starting"]
      /\ UNCHANGED <<behind, sweep, closing>>
  BY DEF Open
<1>2. InstanceTypes /\ k \in 1..MaxLife
  BY <1>1, TypeFacts DEF TypeInv
<1>3. live[w] = 0 /\ \A i \in 1..MaxLife : st[<<w, i>>] \notin {"starting", "open", "closing"}
  BY <1>1 DEF WriterInv, MapIs, OpenedWhenGone, ClosingAwaited
<1> HIDE DEF k
<1>4. /\ \A v \in Workers : /\ live'[v] = IF v = w THEN k ELSE live[v]
                            /\ life'[v] = IF v = w THEN k ELSE life[v]
                            /\ m'[v] = IF v = w THEN "start" ELSE m[v]
      /\ \A v \in Workers, i \in 1..MaxLife :
            st'[<<v, i>>] = IF v = w /\ i = k THEN "starting" ELSE st[<<v, i>>]
  BY <1>1, <1>2 DEF InstanceTypes, Instances
<1>5. MapIs'
  <2>1. \A v \in Workers, i \in 1..MaxLife : st'[<<v, i>>] \in {"starting", "open"} => live'[v] = i
    BY <1>3, <1>4 DEF WriterInv, MapIs
  <2>2. ASSUME NEW v \in Workers, live'[v] # 0
        PROVE  st'[<<v, live'[v]>>] \in {"starting", "open"}
    <3>1. CASE v = w
      BY <1>2, <1>4, <3>1
    <3>2. CASE v # w
      <4>1. live'[v] = live[v] /\ live[v] \in 1..MaxLife
        BY <1>4, <2>2, <3>2, TypeFacts
      <4>2. st'[<<v, live[v]>>] = st[<<v, live[v]>>]
        BY <1>4, <3>2, <4>1
      <4> QED
        BY <2>2, <4>1, <4>2 DEF WriterInv, MapIs
    <3> QED
      BY <3>1, <3>2
  <2> QED
    BY <2>1, <2>2 DEF MapIs
<1>6. OpenedWhenGone'
  <2>1. ASSUME NEW v \in Workers, m'[v] = "start"
        PROVE  live'[v] = life'[v] /\ st'[<<v, life'[v]>>] = "starting"
    <3>1. CASE v = w
      BY <1>2, <1>4, <3>1
    <3>2. CASE v # w
      <4>1. m[v] = "start" /\ life[v] \in 1..MaxLife /\ life'[v] = life[v] /\ live'[v] = live[v]
        BY <1>4, <2>1, <3>2, TypeFacts DEF TypeInv, Boxes
      <4> QED
        BY <1>4, <3>2, <4>1 DEF WriterInv, OpenedWhenGone
    <3> QED
      BY <3>1, <3>2
  <2> QED
    BY <1>4, <2>1 DEF WriterInv, OpenedWhenGone
<1>7. ASSUME NEW v \in Workers, NEW i \in 1..MaxLife, st'[<<v, i>>] = "closing"
      PROVE  /\ live'[v] = 0 /\ m'[v] \notin {"sweep", "open"}
             /\ closing'[v] \in Workers /\ m'[closing'[v]] = "sweep"
             /\ Head(sweep'[closing'[v]]) = <<v, i>>
             /\ m'[v] = "behind" => behind'[v] = closing'[v]
  <2>1. v # w /\ st[<<v, i>>] = "closing"
    BY <1>3, <1>4, <1>7
  <2>2. /\ live[v] = 0 /\ m[v] \notin {"sweep", "open"}
        /\ closing[v] \in Workers /\ m[closing[v]] = "sweep" /\ Head(sweep[closing[v]]) = <<v, i>>
        /\ m[v] = "behind" => behind[v] = closing[v]
    BY <2>1 DEF WriterInv, ClosingAwaited
  <2> QED
    BY <1>1, <1>4, <2>1, <2>2
<1> QED
  BY <1>5, <1>6, <1>7 DEF WriterInv, ClosingAwaited

(* An opening that fails leaves the instances alone. *)
LEMMA OpenFailsKeepsWriter ==
    ASSUME TypeInv, WriterInv, NEW w \in Workers, OpenFails(w)
    PROVE  WriterInv'
<1>1. /\ m[w] \in {"registry", "open"} /\ m' = [m EXCEPT ![w] = "none"]
      /\ sweep' = [sweep EXCEPT ![w] = <<>>] /\ UNCHANGED <<behind, life, st, live, closing>>
  BY DEF OpenFails, MaterializeFails, instVars
<1>2. \A v \in Workers \ {w} : behind'[v] = behind[v] /\ sweep'[v] = sweep[v]
  BY <1>1 DEF TypeInv, InstanceTypes
<1>3. \A v \in Workers, i \in 1..MaxLife : st[<<v, i>>] = "closing" => closing[v] # w
  BY <1>1, NoSweeper
<1>4. "none" \in {"none", "behind", "open"} /\ "none" \notin {"behind", "open"}
  OBVIOUS
<1> QED
  BY <1>1, <1>2, <1>3, <1>4, GoesOnKeepsWriter

(* start() ends: the instance goes on, or leaves the map. *)
LEMMA StartEndsKeepsWriter ==
    ASSUME TypeInv, WriterInv, NEW w \in Workers, Started(w) \/ \E r \in Answers : StartFails(w, r)
    PROVE  WriterInv'
<1> DEFINE k == life[w]
<1>1. /\ m[w] = "start" /\ m' = [m EXCEPT ![w] = "none"]
      /\ UNCHANGED <<behind, life, closing>>
      /\ \A v \in Workers \ {w} : sweep'[v] = sweep[v]
  BY DEF Started, StartFails, MaterializeFails, TypeInv, InstanceTypes
<1>2. k \in 1..MaxLife /\ InstanceTypes /\ live[w] = k /\ st[<<w, k>>] = "starting"
  BY <1>1, TypeFacts DEF TypeInv, Boxes, WriterInv, OpenedWhenGone
<1>3. PICK l \in {0, k}, s \in {"open", "dead"} :
         /\ live' = [live EXCEPT ![w] = l] /\ st' = [st EXCEPT ![<<w, k>>] = s]
         /\ l = 0 <=> s = "dead"
  <2>1. CASE Started(w)
    <3>1. live' = [live EXCEPT ![w] = k] /\ st' = [st EXCEPT ![<<w, k>>] = "open"]
      BY <1>2, <2>1 DEF Started, InstanceTypes
    <3> QED
      BY <1>2, <3>1
  <2>2. CASE \E r \in Answers : StartFails(w, r)
    BY <1>2, <2>2 DEF StartFails
  <2> QED
    BY <2>1, <2>2
<1> HIDE DEF k
<1>4. /\ \A v \in Workers : /\ live'[v] = IF v = w THEN l ELSE live[v]
                            /\ m'[v] = IF v = w THEN "none" ELSE m[v]
      /\ \A v \in Workers, i \in 1..MaxLife :
            st'[<<v, i>>] = IF v = w /\ i = k THEN s ELSE st[<<v, i>>]
  BY <1>1, <1>2, <1>3 DEF InstanceTypes, Instances
<1>5. \A v \in Workers, i \in 1..MaxLife : st'[<<v, i>>] \in {"starting", "open"} => live'[v] = i
  BY <1>2, <1>3, <1>4 DEF WriterInv, MapIs
<1>6. ASSUME NEW v \in Workers, live'[v] # 0
      PROVE  st'[<<v, live'[v]>>] \in {"starting", "open"}
  <2>1. CASE v = w
    BY <1>2, <1>3, <1>4, <1>6, <2>1
  <2>2. CASE v # w
    <3>1. live'[v] = live[v] /\ live[v] \in 1..MaxLife
      BY <1>4, <1>6, <2>2, TypeFacts
    <3>2. st'[<<v, live[v]>>] = st[<<v, live[v]>>]
      BY <1>4, <2>2, <3>1
    <3> QED
      BY <1>6, <3>1, <3>2 DEF WriterInv, MapIs
  <2> QED
    BY <2>1, <2>2
<1>7. ASSUME NEW v \in Workers, m'[v] = "start"
      PROVE  live'[v] = life'[v] /\ st'[<<v, life'[v]>>] = "starting"
  <2>1. v # w /\ m[v] = "start" /\ life[v] \in 1..MaxLife
    BY <1>4, <1>7, TypeFacts DEF TypeInv, Boxes
  <2> QED
    BY <1>1, <1>4, <2>1 DEF WriterInv, OpenedWhenGone
<1>8. \A v \in Workers : m'[v] \in {"registry", "behind", "sweep", "open"} => live'[v] = 0
  BY <1>4 DEF WriterInv, OpenedWhenGone
<1>9. ASSUME NEW v \in Workers, NEW i \in 1..MaxLife, st'[<<v, i>>] = "closing"
      PROVE  /\ live'[v] = 0 /\ m'[v] \notin {"sweep", "open"}
             /\ closing'[v] \in Workers /\ m'[closing'[v]] = "sweep"
             /\ Head(sweep'[closing'[v]]) = <<v, i>>
             /\ m'[v] = "behind" => behind'[v] = closing'[v]
  <2>1. st[<<v, i>>] = "closing"
    BY <1>3, <1>4, <1>9
  <2>2. /\ live[v] = 0 /\ m[v] \notin {"sweep", "open"}
        /\ closing[v] \in Workers /\ m[closing[v]] = "sweep" /\ Head(sweep[closing[v]]) = <<v, i>>
        /\ m[v] = "behind" => behind[v] = closing[v]
    BY <2>1 DEF WriterInv, ClosingAwaited
  <2>3. v # w /\ closing[v] # w
    BY <1>1, <1>2, <2>2
  <2> QED
    BY <1>1, <1>4, <2>2, <2>3
<1> QED
  BY <1>5, <1>6, <1>7, <1>8, <1>9 DEF WriterInv, MapIs, OpenedWhenGone, ClosingAwaited

(* An instance that has closed writes no more. *)
LEMMA CloseKeepsWriter ==
    ASSUME TypeInv, WriterInv, NEW e \in Instances, NEW end \in {"closed", "broken"}, Close(e, end)
    PROVE  WriterInv'
<1>1. /\ st[e] = "closing" /\ st' = [st EXCEPT ![e] = end]
      /\ UNCHANGED <<m, behind, sweep, life, live, closing>>
  BY DEF Close, openVars
<1>2. PICK g \in Workers, k \in 1..MaxLife : e = <<g, k>>
  BY DEF Instances
<1>3. \A v \in Workers, i \in 1..MaxLife : st'[<<v, i>>] = IF v = g /\ i = k THEN end ELSE st[<<v, i>>]
  BY <1>1, <1>2 DEF TypeInv, InstanceTypes, Instances
<1>4. \A v \in Workers, i \in 1..MaxLife :
         st'[<<v, i>>] \in {"starting", "open", "closing"} => st'[<<v, i>>] = st[<<v, i>>]
  BY <1>3
<1>5. ASSUME NEW v \in Workers, live[v] # 0
      PROVE  st'[<<v, live[v]>>] = st[<<v, live[v]>>]
  <2>1. live[v] \in 1..MaxLife /\ st[<<v, live[v]>>] # "closing"
    BY <1>5, TypeFacts DEF WriterInv, MapIs
  <2>2. ~(v = g /\ live[v] = k)
    BY <1>1, <1>2, <2>1
  <2> QED
    BY <1>3, <2>1, <2>2
<1>6. MapIs'
  BY <1>1, <1>4, <1>5 DEF WriterInv, MapIs
<1>7. OpenedWhenGone'
  <2>1. ASSUME NEW v \in Workers, m[v] = "start"
        PROVE  live[v] = life[v] /\ st'[<<v, life[v]>>] = "starting"
    <3>1. live[v] = life[v] /\ st[<<v, life[v]>>] = "starting" /\ life[v] # 0
      BY <2>1 DEF WriterInv, OpenedWhenGone, TypeInv, Boxes
    <3> QED
      BY <1>5, <3>1
  <2> QED
    BY <1>1, <2>1 DEF WriterInv, OpenedWhenGone
<1>8. ClosingAwaited'
  BY <1>1, <1>4 DEF WriterInv, ClosingAwaited
<1> QED
  BY <1>6, <1>7, <1>8 DEF WriterInv
-----------------------------------------------------------------------------
(* At first there is no instance. *)
LEMMA WriterInit ==
    ASSUME Init
    PROVE  WriterInv
  BY DEF Init, WriterInv, MapIs, OpenedWhenGone, ClosingAwaited, Instances

(* Every step keeps one writer, while what is swept is what runs. *)
LEMMA WriterStep ==
    ASSUME TypeInv, WriterInv, SweepsCurrent, [Next]_vars
    PROVE  WriterInv'
<1>1. CASE UNCHANGED vars
  BY <1>1, CallsKeepWriter DEF vars, openVars, instVars
<1>2. CASE Code \/ Calling
  BY <1>2, CallingKeepsWriter
<1>3. CASE Materializing
  BY <1>3, RegistryKeepsWriter, SweepKeepsWriter, SweptKeepsWriter, OpenKeepsWriter, OpenFailsKeepsWriter,
     StartEndsKeepsWriter, CloseKeepsWriter DEF Materializing
<1> QED
  BY <1>1, <1>2, <1>3 DEF Next

(* For any workers, sweeps and failures: as long as no sweep comes to an instance*)
(* of its list that does not run any more, no two instances of a worker write its*)
(* file at a time.  The list evictIdle makes once is all the writer depends on.*)
THEOREM OneWriterWhileCurrent == Spec /\ []SweepsCurrent => []OneWriter
<1>1. TypeInv /\ WriterInv /\ SweepsCurrent /\ [Next]_vars => TypeInv' /\ WriterInv'
  BY TypeInvStep, WriterStep
<1>2. Init => TypeInv /\ WriterInv
  BY TypeInvInit, WriterInit
<1>3. WriterInv => OneWriter
  BY WriterIsOne
<1> QED
  BY <1>1, <1>2, <1>3, PTL DEF Spec

(* When a sweep takes one instance at most, its list does not grow old. *)
ShortSweeps == \A w \in Workers : Len(sweep[w]) <= 1

(* Every step keeps the lists short. *)
LEMMA ShortStep ==
    ASSUME MaxSweep <= 1, TypeInv, ShortSweeps, [Next]_vars
    PROVE  ShortSweeps'
<1>0. sweep \in [Workers -> Seq(Instances)] /\ Len(<<>>) = 0
  BY DEF TypeInv, InstanceTypes
<1>1. ASSUME NEW w \in Workers, NEW list \in Seq(Instances), sweep' = [sweep EXCEPT ![w] = list],
             Len(list) <= 1
      PROVE  ShortSweeps'
  BY <1>0, <1>1 DEF ShortSweeps
<1>2. ASSUME NEW w \in Workers, sweep' = [sweep EXCEPT ![w] = <<>>]
      PROVE  ShortSweeps'
  <2>1. \A v \in Workers : sweep'[v] = <<>> \/ sweep'[v] = sweep[v]
    BY <1>0, <1>2
  <2>2. Len(<<>>) <= 1
    BY <1>0
  <2> QED
    BY <2>1, <2>2 DEF ShortSweeps
<1>3. ASSUME NEW w \in Workers, Sweep(w)
      PROVE  ShortSweeps'
  <2>1. PICK list \in Sweeps : sweep' = [sweep EXCEPT ![w] = list]
    BY <1>3 DEF Sweep
  <2>2. PICK n \in 0..MaxSweep : list \in [1..n -> Closeable]
    BY DEF Sweeps, Lists
  <2>3. n \in Nat /\ n <= 1
    BY CallsAssumption DEF CallsAssumption
  <2>4. Len(list) = n
    BY <2>2, <2>3
  <2>5. list \in Seq(Instances)
    BY SweepsAre DEF TypeInv
  <2> QED
    BY <1>1, <2>1, <2>3, <2>4, <2>5
<1>4. ASSUME NEW w \in Workers, Swept(w)
      PROVE  ShortSweeps'
  <2>1. sweep[w] # <<>> /\ sweep[w] \in Seq(Instances) /\ Len(sweep[w]) <= 1
    BY <1>0, <1>4 DEF Swept, TypeInv, Boxes, ShortSweeps
  <2>2. Tail(sweep[w]) \in Seq(Instances) /\ Len(Tail(sweep[w])) <= 1
    <3>1. Tail(sweep[w]) \in Seq(Instances) /\ Len(Tail(sweep[w])) = Len(sweep[w]) - 1
      BY <2>1, HeadTailProperties
    <3> QED
      BY <2>1, <3>1
  <2>3. sweep' \in {[sweep EXCEPT ![w] = <<>>], [sweep EXCEPT ![w] = Tail(sweep[w])]}
    BY <1>4 DEF Swept, MaterializeFails
  <2> QED
    BY <1>1, <1>2, <2>2, <2>3
<1>5. ASSUME UNCHANGED sweep
      PROVE  ShortSweeps'
  BY <1>5 DEF ShortSweeps
<1>6. CASE UNCHANGED vars
  BY <1>5, <1>6 DEF vars, openVars
<1>7. CASE Code \/ Calling
  BY <1>5, <1>7 DEF Code, Calling, MakeCall, Leave, LeaveFails, Enqueue, Return, Throw, Release, openVars
<1>8. CASE Materializing
  BY <1>2, <1>3, <1>4, <1>5, <1>8
  DEF Materializing, Registry, Open, OpenFails, Started, StartFails, MaterializeFails, Close, openVars
<1> QED
  BY <1>6, <1>7, <1>8 DEF Next

(* For any workers, calls and failures, when a sweep takes one instance at most: the*)
(* types hold, and a worker's file has one writer at a time, across evictions,*)
(* reopenings, and starts and closes that fail.                             *)
THEOREM InstancesHold ==
    ASSUME MaxSweep <= 1
    PROVE  Spec => []InstancesInv
<1> DEFINE Inv == TypeInv /\ WriterInv /\ ShortSweeps
<1>1. Inv => InstancesInv
  BY TypesHold, WriterIsOne DEF InstancesInv
<1>2. Init => Inv
  BY TypeInvInit, WriterInit DEF Init, ShortSweeps
<1>3. Inv /\ [Next]_vars => Inv'
  <2> SUFFICES ASSUME Inv, [Next]_vars
               PROVE  Inv'
    OBVIOUS
  <2>1. SweepsCurrent
    <3>1. \A w \in Workers : Len(sweep[w]) \in Nat /\ Len(sweep[w]) <= 1
      BY DEF TypeInv, InstanceTypes, ShortSweeps
    <3> QED
      BY <3>1 DEF SweepsCurrent
  <2> QED
    BY <2>1, TypeInvStep, WriterStep, ShortStep
<1> HIDE DEF Inv
<1> QED
  BY <1>1, <1>2, <1>3, PTL DEF Spec
=============================================================================
