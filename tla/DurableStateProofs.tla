------------------------- MODULE DurableStateProofs -------------------------
(***************************************************************************)
(* Proofs about the output gate: the types for any use of transactions, and,  *)
(* until one is called over unwritten changes, the gate itself and the        *)
(* refinement of DurableWorker.                                              *)
(***************************************************************************)
EXTENDS DurableState, TLAPS

(* What a flush or a transaction carries is a version function. *)
LEMMA VersionsClosed ==
    /\ None \in Versions
    /\ \A p, d \in Versions : Over(d, p) \in Versions
    /\ \A v \in Versions : \A D : Pending(v, D) \in Versions
  BY DurableAssumption DEF Versions, None, Over, Pending

(* #schedule keeps the books: the flush it promises is the one in flight or    *)
(* the next.                                                                 *)
LEMMA ScheduleType ==
    ASSUME FlushType, Schedule
    PROVE  FlushType' /\ gen' \in {gen, gen + 1} /\ Scheduled <= gen' + 1
<1>1. Ended' = Ended /\ gen' \in {gen, gen + 1} /\ gen' \in Nat
  BY DEF FlushType, Schedule, Ended, Flushes
<1>2. CASE flush = "none"
  BY <1>1, <1>2 DEF FlushType, Schedule, Scheduled, Flushes
<1>3. CASE flush # "none"
  BY <1>1, <1>3 DEF FlushType, Schedule, Scheduled, Flushes
<1> QED
  BY <1>2, <1>3

(* Every action keeps the types, the bookkeeping of flush numbers included.   *)
LEMMA TypeStep == TypeOK /\ [Next]_vars => TypeOK'
<1> USE DurableAssumption DEF flushVars, txVars, callVars, TypeOK
<1> SUFFICES ASSUME StoreType, FlushType, CallType, [Next]_vars
             PROVE  StoreType' /\ FlushType' /\ CallType'
  OBVIOUS
<1>v. /\ None \in Versions
      /\ \A p, d \in Versions : Over(d, p) \in Versions
      /\ \A v \in Versions : \A D : Pending(v, D) \in Versions
  BY VersionsClosed
<1>1. ASSUME NEW c \in Calls, Start(c)
      PROVE  StoreType' /\ FlushType' /\ CallType'
  <2>1. StoreType'
    BY <1>1, <1>v DEF Start, StoreType, FlushType, CallType
  <2>2. FlushType'
    BY <1>1, <1>v DEF Start, FlushType, StoreType, Ended, Flushes
  <2>3. CallType'
    BY <1>1, <1>v DEF Start, CallType, FlushType
  <2> QED
    BY <2>1, <2>2, <2>3
<1>2. ASSUME NEW c \in Calls, Return(c)
      PROVE  StoreType' /\ FlushType' /\ CallType'
  <2>1. StoreType'
    BY <1>2, <1>v DEF Return, StoreType, FlushType, CallType
  <2>2. FlushType' /\ gen' \in {gen, gen + 1} /\ wait'[c] \in Nat /\ wait'[c] <= gen' + 1
    <3>1. CASE dirty # {}
      <4>1. Schedule /\ wait'[c] = Scheduled
        BY <1>2, <3>1 DEF Return, CallType
      <4>2. Scheduled \in Nat
        BY DEF Scheduled, FlushType
      <4> QED
        BY <4>1, <4>2, ScheduleType
    <3>2. CASE dirty = {}
      <4>1. UNCHANGED flushVars /\ wait'[c] \in {0, gen}
        BY <1>2, <3>2 DEF Return, CallType
      <4>2. FlushType'
        BY <4>1 DEF FlushType, Ended
      <4> QED
        BY <4>1, <4>2 DEF FlushType
    <3> QED
      BY <3>1, <3>2
  <2>3. CallType'
    <3>1. Promised \in Versions
      BY DEF Promised, Versions, StoreType
    <3> QED
      BY <1>2, <2>2, <3>1 DEF Return, CallType, FlushType
<2> QED
    BY <2>1, <2>2, <2>3
<1>3. ASSUME NEW c \in Calls, Throw(c)
      PROVE  StoreType' /\ FlushType' /\ CallType'
  <2>1. StoreType'
    BY <1>3, <1>v DEF Throw, StoreType, FlushType, CallType
  <2>2. FlushType'
    BY <1>3, <1>v DEF Throw, FlushType, StoreType, Ended, Flushes
  <2>3. CallType'
    BY <1>3, <1>v DEF Throw, CallType, FlushType
  <2> QED
    BY <2>1, <2>2, <2>3
<1>4. ASSUME NEW k \in Keys, Set(k)
      PROVE  StoreType' /\ FlushType' /\ CallType'
  <2>1. StoreType'
    <3>1. values' \in Versions
      BY <1>4 DEF Set, StoreType, Versions
    <3> QED
      BY <1>4, <1>v, <3>1 DEF Set, StoreType, FlushWithin, CodeRuns
  <2>2. FlushType' /\ gen' \in {gen, gen + 1}
    <3>1. CASE tx = "open"
      BY <1>4, <3>1 DEF Set, FlushType, Ended
    <3>2. CASE tx # "open"
      BY <1>4, <3>2, ScheduleType DEF Set
    <3> QED
      BY <3>1, <3>2
  <2>3. CallType'
    BY <1>4, <2>2 DEF Set, CallType, FlushType
<2> QED
    BY <2>1, <2>2, <2>3
<1>5. ASSUME Touch PROVE StoreType' /\ FlushType' /\ CallType'
  <2>1. StoreType'
    BY <1>5, <1>v DEF Touch, StoreType, FlushType, CallType
  <2>2. FlushType' /\ gen' \in {gen, gen + 1}
    BY <1>5, ScheduleType DEF Touch
  <2>3. CallType'
    BY <1>5, <2>2 DEF Touch, CallType, FlushType
<2> QED
    BY <2>1, <2>2, <2>3
<1>6. ASSUME TxCall PROVE StoreType' /\ FlushType' /\ CallType'
  <2>1. StoreType'
    BY <1>6, <1>v DEF TxCall, StoreType, FlushType, CallType
  <2>2. FlushType'
    BY <1>6, <1>v DEF TxCall, FlushType, StoreType, Ended, Flushes
  <2>3. CallType'
    BY <1>6, <1>v DEF TxCall, CallType, FlushType
  <2> QED
    BY <2>1, <2>2, <2>3
<1>7. ASSUME TxStart PROVE StoreType' /\ FlushType' /\ CallType'
  <2>1. StoreType'
    BY <1>7, <1>v DEF TxStart, StoreType, FlushType, CallType
  <2>2. FlushType'
    BY <1>7, <1>v DEF TxStart, FlushType, StoreType, Ended, Flushes
  <2>3. CallType'
    BY <1>7, <1>v DEF TxStart, CallType, FlushType
  <2> QED
    BY <2>1, <2>2, <2>3
<1>8. ASSUME Crash PROVE StoreType' /\ FlushType' /\ CallType'
  <2>1. StoreType'
    BY <1>8, <1>v DEF Crash, StoreType, FlushType, CallType
  <2>2. FlushType'
    <3>1. Ended <= Ended' /\ Ended \in Int /\ Ended' \in Int
      BY <1>8 DEF Crash, FlushType, Ended
    <3>2. bad' \subseteq 1..Ended'
      BY <1>8, <3>1 DEF Crash, FlushType
    <3> QED
      BY <1>8, <1>v, <3>2 DEF Crash, FlushType, Flushes
  <2>3. CallType'
    BY <1>8, <1>v DEF Crash, CallType, FlushType
  <2> QED
    BY <2>1, <2>2, <2>3
<1>9. ASSUME TxRollback PROVE StoreType' /\ FlushType' /\ CallType'
  <2>1. StoreType'
    BY <1>9, <1>v DEF TxRollback, StoreType, Carries
  <2>2. FlushType'
    BY <1>9, <1>v DEF TxRollback, FlushType, StoreType, Ended, Flushes
  <2>3. CallType'
    BY <1>9, <1>v DEF TxRollback, CallType, FlushType
  <2> QED
    BY <2>1, <2>2, <2>3
<1>10. ASSUME NEW how \in {"asleep", "failed"}, StatementFails(how)
      PROVE  StoreType' /\ FlushType' /\ CallType'
  <2>1. StoreType'
    BY <1>10, <1>v DEF StatementFails, StoreType, FlushType, CallType
  <2>2. FlushType'
    BY <1>10, <1>v DEF StatementFails, FlushType, StoreType, Ended, Flushes
  <2>3. CallType'
    BY <1>10, <1>v DEF StatementFails, CallType, FlushType
  <2> QED
    BY <2>1, <2>2, <2>3
<1>11. ASSUME FlushStart PROVE StoreType' /\ FlushType' /\ CallType'
  <2>1. StoreType'
    BY <1>11, <1>v DEF FlushStart, StoreType, JoinChain
  <2>2. FlushType'
    <3>1. dirty = {} => Pending(values, dirty) = None
      BY DEF Pending, None
    <3> QED
      BY <1>11, <1>v, <3>1 DEF FlushStart, FlushType, StoreType, Ended, Flushes, JoinChain
  <2>3. CallType'
    BY <1>11, <1>v DEF FlushStart, CallType, FlushType
  <2> QED
    BY <2>1, <2>2, <2>3
<1>12. ASSUME StatementDone PROVE StoreType' /\ FlushType' /\ CallType'
  <2>1. StoreType'
    BY <1>12, <1>v DEF StatementDone, StoreType, FlushType, CallType
  <2>2. FlushType'
    BY <1>12, <1>v DEF StatementDone, FlushType, StoreType, Ended, Flushes
  <2>3. CallType'
    BY <1>12, <1>v DEF StatementDone, CallType, FlushType
  <2> QED
    BY <2>1, <2>2, <2>3
<1>13. ASSUME InnerDone PROVE StoreType' /\ FlushType' /\ CallType'
  <2>1. StoreType'
    BY <1>13, <1>v DEF InnerDone, StoreType, FlushType, CallType
  <2>2. FlushType'
    BY <1>13, <1>v DEF InnerDone, FlushType, StoreType, Ended, Flushes
  <2>3. CallType'
    BY <1>13, <1>v DEF InnerDone, CallType, FlushType
  <2> QED
    BY <2>1, <2>2, <2>3
<1>14. ASSUME Retry PROVE StoreType' /\ FlushType' /\ CallType'
  <2>1. StoreType'
    BY <1>14, <1>v DEF Retry, StoreType, FlushType, JoinChain
  <2>2. FlushType'
    BY <1>14 DEF Retry, FlushType, Ended, Flushes, JoinChain
  <2>3. CallType'
    BY <1>14, <1>v DEF Retry, CallType, FlushType
  <2> QED
    BY <2>1, <2>2, <2>3
<1>15. ASSUME FlushSucceeds PROVE StoreType' /\ FlushType' /\ CallType'
  <2>1. StoreType'
    BY <1>15, <1>v DEF FlushSucceeds, StoreType, FlushWithin
  <2>2. FlushType'
    BY <1>15, <1>v DEF FlushSucceeds, FlushType, StoreType, Ended, Flushes
  <2>3. CallType'
    BY <1>15, <1>v DEF FlushSucceeds, CallType, FlushType
  <2> QED
    BY <2>1, <2>2, <2>3
<1>16. ASSUME FlushFails PROVE StoreType' /\ FlushType' /\ CallType'
  <2>1. StoreType'
    BY <1>16, <1>v DEF FlushFails, StoreType, Carries
  <2>2. FlushType'
    BY <1>16, <1>v DEF FlushFails, FlushType, StoreType, Ended, Flushes
  <2>3. CallType'
    BY <1>16, <1>v DEF FlushFails, CallType, FlushType
  <2> QED
    BY <2>1, <2>2, <2>3
<1>17. ASSUME TxCommit PROVE StoreType' /\ FlushType' /\ CallType'
  <2>1. StoreType'
    BY <1>17, <1>v DEF TxCommit, StoreType, FlushType, CallType
  <2>2. FlushType'
    BY <1>17, <1>v DEF TxCommit, FlushType, StoreType, Ended, Flushes
  <2>3. CallType'
    BY <1>17, <1>v DEF TxCommit, CallType, FlushType
  <2> QED
    BY <2>1, <2>2, <2>3
<1>18. ASSUME NEW c \in Calls, Release(c)
      PROVE  StoreType' /\ FlushType' /\ CallType'
  <2>1. StoreType'
    BY <1>18, <1>v DEF Release, StoreType, FlushType, CallType
  <2>2. FlushType'
    BY <1>18, <1>v DEF Release, FlushType, StoreType, Ended, Flushes
  <2>3. CallType'
    BY <1>18, <1>v DEF Release, CallType, FlushType
  <2> QED
    BY <2>1, <2>2, <2>3
<1>19. CASE UNCHANGED vars
  BY <1>19 DEF vars, StoreType, FlushType, CallType, Ended
<1> QED
  BY <1>1, <1>2, <1>3, <1>4, <1>5, <1>6, <1>7, <1>8, <1>9, <1>10, <1>11, <1>12, <1>13,
     <1>14, <1>15, <1>16, <1>17, <1>18, <1>19
     DEF Next, Guest, Faults, Flushing, Transacting, Releasing, Stopped

(* Every reachable state is well typed, for any keys, calls and transactions:  *)
(* a queued flush always has one in flight before it.                         *)
THEOREM StateTyped == Spec => []TypeOK
<1>1. Init => TypeOK
  <2> SUFFICES ASSUME Init PROVE TypeOK
    OBVIOUS
  <2>b. raced \in BOOLEAN
    BY DEF Init
  <2>1. StoreType
    BY <2>b, DurableAssumption, VersionsClosed DEF Init, StoreType
  <2>2. FlushType
    BY VersionsClosed DEF Init, FlushType, Ended, Flushes
  <2>3. CallType
    BY DurableAssumption, VersionsClosed DEF Init, CallType
  <2> QED
    BY <2>1, <2>2, <2>3 DEF TypeOK
<1> QED
  BY <1>1, TypeStep, PTL DEF Spec

-----------------------------------------------------------------------------
(* The gate.  A version in memory that is not in the file is dirty, carried by   *)
(* the flush in flight or in the open transaction; a waiting call's flush is    *)
(* one that takes or has taken what the call saw.                              *)
LEMMA GateStep == TypeOK /\ GateInv /\ ~raced' /\ [Next]_vars => GateInv'
<1> USE DurableAssumption DEF flushVars, txVars, callVars, GateInv
<1> SUFFICES ASSUME TypeOK, GateInv, ~raced', [Next]_vars PROVE GateInv'
  OBVIOUS
<1> DEFINE KeyInvs == \A k \in Keys : KeyInv(k)
           WaitInvs == \A c \in Calls : WaitInv(c)
           Grows == \A k \in Keys : disk[k] <= disk'[k]
<1>t. /\ StoreType /\ FlushType /\ CallType /\ TxAlone /\ AckedDurable /\ KeyInvs /\ WaitInvs
      /\ \A k \in Keys : /\ values[k] \in Nat /\ disk[k] \in Nat
                         /\ puts[k] \in Nat /\ txPuts[k] \in Nat
      /\ \A c \in Calls, k \in Keys : seen[c][k] \in Nat
  BY DEF TypeOK, StoreType, FlushType, CallType, Versions
<1>a. ASSUME Grows, call' = call, seen' = seen, disk' \in Versions PROVE AckedDurable'
  BY <1>a, <1>t DEF AckedDurable, Versions
<1>1. ASSUME NEW c \in Calls, Start(c) PROVE GateInv'
  <2>1. TxAlone'
    BY <1>1, <1>t DEF Start, TxAlone
  <2>2. KeyInvs'
    BY <1>1, <1>t DEF Start, KeyInv, TxAlone, StoreType, FlushType, None
  <2>3. AckedDurable'
    BY <1>1, <1>t DEF Start, AckedDurable, StoreType, CallType, KeyInv
  <2>4. WaitInvs'
    BY <1>1, <1>t
       DEF Start, WaitInv, Lands, Ended, TxAlone, KeyInv, FlushType, CallType, StoreType
  <2> QED
    BY <2>1, <2>2, <2>3, <2>4
<1>2. ASSUME NEW c \in Calls, Return(c) PROVE GateInv'
  <2>1. TxAlone'
    BY <1>2, <1>t DEF Return, Schedule, Scheduled, Promised, TxAlone
  <2>2. KeyInvs'
    BY <1>2, <1>t
       DEF Return, Schedule, Scheduled, Promised, KeyInv, TxAlone, StoreType, FlushType,
           None
  <2>3. AckedDurable'
    BY <1>2, <1>t
       DEF Return, Schedule, Scheduled, Promised, AckedDurable, StoreType, CallType, KeyInv
  <2>4. WaitInvs'
    <3> SUFFICES ASSUME NEW d \in Calls, call'[d] = "waiting" PROVE WaitInv(d)'
      BY DEF WaitInv
    <3>u. Ended' = Ended /\ gen \in Nat
      BY <1>2, <1>t DEF Return, Schedule, Ended, FlushType
    <3>1. CASE d # c
      <4>1. call[d] = "waiting" /\ wait'[d] = wait[d] /\ seen'[d] = seen[d]
        BY <1>2, <1>t, <3>1 DEF Return, CallType
      <4>2. CASE flush = "none" /\ dirty # {}
        BY <1>2, <1>t, <3>u, <4>1, <4>2
           DEF Return, Schedule, WaitInv, Ended, FlushType, CallType
      <4>3. CASE ~(flush = "none" /\ dirty # {})
        BY <1>2, <1>t, <3>u, <4>1, <4>3 DEF Return, Schedule, WaitInv, Lands, FlushType
      <4> QED
        BY <4>2, <4>3
    <3>2. CASE d = c
      <4>1. \A k \in Keys : /\ seen'[c][k] <= disk[k] \/ (seen'[c][k] = values[k] /\ k \notin undone)
                            /\ seen'[c][k] <= values[k]
        BY <1>2, <1>t DEF Return, Promised, CallType, KeyInv
      <4>2. tx = "none" /\ txPuts = None /\ \A k \in Keys : txPuts[k] = 0
        BY <1>2, <1>t DEF Return, StoreType, None
      <4>3. CASE dirty # {}
        BY <1>2, <1>t, <3>2, <3>u, <4>1, <4>2, <4>3
           DEF Return, Schedule, Scheduled, WaitInv, Lands, Ended, KeyInv, FlushType,
               CallType, TxAlone, Flushes, None
      <4>4. CASE dirty = {}
        BY <1>2, <1>t, <3>2, <3>u, <4>1, <4>2, <4>4
           DEF Return, WaitInv, Lands, Ended, KeyInv, FlushType, CallType, TxAlone,
               Flushes, None
      <4> QED
        BY <4>3, <4>4
    <3> QED
      BY <3>1, <3>2
  <2> QED
    BY <2>1, <2>2, <2>3, <2>4
<1>3. ASSUME NEW c \in Calls, Throw(c) PROVE GateInv'
  <2>1. TxAlone'
    BY <1>3, <1>t DEF Throw, TxAlone
  <2>2. KeyInvs'
    BY <1>3, <1>t DEF Throw, KeyInv, TxAlone, StoreType, FlushType, None
  <2>3. AckedDurable'
    BY <1>3, <1>t DEF Throw, AckedDurable, StoreType, CallType, KeyInv
  <2>4. WaitInvs'
    BY <1>3, <1>t
       DEF Throw, WaitInv, Lands, Ended, TxAlone, KeyInv, FlushType, CallType, StoreType
  <2> QED
    BY <2>1, <2>2, <2>3, <2>4
<1>4. ASSUME NEW k \in Keys, Set(k) PROVE GateInv'
  <2>1. TxAlone'
    BY <1>4, <1>t DEF Set, Schedule, FlushWithin, CodeRuns, Pending, Over, TxAlone
  <2>2. KeyInvs'
    BY <1>4, <1>t
       DEF Set, Schedule, FlushWithin, CodeRuns, Pending, Over, KeyInv, TxAlone, StoreType,
           FlushType, None
  <2>3. AckedDurable'
    BY <1>4, <1>t
       DEF Set, Schedule, FlushWithin, CodeRuns, Pending, Over, AckedDurable, StoreType,
           CallType, KeyInv
  <2>4. WaitInvs'
    BY <1>4, <1>t
       DEF Set, Schedule, FlushWithin, CodeRuns, Pending, Over, WaitInv, Lands, Ended,
           TxAlone, KeyInv, FlushType, CallType, StoreType
  <2> QED
    BY <2>1, <2>2, <2>3, <2>4
<1>5. ASSUME Touch PROVE GateInv'
  <2>1. TxAlone'
    BY <1>5, <1>t DEF Touch, Schedule, CodeRuns, TxAlone
  <2>2. KeyInvs'
    BY <1>5, <1>t DEF Touch, Schedule, CodeRuns, KeyInv, TxAlone, StoreType, FlushType, None
  <2>3. AckedDurable'
    BY <1>5, <1>t DEF Touch, Schedule, CodeRuns, AckedDurable, StoreType, CallType, KeyInv
  <2>4. WaitInvs'
    BY <1>5, <1>t
       DEF Touch, Schedule, CodeRuns, WaitInv, Lands, Ended, TxAlone, KeyInv, FlushType,
           CallType, StoreType
  <2> QED
    BY <2>1, <2>2, <2>3, <2>4
<1>6. ASSUME TxCall PROVE GateInv'
  <2>1. TxAlone'
    BY <1>6, <1>t DEF TxCall, TxAlone
  <2>2. KeyInvs'
    BY <1>6, <1>t DEF TxCall, KeyInv, TxAlone, StoreType, FlushType, None
  <2>3. AckedDurable'
    BY <1>6, <1>t DEF TxCall, AckedDurable, StoreType, CallType, KeyInv
  <2>4. WaitInvs'
    BY <1>6, <1>t
       DEF TxCall, WaitInv, Lands, Ended, TxAlone, KeyInv, FlushType, CallType, StoreType
  <2> QED
    BY <2>1, <2>2, <2>3, <2>4
<1>7. ASSUME TxStart PROVE GateInv'
  <2>1. TxAlone'
    BY <1>7, <1>t DEF TxStart, TxAlone
  <2>2. KeyInvs'
    BY <1>7, <1>t DEF TxStart, KeyInv, TxAlone, StoreType, FlushType, None
  <2>3. AckedDurable'
    BY <1>7, <1>t DEF TxStart, AckedDurable, StoreType, CallType, KeyInv
  <2>4. WaitInvs'
    BY <1>7, <1>t
       DEF TxStart, WaitInv, Lands, Ended, TxAlone, KeyInv, FlushType, CallType, StoreType
  <2> QED
    BY <2>1, <2>2, <2>3, <2>4
<1>8. ASSUME Crash PROVE GateInv'
  <2>1. TxAlone'
    BY <1>8, <1>t DEF Crash, None, TxAlone
  <2>2. KeyInvs'
    BY <1>8, <1>t DEF Crash, None, KeyInv, TxAlone, StoreType, FlushType, None
  <2>3. AckedDurable'
    BY <1>8, <1>t DEF Crash, None, AckedDurable, StoreType, CallType, KeyInv
  <2>4. WaitInvs'
    BY <1>8, <1>t
       DEF Crash, None, WaitInv, Lands, Ended, TxAlone, KeyInv, FlushType, CallType,
           StoreType
  <2> QED
    BY <2>1, <2>2, <2>3, <2>4
<1>9. ASSUME TxRollback PROVE GateInv'
  <2>1. TxAlone'
    BY <1>9, <1>t DEF TxRollback, Carries, TxAlone
  <2>2. KeyInvs'
    BY <1>9, <1>t DEF TxRollback, Carries, KeyInv, TxAlone, StoreType, FlushType, None
  <2>3. AckedDurable'
    BY <1>9, <1>t DEF TxRollback, Carries, AckedDurable, StoreType, CallType, KeyInv
  <2>4. WaitInvs'
    BY <1>9, <1>t
       DEF TxRollback, Carries, WaitInv, Lands, Ended, TxAlone, KeyInv, FlushType,
           CallType, StoreType
  <2> QED
    BY <2>1, <2>2, <2>3, <2>4
<1>10. ASSUME NEW how \in {"asleep", "failed"}, StatementFails(how) PROVE GateInv'
  <2>1. TxAlone'
    BY <1>10, <1>t DEF StatementFails, TxAlone
  <2>2. KeyInvs'
    BY <1>10, <1>t DEF StatementFails, KeyInv, TxAlone, StoreType, FlushType, None
  <2>3. AckedDurable'
    BY <1>10, <1>t DEF StatementFails, AckedDurable, StoreType, CallType, KeyInv
  <2>4. WaitInvs'
    BY <1>10, <1>t
       DEF StatementFails, WaitInv, Lands, Ended, TxAlone, KeyInv, FlushType, CallType,
           StoreType
  <2> QED
    BY <2>1, <2>2, <2>3, <2>4
<1>11. ASSUME FlushStart PROVE GateInv'
  <2>1. TxAlone'
    BY <1>11, <1>t DEF FlushStart, JoinChain, Pending, TxAlone
  <2>2. KeyInvs'
    BY <1>11, <1>t
       DEF FlushStart, JoinChain, Pending, KeyInv, TxAlone, StoreType, FlushType, None
  <2>3. AckedDurable'
    BY <1>11, <1>t
       DEF FlushStart, JoinChain, Pending, AckedDurable, StoreType, CallType, KeyInv
  <2>4. WaitInvs'
    <3> SUFFICES ASSUME NEW c \in Calls, call[c] = "waiting", WaitInv(c) PROVE WaitInv(c)'
      BY <1>11, <1>t DEF FlushStart, WaitInv
    <3>1. CASE dirty = {}
      BY <1>11, <1>t, <3>1
         DEF FlushStart, WaitInv, Lands, Ended, FlushType, CallType, None, Pending
    <3>2. CASE dirty # {}
      <4>1. /\ tx = "none" /\ flush' = "writing" /\ Ended' = Ended
            /\ \A k \in dirty : puts'[k] = values[k]
        BY <1>11, <1>t, <3>2
           DEF FlushStart, TxAlone, JoinChain, Ended, Pending, FlushType, StoreType
      <4> QED
        BY <1>11, <1>t, <3>2, <4>1
           DEF FlushStart, WaitInv, Lands, Ended, FlushType, CallType
    <3> QED
      BY <3>1, <3>2
  <2> QED
    BY <2>1, <2>2, <2>3, <2>4
<1>12. ASSUME StatementDone PROVE GateInv'
  <2>1. TxAlone'
    BY <1>12, <1>t DEF StatementDone, Over, TxAlone
  <2>2. KeyInvs'
    BY <1>12, <1>t DEF StatementDone, Over, KeyInv, TxAlone, StoreType, FlushType, None
  <2>3. AckedDurable'
    BY <1>12, <1>t DEF StatementDone, Over, AckedDurable, StoreType, CallType, KeyInv
  <2>4. WaitInvs'
    BY <1>12, <1>t
       DEF StatementDone, Over, WaitInv, Lands, Ended, TxAlone, KeyInv, FlushType,
           CallType, StoreType
  <2> QED
    BY <2>1, <2>2, <2>3, <2>4
<1>13. ASSUME InnerDone PROVE GateInv'
  <2>1. TxAlone'
    BY <1>13, <1>t DEF InnerDone, TxAlone
  <2>2. KeyInvs'
    BY <1>13, <1>t DEF InnerDone, KeyInv, TxAlone, StoreType, FlushType, None
  <2>3. AckedDurable'
    BY <1>13, <1>t DEF InnerDone, AckedDurable, StoreType, CallType, KeyInv
  <2>4. WaitInvs'
    BY <1>13, <1>t
       DEF InnerDone, WaitInv, Lands, Ended, TxAlone, KeyInv, FlushType, CallType, StoreType
  <2> QED
    BY <2>1, <2>2, <2>3, <2>4
<1>14. ASSUME Retry PROVE GateInv'
  <2>1. TxAlone'
    BY <1>14, <1>t DEF Retry, JoinChain, TxAlone
  <2>2. KeyInvs'
    BY <1>14, <1>t DEF Retry, JoinChain, KeyInv, TxAlone, StoreType, FlushType, None
  <2>3. AckedDurable'
    BY <1>14, <1>t DEF Retry, JoinChain, AckedDurable, StoreType, CallType, KeyInv
  <2>4. WaitInvs'
    BY <1>14, <1>t
       DEF Retry, JoinChain, WaitInv, Lands, Ended, TxAlone, KeyInv, FlushType, CallType,
           StoreType
  <2> QED
    BY <2>1, <2>2, <2>3, <2>4
<1>15. ASSUME FlushSucceeds PROVE GateInv'
  <2>1. TxAlone'
    BY <1>15, <1>t DEF FlushSucceeds, FlushWithin, TxFirst, TxAlone
  <2>2. KeyInvs'
    BY <1>15, <1>t
       DEF FlushSucceeds, FlushWithin, TxFirst, KeyInv, TxAlone, StoreType, FlushType, None
  <2>3. AckedDurable'
    BY <1>15, <1>t
       DEF FlushSucceeds, FlushWithin, TxFirst, AckedDurable, StoreType, CallType, KeyInv
  <2>4. WaitInvs'
    BY <1>15, <1>t
       DEF FlushSucceeds, FlushWithin, TxFirst, WaitInv, Lands, Ended, TxAlone, KeyInv,
           FlushType, CallType, StoreType
  <2> QED
    BY <2>1, <2>2, <2>3, <2>4
<1>16. ASSUME FlushFails PROVE GateInv'
  <2>1. TxAlone'
    BY <1>16, <1>t DEF FlushFails, Carries, TxFirst, TxAlone
  <2>2. KeyInvs'
    BY <1>16, <1>t
       DEF FlushFails, Carries, TxFirst, KeyInv, TxAlone, StoreType, FlushType, None
  <2>3. AckedDurable'
    BY <1>16, <1>t
       DEF FlushFails, Carries, TxFirst, AckedDurable, StoreType, CallType, KeyInv
  <2>4. WaitInvs'
    BY <1>16, <1>t
       DEF FlushFails, Carries, TxFirst, WaitInv, Lands, Ended, TxAlone, KeyInv, FlushType,
           CallType, StoreType
  <2> QED
    BY <2>1, <2>2, <2>3, <2>4
<1>17. ASSUME TxCommit PROVE GateInv'
  <2>1. TxAlone'
    BY <1>17, <1>t DEF TxCommit, Over, Pending, TxAlone
  <2>2. KeyInvs'
    BY <1>17, <1>t DEF TxCommit, Over, Pending, KeyInv, TxAlone, StoreType, FlushType, None
  <2>3. AckedDurable'
    BY <1>17, <1>t DEF TxCommit, Over, Pending, AckedDurable, StoreType, CallType, KeyInv
  <2>4. WaitInvs'
    BY <1>17, <1>t
       DEF TxCommit, Over, Pending, WaitInv, Lands, Ended, TxAlone, KeyInv, FlushType,
           CallType, StoreType
  <2> QED
    BY <2>1, <2>2, <2>3, <2>4
<1>18. ASSUME NEW c \in Calls, Release(c) PROVE GateInv'
  <2>1. TxAlone'
    BY <1>18, <1>t DEF Release, TxAlone
  <2>2. KeyInvs'
    BY <1>18, <1>t DEF Release, KeyInv, TxAlone, StoreType, FlushType, None
  <2>3. AckedDurable'
    <3> SUFFICES ASSUME NEW d \in Calls, call'[d] = "released", NEW k \in Keys
                 PROVE  seen'[d][k] <= disk'[k]
      BY DEF AckedDurable
    <3>1. CASE d = c
      BY <1>18, <1>t, <3>1 DEF Release, WaitInv, CallType
    <3>2. CASE d # c
      BY <1>18, <1>t, <3>2 DEF Release, AckedDurable, CallType
    <3> QED
      BY <3>1, <3>2
  <2>4. WaitInvs'
    BY <1>18, <1>t
       DEF Release, WaitInv, Lands, Ended, TxAlone, KeyInv, FlushType, CallType, StoreType
  <2> QED
    BY <2>1, <2>2, <2>3, <2>4
<1>19. CASE UNCHANGED vars
  BY <1>19, <1>t DEF vars, TxAlone, AckedDurable, KeyInv, WaitInv, Lands, Ended
<1> QED
  BY <1>1, <1>2, <1>3, <1>4, <1>5, <1>6, <1>7, <1>8, <1>9, <1>10, <1>11, <1>12, <1>13,
     <1>14, <1>15, <1>16, <1>17, <1>18, <1>19
     DEF Next, Guest, Faults, Flushing, Transacting, Releasing, Stopped

(* The first state keeps the gate invariant. *)
LEMMA GateInitially == Init => GateInv
  BY DEF Init, GateInv, TxAlone, AckedDurable, KeyInv, WaitInv, None

(* Nothing takes back that a transaction was called over unwritten changes. *)
LEMMA RacedStays == TypeOK /\ raced /\ [Next]_vars => raced'
  BY DEF Next, Guest, Faults, Flushing, Transacting, Releasing, Stopped, vars, Start, Return,
         Throw, Set, Touch, TxCall, Crash, TxRollback, StatementFails, FlushStart,
         StatementDone, InnerDone, Retry, FlushSucceeds, FlushFails, TxStart, TxCommit,
         Release

(* The gate and what makes it inductive hold until then. *)
LEMMA GateHeld == Spec => [](~raced => GateInv)
<1>1. Init => (~raced => GateInv)
  BY GateInitially
<1>2. TypeOK /\ (~raced => GateInv) /\ [Next]_vars => (~raced => GateInv)'
  <2> SUFFICES ASSUME TypeOK, ~raced => GateInv, [Next]_vars, ~raced'
               PROVE  GateInv'
    OBVIOUS
  <2>1. ~raced
    BY RacedStays
  <2> QED
    BY <2>1, GateStep
<1> QED
  BY <1>1, <1>2, StateTyped, PTL DEF Spec

(* The gate is sound and no write is forgotten (GateHolds), for any keys, calls,   *)
(* failing statements, transactions and crashes: a result is handed out only when  *)
(* the file holds all it could reflect, and a state with nothing to write is in    *)
(* the file as it is in memory, until a method calls a transaction over writes it  *)
(* did not wait for.                                                          *)
THEOREM GateSound == Spec => []GateHolds
<1>1. TypeOK /\ (~raced => GateInv) => GateHolds
  <2> SUFFICES ASSUME TypeOK, GateInv PROVE AckedDurable /\ WrittenBack
    BY DEF GateHolds
  <2>1. ASSUME flush = "none", dirty = {}, tx = "none", NEW k \in Keys \ undone
        PROVE  disk[k] = values[k]
    <3>1. puts[k] = 0 /\ txPuts[k] = 0 /\ disk[k] \in Nat /\ values[k] \in Nat
      BY <2>1 DEF TypeOK, StoreType, FlushType, Versions, None
    <3> QED
      BY <2>1, <3>1 DEF GateInv, KeyInv
  <2> QED
    BY <2>1 DEF WrittenBack, GateInv
<1> QED
  BY <1>1, GateHeld, StateTyped, PTL

-----------------------------------------------------------------------------
(* Until then, what is under way stays apart from what a rollback took back. *)
LEMMA CarryStep == TypeOK /\ GateInv /\ CarryInv /\ ~raced' /\ [Next]_vars => CarryInv'
<1> USE DurableAssumption DEF flushVars, txVars, callVars, Carries
<1> SUFFICES ASSUME TypeOK, GateInv, CarryInv, ~raced', [Next]_vars PROVE CarryInv'
  OBVIOUS
<1>t. /\ StoreType /\ FlushType /\ TxAlone /\ \A k \in Keys : KeyInv(k)
      /\ \A k \in Keys : values[k] \in Nat /\ disk[k] \in Nat /\ puts[k] \in Nat /\ txPuts[k] \in Nat
      /\ None \in Versions /\ \A k \in Keys : None[k] = 0
  BY VersionsClosed DEF TypeOK, GateInv, StoreType, FlushType, Versions, None
<1>f. ASSUME UNCHANGED <<values, dirty, flush, puts, gen, bad, txPuts, undone>> PROVE CarryInv'
  BY <1>f DEF CarryInv
<1>s. ASSUME Schedule, UNCHANGED <<values, dirty, txPuts, undone>> PROVE CarryInv'
  BY <1>s, <1>t DEF Schedule, CarryInv, FlushType
<1>1. ASSUME NEW c \in Calls, Start(c) \/ Throw(c) \/ Release(c) PROVE CarryInv'
  BY <1>1, <1>f DEF Start, Throw, Release
<1>2. ASSUME NEW c \in Calls, Return(c) PROVE CarryInv'
  BY <1>2, <1>f, <1>s DEF Return
<1>3. ASSUME NEW k \in Keys, Set(k) PROVE CarryInv'
  <2>1. CASE tx = "open"
    BY <1>3, <1>t, <2>1 DEF Set, FlushWithin, CarryInv, Pending, Over, TxAlone, StoreType, FlushType
  <2>2. CASE tx # "open"
    <3>1. /\ dirty' = dirty \cup {k} /\ undone' = undone \ {k} /\ txPuts' = txPuts /\ puts' = puts
          /\ values' = [values EXCEPT ![k] = values[k] + 1] /\ values'[k] > 0
          /\ flush' = flush \/ (flush = "none" /\ flush' = "due")
          /\ flush' = "next" => gen' = gen /\ bad' = bad
      BY <1>3, <1>t, <2>2 DEF Set, Schedule, StoreType, Versions
    <3>2. \A j \in dirty' : values'[j] > 0
      BY <1>t, <3>1 DEF CarryInv, StoreType, Versions
    <3> QED
      BY <3>1, <3>2 DEF CarryInv
  <2> QED
    BY <2>1, <2>2
<1>4. ASSUME Touch PROVE CarryInv'
  BY <1>4, <1>s DEF Touch
<1>5. ASSUME TxCall \/ TxStart PROVE CarryInv'
  BY <1>5, <1>f DEF TxCall, TxStart
<1>6. ASSUME Crash PROVE CarryInv'
  BY <1>6, <1>t DEF Crash, CarryInv
<1>7. ASSUME TxRollback PROVE CarryInv'
  BY <1>7, <1>t DEF TxRollback, CarryInv, TxAlone, StoreType, FlushType
<1>8. ASSUME NEW how \in {"asleep", "failed"}, StatementFails(how) PROVE CarryInv'
  BY <1>8, <1>t DEF StatementFails, CarryInv
<1>9. ASSUME FlushStart PROVE CarryInv'
  <2>1. CASE dirty = {}
    <3>1. /\ UNCHANGED <<values, undone, txPuts, bad>> /\ dirty' = {} /\ puts' = None
          /\ flush' \in {"next", "none"}
      BY <1>9, <2>1 DEF FlushStart, Pending, None
    <3>2. flush' = "next" => gen' \notin bad
      BY <1>9, <1>t, <2>1 DEF FlushStart, FlushType, Ended
    <3> QED
      BY <1>t, <3>1, <3>2 DEF CarryInv, StoreType
  <2>2. CASE dirty # {}
    <3>1. /\ flush' = "writing" /\ dirty' = {} /\ txPuts' = txPuts
          /\ puts' = Pending(values, dirty) /\ UNCHANGED <<values, undone>>
      BY <1>9, <1>t, <2>2 DEF FlushStart, JoinChain, TxAlone
    <3>2. dirty \subseteq Keys /\ undone \subseteq Keys
      BY <1>t DEF StoreType
    <3>3. \A k \in dirty : k \in Keys /\ puts'[k] # 0
      BY <1>t, <3>1, <3>2 DEF Pending, CarryInv
    <3> QED
      BY <2>2, <3>1, <3>2, <3>3 DEF CarryInv, Pending
  <2> QED
    BY <2>1, <2>2
<1>10. ASSUME StatementDone \/ InnerDone PROVE CarryInv'
  BY <1>10, <1>t DEF StatementDone, InnerDone, CarryInv
<1>11. ASSUME Retry PROVE CarryInv'
  BY <1>11, <1>t DEF Retry, JoinChain, TxAlone, CarryInv
<1>12. ASSUME FlushSucceeds PROVE CarryInv'
  <2>1. dirty' = dirty /\ txPuts' = txPuts /\ puts' = None /\ UNCHANGED <<values, undone>>
    BY <1>12, <1>t DEF FlushSucceeds, TxAlone
  <2>2. flush' = "next" => gen' \notin bad'
    BY <1>12, <1>t DEF FlushSucceeds, FlushType, Ended
  <2>3. flush' \in {"next", "due", "none"}
    BY <1>12 DEF FlushSucceeds
  <2> QED
    BY <1>t, <2>1, <2>2, <2>3 DEF CarryInv, StoreType
<1>13. ASSUME FlushFails PROVE CarryInv'
  BY <1>13, <1>t DEF FlushFails, CarryInv, KeyInv, StoreType
<1>14. ASSUME TxCommit PROVE CarryInv'
  BY <1>14, <1>t DEF TxCommit, CarryInv, TxAlone, StoreType
<1>15. CASE UNCHANGED vars
  BY <1>15, <1>f DEF vars
<1> QED
  BY <1>1, <1>2, <1>3, <1>4, <1>5, <1>6, <1>7, <1>8, <1>9, <1>10, <1>11, <1>12, <1>13, <1>14,
     <1>15 DEF Next, Guest, Faults, Flushing, Transacting, Releasing, Stopped

-----------------------------------------------------------------------------
(* What DurableWorker speaks of.                                             *)
Shown == <<Promised, disk, Snap, flush = "failed", tx = "open", running, call, seen, Blamed>>

(* A step that only moves the machinery is not shown. *)
LEMMA HiddenStep ==
    ASSUME UNCHANGED <<values, disk, undone, running, call, seen>>, Snap' = Snap, Blamed' = Blamed,
           (flush = "failed")' <=> flush = "failed", (tx = "open")' <=> tx = "open"
    PROVE  [Worker!Next]_Shown
<1>1. Promised' = Promised
  BY DEF Promised
<1>2. (flush = "failed")' = (flush = "failed") /\ (tx = "open")' = (tx = "open")
  OBVIOUS
<1> QED
  BY <1>1, <1>2 DEF Shown

(* What memory and file hold of a key. *)
LEMMA KeysAre ==
    ASSUME TypeOK, GateInv
    PROVE  /\ Promised \in Versions /\ \A k \in Keys : Promised[k] <= values[k]
           /\ \A k \in Keys : k \notin undone => Promised[k] = values[k]
           /\ \A k \in Keys : k \in undone => Promised[k] = disk[k]
           /\ \A k \in Keys : /\ values[k] \in Nat /\ disk[k] \in Nat /\ disk[k] <= values[k]
                              /\ puts[k] \in Nat /\ txPuts[k] \in Nat
           /\ disk \in Versions /\ values \in Versions
  BY DurableAssumption
     DEF TypeOK, StoreType, FlushType, GateInv, KeyInv, Versions, Promised

(* A version in memory is in the file, if it is not dirty or under way. *)
LEMMA CleanKey ==
    ASSUME TypeOK, GateInv, NEW k \in Keys, k \notin undone, k \notin dirty,
           puts[k] = 0, txPuts[k] = 0
    PROVE  values[k] = disk[k]
  BY KeysAre DEF GateInv, KeyInv

(* Nothing happens, nothing is shown. *)
LEMMA HiddenNothing == ASSUME UNCHANGED vars PROVE [Worker!Next]_Shown
  BY DEF vars, flushVars, txVars, callVars, Shown, Promised, Snap, Blamed

(* What calls do is shown as it is. *)
LEMMA CallsShown ==
    ASSUME TypeOK, GateInv, CarryInv, NEW c \in Calls, Start(c) \/ Throw(c) \/ Return(c)
    PROVE  [Worker!Next]_Shown
<1> USE DEF flushVars, txVars, callVars
<1>t. CallType /\ FlushType /\ "none" \notin Calls
  BY DurableAssumption DEF TypeOK
<1>1. CASE Start(c) \/ Throw(c)
  <2>1. Promised' = Promised /\ Snap' = Snap
    BY <1>1 DEF Start, Throw, Promised, Snap
  <2>2. Blamed' = Blamed
    BY <1>1, <1>t DEF Start, Throw, Blamed, CallType
  <2>3. Worker!Start(c) \/ Worker!Throw(c)
    BY <1>1, <2>1, <2>2 DEF Start, Throw, Worker!Start, Worker!Throw
  <2> QED
    BY <2>3 DEF Worker!Next
<1>2. CASE Return(c)
  <2>1. Promised' = Promised /\ running = c /\ call[c] = "running" /\ tx = "none" /\ tx' = tx
    BY <1>2, <1>t DEF Return, Promised, CallType
  <2>2. Snap' = Snap /\ bad' = bad /\ ((flush = "failed")' <=> flush = "failed")
    BY <1>2 DEF Return, Schedule, Snap
  <2>3. wait'[c] \notin bad
    <3>1. bad \subseteq 1..Ended /\ gen \in Nat /\ Ended <= gen
      BY <1>t DEF FlushType, Ended
    <3>2. gen \in bad => flush \in {"none", "next"}
      BY <1>t, <3>1 DEF FlushType, Ended
    <3>3. wait'[c] = gen + 1 \/ wait'[c] = 0 \/ (wait'[c] = gen /\ flush # "none" /\ dirty = {})
      BY <1>2, <1>t DEF Return, Scheduled, CallType
    <3>4. Ended \in Nat /\ gen + 1 \notin bad /\ 0 \notin bad
      BY <1>t, <3>1 DEF Ended, FlushType
    <3>5. flush # "none" /\ dirty = {} => gen \notin bad
      BY <3>2 DEF CarryInv
    <3> QED
      BY <3>3, <3>4, <3>5
  <2>4. Blamed' = Blamed
    <3>1. \A d \in Calls : d # c => call'[d] = call[d] /\ wait'[d] = wait[d]
      BY <1>2, <1>t DEF Return, CallType
    <3> QED
      BY <2>1, <2>2, <2>3, <3>1 DEF Blamed
  <2>5. Worker!Return(c)
    BY <1>2, <2>1, <2>2, <2>4 DEF Return, Worker!Return
  <2> QED
    BY <2>5 DEF Worker!Next
<1> QED
  BY <1>1, <1>2

(* A write is one of memory only. *)
LEMMA SetShown ==
    ASSUME TypeOK, GateInv, CarryInv, NEW k \in Keys, Set(k)
    PROVE  [Worker!Next]_Shown
<1> USE DEF flushVars, txVars, callVars
<1>1. /\ values' = [values EXCEPT ![k] = values[k] + 1] /\ undone' = undone \ {k}
      /\ running # "none" /\ tx' = tx /\ UNCHANGED <<disk, running, call, wait, seen>>
  BY DEF Set, CodeRuns
<1>2. Snap' = Snap /\ bad' = bad /\ ((flush = "failed")' <=> flush = "failed")
  BY DEF Set, Schedule, Snap
<1>3. Promised' = [Promised EXCEPT ![k] = values[k] + 1]
  BY <1>1, KeysAre DEF Promised, Versions
<1>4. Promised'[k] = values[k] + 1 /\ Promised'[k] > Promised[k]
  BY <1>3, KeysAre DEF Versions
<1>5. Promised' = [Promised EXCEPT ![k] = Promised'[k]]
  BY <1>3, <1>4
<1>6. Blamed' = Blamed
  BY <1>1, <1>2 DEF Blamed
<1>7. Worker!Write(k)
  BY <1>1, <1>2, <1>4, <1>5, <1>6 DEF Worker!Write
<1> QED
  BY <1>7 DEF Worker!Next

(* A call is answered as the gate promises. *)
LEMMA ReleaseShown ==
    ASSUME TypeOK, GateInv, NEW c \in Calls, Release(c)
    PROVE  [Worker!Next]_Shown
<1> USE DEF flushVars, txVars, callVars
<1>1. /\ call[c] = "waiting" /\ wait[c] <= Ended /\ WaitInv(c)
      /\ call' = [call EXCEPT ![c] = IF wait[c] \in bad THEN "rejected" ELSE "released"]
      /\ UNCHANGED <<values, undone, disk, flush, puts, tx, bad, running, wait, seen>>
  BY DEF Release, GateInv
<1>2. Promised' = Promised /\ Snap' = Snap
  BY <1>1 DEF Promised, Snap
<1>3. Blamed' = Blamed \ {c}
  BY <1>1 DEF Blamed, TypeOK, CallType
<1>4. CASE wait[c] \in bad
  <2>1. Worker!Refuse(c)
    BY <1>1, <1>2, <1>3, <1>4 DEF Worker!Refuse, Blamed
  <2> QED
    BY <2>1 DEF Worker!Next
<1>5. CASE wait[c] \notin bad
  <2>1. c \notin Blamed /\ Blamed' = Blamed
    BY <1>3, <1>5 DEF Blamed
  <2>2. \A k \in Keys : seen[c][k] <= disk[k]
    BY <1>1, <1>5 DEF WaitInv
  <2>3. Worker!Release(c)
    BY <1>1, <1>2, <1>5, <2>1, <2>2 DEF Worker!Release
  <2> QED
    BY <2>3 DEF Worker!Next
<1> QED
  BY <1>4, <1>5

(* A crash is one. *)
LEMMA CrashShown ==
    ASSUME TypeOK, GateInv, Crash
    PROVE  [Worker!Next]_Shown
<1> USE DEF flushVars, txVars, callVars
<1>1. Promised' = disk
  BY KeysAre DEF Crash, Promised, Versions
<1>2. Snap' = {} /\ (flush = "failed")' = FALSE /\ (tx = "open")' = FALSE
  BY DEF Crash, Snap
<1>3. Blamed' = {}
  BY DEF Crash, Blamed
<1>4. Worker!Crash
  BY <1>1, <1>2, <1>3 DEF Crash, Worker!Crash
<1> QED
  BY <1>4 DEF Worker!Next

(* A flush takes a state of memory to the file, or fails and tells those who wait  *)
(* for it; the rest of its life is hidden.                                     *)
LEMMA FlushShown ==
    ASSUME TypeOK, GateInv, CarryInv, Flushing \/ Touch
    PROVE  [Worker!Next]_Shown
<1> USE DEF flushVars, txVars, callVars
<1>t. StoreType /\ FlushType /\ CallType /\ TxAlone
  BY DEF TypeOK, GateInv
<1>1. CASE FlushStart
  <2>1. CASE dirty = {}
    <3>1. flush' \in {"next", "none"} /\ flush \in {"due", "next"}
          /\ UNCHANGED <<values, disk, undone, tx, bad, running, call, wait, seen>>
      BY <1>1, <2>1 DEF FlushStart
    <3>2. Snap' = Snap /\ Blamed' = Blamed
      BY <3>1 DEF Snap, Blamed
    <3> QED
      BY <3>1, <3>2, HiddenStep
  <2>2. CASE dirty # {}
    <3>1. /\ flush \in {"due", "next"} /\ flush' = "writing" /\ tx = "none"
          /\ puts' = Pending(values, dirty)
          /\ UNCHANGED <<values, disk, undone, tx, bad, running, call, wait, seen>>
      BY <1>1, <1>t, <2>2 DEF FlushStart, JoinChain, TxAlone
    <3>2. Over(disk, puts') = Promised
      <4>1. puts = None /\ txPuts = None
        BY <1>t, <3>1 DEF FlushType, StoreType
      <4>2. ASSUME NEW k \in Keys PROVE Over(disk, puts')[k] = Promised[k]
        <5>1. puts[k] = 0 /\ txPuts[k] = 0 /\ puts'[k] = IF k \in dirty THEN values[k] ELSE 0
          BY <3>1, <4>1 DEF None, Pending
        <5>2. k \in dirty => k \notin undone /\ values[k] # 0
          BY KeysAre DEF CarryInv
        <5> QED
          BY <5>1, <5>2, CleanKey, KeysAre DEF Over
      <4> QED
        BY <4>2, KeysAre DEF Over, Versions
    <3>3. Promised' = Promised /\ Blamed' = Blamed
      BY <3>1 DEF Promised, Blamed
    <3>4. Snap = {} /\ Snap' = {Promised}
      BY <3>1, <3>2 DEF Snap, Over
    <3>5. Worker!Take
      BY <3>1, <3>3, <3>4 DEF Worker!Take
    <3> QED
      BY <3>5 DEF Worker!Next
  <2> QED
    BY <2>1, <2>2
<1>2. CASE StatementDone
  <2>1. /\ flush = "writing" /\ flush' = "done" /\ disk' = Over(disk, puts)
        /\ UNCHANGED <<values, undone, tx, bad, running, call, wait, seen>>
    BY <1>2 DEF StatementDone
  <2>2. Promised' = Promised
    <3>1. \A k \in Keys : k \in undone => disk'[k] = disk[k]
      BY <2>1 DEF CarryInv, Over
    <3> QED
      BY <2>1, <3>1 DEF Promised
  <2>3. disk' \in Snap /\ Snap' = {} /\ Blamed' = Blamed
    BY <2>1 DEF Snap, Blamed
  <2>4. Worker!Land
    BY <2>1, <2>2, <2>3 DEF Worker!Land
  <2> QED
    BY <2>4 DEF Worker!Next
<1>3. CASE InnerDone
  BY <1>3, <1>t DEF InnerDone, TxAlone
<1>4. CASE Retry
  <2>1. /\ flush = "asleep" /\ flush' = "writing"
        /\ UNCHANGED <<values, disk, undone, puts, tx, bad, running, call, wait, seen>>
    BY <1>4, <1>t DEF Retry, JoinChain, TxAlone
  <2>2. Snap' = Snap /\ Blamed' = Blamed
    BY <2>1 DEF Snap, Blamed
  <2> QED
    BY <2>1, <2>2, HiddenStep
<1>5. CASE FlushSucceeds
  <2>1. /\ flush = "done" /\ flush' \in {"next", "due", "none"}
        /\ UNCHANGED <<values, disk, undone, tx, bad, running, call, wait, seen>>
    BY <1>5 DEF FlushSucceeds
  <2>2. Snap' = Snap /\ Blamed' = Blamed
    BY <2>1 DEF Snap, Blamed
  <2> QED
    BY <2>1, <2>2, HiddenStep
<1>6. CASE FlushFails
  <2>1. /\ flush = "failed" /\ flush' \in {"next", "none"} /\ bad' = bad \cup {gen}
        /\ UNCHANGED <<values, disk, undone, tx, running, call, wait, seen>>
    BY <1>6 DEF FlushFails
  <2> DEFINE S == {c \in Calls : call[c] = "waiting" /\ wait[c] = gen}
  <2>2. Promised' = Promised /\ Snap' = Snap /\ Blamed' = Blamed \cup S
    BY <2>1 DEF Promised, Snap, Blamed
  <2>3. Worker!Blame(S)
    BY <2>1, <2>2 DEF Worker!Blame
  <2>4. S \in SUBSET Calls
    OBVIOUS
  <2> HIDE DEF S
  <2> QED
    BY <2>3, <2>4 DEF Worker!Next
<1>7. CASE Touch
  <2>1. /\ flush' = flush \/ (flush = "none" /\ flush' = "due")
        /\ UNCHANGED <<values, disk, undone, puts, tx, bad, running, call, wait, seen>>
    BY <1>7 DEF Touch, Schedule
  <2>2. Snap' = Snap /\ Blamed' = Blamed
    BY <2>1 DEF Snap, Blamed
  <2> QED
    BY <2>1, <2>2, HiddenStep
<1> QED
  BY <1>1, <1>2, <1>3, <1>4, <1>5, <1>6, <1>7 DEF Flushing

(* A statement that fails is seen when #flush will not try it again. *)
LEMMA FailShown ==
    ASSUME NEW how \in {"asleep", "failed"}, StatementFails(how)
    PROVE  [Worker!Next]_Shown
<1> USE DEF flushVars, txVars, callVars
<1>1. /\ flush = "writing" /\ flush' = how
      /\ UNCHANGED <<values, disk, undone, puts, tx, bad, running, call, wait, seen>>
  BY DEF StatementFails
<1>2. Promised' = Promised /\ Blamed' = Blamed
  BY <1>1 DEF Promised, Blamed
<1>3. CASE how = "asleep"
  <2>1. Snap' = Snap
    BY <1>1, <1>3 DEF Snap
  <2> QED
    BY <1>1, <1>2, <1>3, <2>1, HiddenStep
<1>4. CASE how = "failed"
  <2>1. Snap # {} /\ Snap' = {} /\ (flush = "failed")' = TRUE
    BY <1>1, <1>4 DEF Snap
  <2>2. Worker!Fail
    BY <1>1, <1>2, <2>1 DEF Worker!Fail
  <2> QED
    BY <2>2 DEF Worker!Next
<1> QED
  BY <1>3, <1>4

(* A transaction begins where the file is, and ends as a whole or not at all. *)
LEMMA TxShown ==
    ASSUME TypeOK, GateInv, CarryInv, ~raced', TxCall \/ TxStart \/ TxCommit \/ TxRollback
    PROVE  [Worker!Next]_Shown
<1> USE DEF flushVars, txVars, callVars
<1>t. StoreType /\ FlushType /\ TxAlone
  BY DEF TypeOK, GateInv
<1>1. CASE TxCall
  <2>1. /\ tx = "none" /\ tx' \in {"behind", "waiting"}
        /\ UNCHANGED <<values, disk, undone, flush, puts, bad, running, call, wait, seen>>
    BY <1>1 DEF TxCall
  <2>2. Snap' = Snap /\ Blamed' = Blamed
    BY <2>1 DEF Snap, Blamed
  <2> QED
    BY <2>1, <2>2, HiddenStep
<1>2. ASSUME tx # "none" PROVE flush = "none" /\ dirty = {} /\ Snap = {}
                               /\ \A k \in Keys : puts[k] = 0
  BY <1>2, <1>t DEF TxAlone, Snap, FlushType, None
<1>3. CASE TxStart
  <2>1. /\ tx \in {"waiting", "behind"} /\ tx' = "open" /\ running # "none"
        /\ UNCHANGED <<values, disk, undone, flush, puts, bad, running, call, wait, seen>>
    BY <1>3, <1>t DEF TxStart, StoreType
  <2>2. Promised = disk
    <3>1. \A k \in Keys : txPuts[k] = 0
      BY <1>t, <2>1 DEF StoreType, None
    <3>2. \A k \in Keys : Promised[k] = disk[k]
      BY <1>2, <2>1, <3>1, CleanKey, KeysAre
    <3> QED
      BY <3>2, KeysAre DEF Versions
  <2>3. Promised' = Promised /\ Snap' = Snap /\ Blamed' = Blamed
    BY <2>1 DEF Promised, Snap, Blamed
  <2>4. Worker!Begin
    BY <1>2, <2>1, <2>2, <2>3 DEF Worker!Begin
  <2> QED
    BY <2>4 DEF Worker!Next
<1>4. CASE TxCommit
  <2>1. /\ tx = "open" /\ tx' = "none" /\ disk' = Over(Over(disk, txPuts), Pending(values, dirty))
        /\ UNCHANGED <<values, undone, flush, puts, bad, running, call, wait, seen>>
    BY <1>4 DEF TxCommit
  <2>2. \A k \in Keys : disk'[k] = IF txPuts[k] # 0 THEN txPuts[k] ELSE disk[k]
    BY <1>2, <2>1 DEF Over, Pending
  <2>3. ASSUME NEW k \in Keys PROVE disk'[k] = Promised[k] /\ (k \in undone => disk'[k] = disk[k])
    <3>1. CASE k \in undone
      BY <2>2, <3>1, KeysAre DEF CarryInv
    <3>2. CASE k \notin undone /\ txPuts[k] = 0
      BY <1>2, <2>1, <2>2, <3>2, CleanKey, KeysAre
    <3>3. CASE k \notin undone /\ txPuts[k] # 0
      BY <1>2, <2>1, <2>2, <3>3, KeysAre DEF GateInv, KeyInv
    <3> QED
      BY <3>1, <3>2, <3>3
  <2>4. disk' = Promised
    BY <2>1, <2>3, KeysAre DEF Over, Versions
  <2>5. Promised' = Promised
    BY <2>1, <2>3 DEF Promised
  <2>6. Snap' = Snap /\ Blamed' = Blamed
    BY <1>2, <2>1 DEF Snap, Blamed
  <2>7. Worker!Commit
    BY <2>1, <2>4, <2>5, <2>6 DEF Worker!Commit
  <2> QED
    BY <2>7 DEF Worker!Next
<1>5. CASE TxRollback
  <2>1. /\ tx = "open" /\ tx' = "none" /\ undone' = undone \cup Carries(txPuts)
        /\ UNCHANGED <<values, disk, flush, puts, bad, running, call, wait, seen>>
    BY <1>5 DEF TxRollback
  <2>2. ASSUME NEW k \in Keys PROVE k \notin undone' => values[k] = disk[k]
    BY <1>2, <2>1, CleanKey DEF Carries
  <2>3. Promised' = disk
    BY <2>1, <2>2, KeysAre DEF Promised, Versions
  <2>4. Snap' = Snap /\ Blamed' = Blamed
    BY <2>1 DEF Snap, Blamed
  <2>5. Worker!Rollback
    BY <2>1, <2>3, <2>4 DEF Worker!Rollback
  <2> QED
    BY <2>5 DEF Worker!Next
<1> QED
  BY <1>1, <1>3, <1>4, <1>5

(* Every step until then is one that DurableWorker allows, or is hidden. *)
LEMMA ShownStep ==
    TypeOK /\ GateInv /\ CarryInv /\ ~raced' /\ [Next]_vars => [Worker!Next]_Shown
<1> SUFFICES ASSUME TypeOK, GateInv, CarryInv, ~raced', [Next]_vars PROVE [Worker!Next]_Shown
  OBVIOUS
<1>1. CASE Next
  BY <1>1, CallsShown, SetShown, ReleaseShown, CrashShown, FlushShown, FailShown, TxShown,
     HiddenNothing
     DEF Next, Guest, Faults, Flushing, Transacting, Releasing, Stopped
<1>2. CASE UNCHANGED vars
  BY <1>2, HiddenNothing
<1> QED
  BY <1>1, <1>2

(* Until a transaction is called over unwritten changes the worker implements     *)
(* DurableWorker (PromiseKept), for any keys, calls, failures, transactions and    *)
(* crashes: its file is always a state that its memory was in, transactions happen *)
(* as a whole or not at all, and results are handed out or refused accordingly.    *)
THEOREM WorkerRefined == Spec => PromiseKept
<1>1. Init => Worker!Init
  <2> SUFFICES ASSUME Init PROVE Worker!Init
    OBVIOUS
  <2>1. Promised = None /\ Snap = {} /\ Blamed = {}
    BY DEF Init, Promised, Snap, Blamed, None
  <2> QED
    BY <2>1 DEF Init, Worker!Init, None
<1>2. Init => CarryInv
  BY DEF Init, CarryInv
<1>3. TypeOK /\ (~raced => GateInv) /\ (~raced => CarryInv) /\ [Next]_vars
          => (~raced => CarryInv)'
  BY CarryStep, RacedStays
<1>4. TypeOK /\ (~raced => GateInv) /\ (~raced => CarryInv) /\ [Next]_vars
          => [raced' \/ Worker!Next]_(Worker!vars)
  <2> SUFFICES ASSUME TypeOK, ~raced => GateInv, ~raced => CarryInv, [Next]_vars, ~raced'
               PROVE  [Worker!Next]_(Worker!vars)
    OBVIOUS
  <2>1. ~raced
    BY RacedStays
  <2> QED
    BY <2>1, ShownStep DEF Shown, Worker!vars
<1> QED
  BY <1>1, <1>2, <1>3, <1>4, GateHeld, StateTyped, PTL DEF Spec, PromiseKept
=============================================================================
