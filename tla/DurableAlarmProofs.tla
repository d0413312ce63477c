------------------------- MODULE DurableAlarmProofs -------------------------
(***************************************************************************)
(* Proofs about DurableAlarm: for any times, retries, clock and number of     *)
(* failures, as long as start() and the mailbox keep out of each other's way,  *)
(* the index is never late, an alarm that is being run is run again after a    *)
(* crash, and the time a handler asks for is kept.                           *)
(***************************************************************************)
EXTENDS DurableAlarm, TLAPS

(* The turns whose writes are to the count. *)
Counting == {"counting", "retry", "giveup"}

(* What is left of a SetAlarm under way, or of the correction of the index. *)
Setting(list) ==
    \/ list = <<>>
    \/ \E a \in Nat : list = <<Put("early", a), Put("file", a), Put("index", a)>>
    \/ \E a \in Instants :
          /\ list = <<Put("file", a), Put("index", a)>>
          /\ a # Never => idx # Never /\ idx <= a
    \/ list = <<Put("index", mem)>> /\ (broken \/ mem = file)

(* An alarm operation of start() and one of an entry, or an alarm turn, are never   *)
(* under way together.                                                        *)
Apart ==
    /\ starts = <<>> \/ (todo = <<>> /\ turn \in {"idle", "call"})
    /\ orphan = {}

Shape ==
    /\ Setting(starts) /\ (boot = "opening" => Len(starts) < 2)
    /\ IF turn \in Counting THEN todo = <<>> \/ todo = <<Put("count", attempt)>>
       ELSE Setting(todo)

(* An alarm that memory holds is in the file, and the index leads to it. *)
Held ==
    loaded /\ mem # Never
        => mem = file /\ ((boot = "opening" => starts = <<>>) => idx # Never /\ idx <= mem)

(* The alarm suspended for its handler. *)
Suspended ==
    turn \in {"handler"} \cup Counting /\ ~touched
        => /\ mem = Never /\ file # Never /\ file <= now /\ idx # Never /\ idx <= now
           /\ turn = "handler" => todo = <<>>

(* Memory is true again when the write to the file is done. *)
Known ==
    ~broken /\ loaded /\ (turn \in Closings \cup {"handler"} => Len(todo) < 2)
            /\ (turn \in {"handler"} \cup Counting => touched)
        => mem = file

(* Outside the scheduler's turns it never stops being true. *)
Outside == ~broken /\ loaded /\ turn \notin Closings \cup {"handler"} => mem = file

(* The scheduler's own operation overwrites no alarm. *)
Spared == turn \in Closings \ Counting => touched /\ (mem # Never => Len(todo) < 2)

Counted == ~broken /\ loaded => attempt = counted \/ todo = <<Put("count", attempt)>>

Uncrossed ==
    /\ Apart /\ Shape /\ Held /\ Suspended /\ Known /\ Outside /\ Spared /\ Counted
    /\ LateOnlyByTurn

(* The inductive invariant. *)
AlarmInv == AlarmTypeOK /\ (crossed \/ Uncrossed)


-----------------------------------------------------------------------------
(* What is left of one, two and three writes when the first is done. *)
LEMMA Remaining ==
    ASSUME NEW a, NEW b, NEW c
    PROVE  /\ Head(<<a>>) = a /\ Tail(<<a>>) = <<>> /\ Len(<<a>>) = 1
           /\ Head(<<a, b>>) = a /\ Tail(<<a, b>>) = <<b>> /\ Len(<<a, b>>) = 2
           /\ Head(<<a, b, c>>) = a /\ Tail(<<a, b, c>>) = <<b, c>> /\ Len(<<a, b, c>>) = 3
  OBVIOUS

(* A new alarm is indexed first, and deleting one writes to the file first. *)
LEMMA SetAlarmWrites ==
    ASSUME NEW at \in Instants
    PROVE  /\ SetAlarm(at) \in Seq(Writes) /\ Len(SetAlarm(at)) \in {2, 3}
           /\ at = Never => SetAlarm(at) = <<Put("file", at), Put("index", at)>>
           /\ at # Never =>
                 /\ at \in Nat
                 /\ SetAlarm(at) = <<Put("early", at), Put("file", at), Put("index", at)>>
<1>1. CASE at = Never
  <2>1. SetAlarm(at) = <<Put("file", at), Put("index", at)>>
    BY <1>1 DEF SetAlarm
  <2>2. Put("file", at) \in Writes /\ Put("index", at) \in Writes
    BY DEF Put, Writes
  <2> QED
    BY <1>1, <2>1, <2>2
<1>2. CASE at # Never
  <2>1. SetAlarm(at) = <<Put("early", at), Put("file", at), Put("index", at)>>
    BY <1>2 DEF SetAlarm
  <2>2. Put("early", at) \in Writes /\ Put("file", at) \in Writes /\ Put("index", at) \in Writes
    BY DEF Put, Writes
  <2>3. at \in Nat
    BY <1>2 DEF Instants
  <2> QED
    BY <1>2, <2>1, <2>2, <2>3
<1> QED
  BY <1>1, <1>2

(* The other writes: to the index, and to the count. *)
LEMMA OneWrite ==
    /\ \A at \in Instants : <<Put("index", at)>> \in Seq(Writes)
    /\ \A n \in 0..Retries : <<Put("count", n)>> \in Seq(Writes)
<1>1. /\ \A at \in Instants : Put("index", at) \in Writes
      /\ \A n \in 0..Retries : Put("count", n) \in Writes
  BY DEF Put, Writes
<1> QED
  BY <1>1

(* The writes of an alarm operation are not to the count. *)
LEMMA NoCount == ASSUME NEW list, Setting(list) PROVE list # <<Put("count", attempt)>>
<1> SUFFICES ASSUME list = <<Put("count", attempt)>> PROVE FALSE
  OBVIOUS
<1>1. list # <<>> /\ Len(list) = 1 /\ Head(list).to = "count"
  BY Remaining DEF Put
<1>2. list = <<Put("index", mem)>>
  BY <1>1, Remaining DEF Setting
<1> QED
  BY <1>1, <1>2, Remaining DEF Put

(* The catch block counts within the retries. *)
LEMMA CaughtTyped ==
    attempt \in 0..Retries /\ Caught
        => todo' \in Seq(Writes) /\ attempt' \in 0..Retries /\ turn' \in {"retry", "giveup"}
<1> SUFFICES ASSUME attempt \in 0..Retries, Caught
             PROVE  /\ todo' \in Seq(Writes) /\ attempt' \in 0..Retries
                    /\ turn' \in {"retry", "giveup"}
  OBVIOUS
<1>1. CASE attempt < Retries
  <2>1. attempt + 1 \in 0..Retries
    BY <1>1, AlarmAssumption
  <2> QED
    BY <1>1, <2>1, OneWrite DEF Caught
<1>2. CASE ~(attempt < Retries)
  <2>1. 0 \in 0..Retries
    BY AlarmAssumption
  <2> QED
    BY <1>2, <2>1, OneWrite DEF Caught
<1> QED
  BY <1>1, <1>2

(* A write that commits leaves instants in the file, in memory and in the index. *)
LEMMA CommitTyped ==
    ASSUME AlarmTypeOK, NEW w \in Writes, Commit(w)
    PROVE  file' \in Instants /\ mem' \in Instants /\ idx' \in Instants /\ counted' \in 0..Retries
<1>1. w.to = "count" => w.at \in 0..Retries
  BY DEF Writes
<1>2. w.to # "count" => w.at \in Instants
  BY DEF Writes
<1>3. file \in Instants /\ mem \in Instants /\ idx \in Instants /\ counted \in 0..Retries
  BY DEF AlarmTypeOK
<1>4. w.to = "early" => Earlier(w.at) \in Instants
  BY <1>2, <1>3 DEF Earlier
<1> QED
  BY <1>1, <1>2, <1>3, <1>4 DEF Commit

(* It holds at the start. *)
LEMMA AlarmInitially == AlarmInit => AlarmInv
<1> SUFFICES ASSUME AlarmInit PROVE AlarmInv
  OBVIOUS
<1>1. AlarmTypeOK
  <2>1. /\ now \in 0..MaxNow /\ alarmFaults \in 0..MaxAlarmFaults /\ counted \in 0..Retries
        /\ attempt \in 0..Retries
    BY AlarmAssumption DEF AlarmInit
  <2>2. file \in Instants /\ idx \in Instants /\ mem \in Instants
    BY DEF AlarmInit, Instants
  <2>3. turn \in Turns /\ todo \in Seq(Writes) /\ starts \in Seq(Writes)
    BY DEF AlarmInit, Turns
  <2>4. ~Away /\ turn \notin AlarmTurns
    BY DEF AlarmInit, Away, AlarmTurns
  <2> QED
    BY <2>1, <2>2, <2>3, <2>4 DEF AlarmInit, AlarmTypeOK
<1>2. Apart /\ Shape /\ Suspended /\ Spared
  BY DEF AlarmInit, Apart, Shape, Setting, Suspended, Spared, Counting, Closings
<1>3. Held /\ Known /\ Outside /\ Counted /\ LateOnlyByTurn
  BY DEF AlarmInit, Held, Known, Outside, Counted, LateOnlyByTurn, Indexed
<1> QED
  BY <1>1, <1>2, <1>3 DEF AlarmInv, Uncrossed

-----------------------------------------------------------------------------
LEMMA AwayBoolean == Away \in BOOLEAN
  BY DEF Away

(* Every step keeps the types. *)
LEMMA TypedStep == AlarmTypeOK /\ [AlarmNext]_alarmVars => AlarmTypeOK'
<1> SUFFICES ASSUME AlarmTypeOK, [AlarmNext]_alarmVars PROVE AlarmTypeOK'
  OBVIOUS
<1> USE AlarmAssumption DEF disks, state, entry, opener
<1>c. AlarmNext => crossed' \in BOOLEAN
  BY DEF AlarmNext, Noted, AlarmTypeOK, Crossing
<1>o. ASSUME NEW at \in Times \cup {Never}, AlarmNext, Operate(at) \/ StartOperates(at)
      PROVE  AlarmTypeOK'
  <2>1. SetAlarm(at) \in Seq(Writes)
    BY SetAlarmWrites DEF Instants
  <2>2. CASE Operate(at)
    BY <1>c, <1>o, <2>1, <2>2 DEF AlarmTypeOK, Operate, Coding, Away
  <2>3. CASE StartOperates(at)
    BY <1>c, <1>o, <2>1, <2>3 DEF AlarmTypeOK, StartOperates, Away
  <2> QED
    BY <1>o, <2>2, <2>3
<1>w. ASSUME AlarmNext, WriteDone PROVE AlarmTypeOK'
  <2>1. Head(todo) \in Writes /\ Tail(todo) \in Seq(Writes)
    BY <1>w DEF AlarmTypeOK, WriteDone
  <2>2. file' \in Instants /\ mem' \in Instants /\ idx' \in Instants /\ counted' \in 0..Retries
    BY <1>w, <2>1, CommitTyped DEF WriteDone
  <2> QED
    BY <1>c, <1>w, <2>1, <2>2 DEF AlarmTypeOK, WriteDone, Away
<1>s. ASSUME AlarmNext, StartWrites PROVE AlarmTypeOK'
  <2>1. Head(starts) \in Writes /\ Tail(starts) \in Seq(Writes)
    BY <1>s DEF AlarmTypeOK, StartWrites
  <2>2. file' \in Instants /\ mem' \in Instants /\ idx' \in Instants /\ counted' \in 0..Retries
    BY <1>s, <2>1, CommitTyped DEF StartWrites
  <2> QED
    BY <1>c, <1>s, <2>1, <2>2 DEF AlarmTypeOK, StartWrites, Away
<1>1. ASSUME AlarmNext, Opened PROVE AlarmTypeOK'
  <2> QED
    BY <1>c, <1>1 DEF AlarmTypeOK, Opened, Away
<1>2. ASSUME AlarmNext, StartEnds PROVE AlarmTypeOK'
  <2> QED
    BY <1>c, <1>2 DEF AlarmTypeOK, StartEnds, Away
<1>3. ASSUME AlarmNext, OpenWorker PROVE AlarmTypeOK'
  <2>1. starts' \in Seq(Writes)
    BY <1>3, OneWrite DEF AlarmTypeOK, OpenWorker
  <2>2. turn = "idle" /\ turn \notin AlarmTurns
    BY <1>3 DEF AlarmTypeOK, OpenWorker, AlarmTurns
  <2> QED
    BY <1>c, <1>3, <2>1, <2>2 DEF AlarmTypeOK, OpenWorker, Away
<1>4. ASSUME AlarmNext, Call PROVE AlarmTypeOK'
  <2>1. turn' \in Turns /\ turn' \notin AlarmTurns
    BY <1>4 DEF Call, Turns, Coding, AlarmTurns
  <2> QED
    BY <1>c, <1>4, <2>1 DEF AlarmTypeOK, Call, Enterable, Away
<1>5. ASSUME AlarmNext, CallReturns PROVE AlarmTypeOK'
  <2>1. turn' \in Turns /\ turn' \notin AlarmTurns
    BY <1>5 DEF CallReturns, Turns, AlarmTurns
  <2> QED
    BY <1>c, <1>5, <2>1 DEF AlarmTypeOK, CallReturns, Away
<1>6. ASSUME AlarmNext, Evict PROVE AlarmTypeOK'
  <2>1. turn' \in Turns /\ turn' \notin AlarmTurns
    BY <1>6 DEF Evict, Turns, Coding, AlarmTurns
  <2>2. due' \in BOOLEAN /\ (Away => due')
    BY <1>6, AwayBoolean DEF Evict, AlarmTypeOK
  <2> QED
    BY <1>c, <1>6, <2>1, <2>2 DEF AlarmTypeOK, Evict, Away
<1>7. ASSUME AlarmNext, Evicted PROVE AlarmTypeOK'
  <2>1. turn' \in Turns /\ turn' \notin AlarmTurns
    BY <1>7 DEF Evicted, Turns, AlarmTurns
  <2>2. mem' \in Instants /\ attempt' \in 0..Retries
    BY <1>7 DEF Evicted, Gone, Instants
  <2>3. boot = "none" \/ boot # "none"
    BY <1>7 
  <2> QED
    BY <1>c, <1>7, <2>1, <2>2, <2>3 DEF AlarmTypeOK, Evicted, Gone, Away
<1>8. ASSUME AlarmNext, SweepDue PROVE AlarmTypeOK'
  <2> QED
    BY <1>c, <1>8 DEF AlarmTypeOK, SweepDue, Away
<1>9. ASSUME AlarmNext, TurnRuns PROVE AlarmTypeOK'
  <2>1. turn' \in Turns /\ mem' \in Instants
    BY <1>9 DEF TurnRuns, Turns, Coding, Instants
  <2> QED
    BY <1>c, <1>9, <2>1 DEF AlarmTypeOK, TurnRuns, Due, Enterable, Away
<1>10. ASSUME AlarmNext, TurnCorrects PROVE AlarmTypeOK'
  <2>1. turn' \in Turns
    BY <1>10 DEF TurnCorrects, Turns
  <2>2. todo' \in Seq(Writes)
    BY <1>10, OneWrite DEF TurnCorrects, AlarmTypeOK
  <2> QED
    BY <1>c, <1>10, <2>1, <2>2 DEF AlarmTypeOK, TurnCorrects, Due, Enterable, Away
<1>11. ASSUME AlarmNext, TurnMisreads PROVE AlarmTypeOK'
  <2>1. turn \notin AlarmTurns
    BY <1>11 DEF TurnMisreads, Due, Enterable, AlarmTurns
  <2> QED
    BY <1>c, <1>11, <2>1 DEF AlarmTypeOK, TurnMisreads, Due, Enterable, Away
<1>12. ASSUME AlarmNext, HandlerReturns PROVE AlarmTypeOK'
  <2>1. todo' \in Seq(Writes) /\ attempt' \in 0..Retries
    BY <1>12, OneWrite DEF HandlerReturns
  <2>2. /\ turn' \in Turns /\ turn' = "counting" /\ due /\ loaded /\ ~Away
    BY <1>12 DEF AlarmTypeOK, HandlerReturns, Turns, AlarmTurns, Coding, Closings
  <2> QED
    BY <1>c, <1>12, <2>1, <2>2 DEF AlarmTypeOK, HandlerReturns, Away
<1>13. ASSUME AlarmNext, HandlerThrows PROVE AlarmTypeOK'
  <2>1. /\ todo' \in Seq(Writes) /\ attempt' \in 0..Retries /\ turn' \in {"retry", "giveup"}
    BY <1>13, CaughtTyped DEF AlarmTypeOK, HandlerThrows
  <2>2. turn' \in Turns /\ due /\ loaded /\ ~Away
    BY <1>13, <2>1 DEF AlarmTypeOK, HandlerThrows, Turns, AlarmTurns, Coding, Closings
  <2> QED
    BY <1>c, <1>13, <2>1, <2>2 DEF AlarmTypeOK, HandlerThrows, Away
<1>14. ASSUME AlarmNext, TurnSettles PROVE AlarmTypeOK'
  <2>1. Never \in Instants
    BY <1>14 DEF Instants
  <2>2. todo' \in Seq(Writes)
    BY <1>14, <2>1, SetAlarmWrites DEF TurnSettles
  <2>3. /\ turn' \in Turns /\ turn' \in {"settle", "gone"} /\ due /\ loaded /\ ~Away
    BY <1>14 DEF AlarmTypeOK, TurnSettles, Turns, AlarmTurns, Coding, Closings
  <2> QED
    BY <1>c, <1>14, <2>1, <2>2, <2>3 DEF AlarmTypeOK, TurnSettles, Away
<1>15. ASSUME AlarmNext, TurnRetries PROVE AlarmTypeOK'
  <2>1. Backoff \in Instants
    BY <1>15 DEF AlarmTypeOK, Backoff, Instants
  <2>2. todo' \in Seq(Writes) /\ touched' \in BOOLEAN
    BY <1>15, <2>1, SetAlarmWrites DEF AlarmTypeOK, TurnRetries
  <2>3. /\ turn' \in Turns /\ turn' = "reset" /\ due /\ loaded /\ ~Away
    BY <1>15 DEF AlarmTypeOK, TurnRetries, Turns, AlarmTurns, Coding, Closings
  <2> QED
    BY <1>c, <1>15, <2>1, <2>2, <2>3 DEF AlarmTypeOK, TurnRetries, Away
<1>16. ASSUME AlarmNext, TurnEnds PROVE AlarmTypeOK'
  <2>1. turn' \in Turns /\ turn' \notin AlarmTurns /\ ~Away
    BY <1>16 DEF AlarmTypeOK, TurnEnds, Turns, AlarmTurns, Coding, Closings
  <2> QED
    BY <1>c, <1>16, <2>1 DEF AlarmTypeOK, TurnEnds, Away
<1>17. ASSUME AlarmNext, WriteFails PROVE AlarmTypeOK'
  <2>1. alarmFaults' \in 0..MaxAlarmFaults
    BY <1>17 DEF AlarmTypeOK, WriteFails
  <2> QED
    BY <1>c, <1>17, <2>1 DEF AlarmTypeOK, WriteFails, Away
<1>18. ASSUME AlarmNext, StartWriteFails PROVE AlarmTypeOK'
  <2>1. alarmFaults' \in 0..MaxAlarmFaults
    BY <1>18 DEF AlarmTypeOK, StartWriteFails
  <2> QED
    BY <1>c, <1>18, <2>1 DEF AlarmTypeOK, StartWriteFails, Away
<1>19. ASSUME AlarmNext, CannotOpen PROVE AlarmTypeOK'
  <2>1. alarmFaults' \in 0..MaxAlarmFaults
    BY <1>19 DEF AlarmTypeOK, CannotOpen
  <2>2. mem' \in Instants /\ attempt' \in 0..Retries
    BY <1>19 DEF CannotOpen, Gone, Instants
  <2>3. due' \in BOOLEAN /\ (Away => due')
    BY <1>19, AwayBoolean DEF CannotOpen, AlarmTypeOK
  <2>4. turn' = turn /\ turn = "idle"
    BY <1>19 DEF CannotOpen, AlarmTypeOK
  <2> QED
    BY <1>c, <1>19, <2>1, <2>2, <2>3, <2>4 DEF AlarmTypeOK, CannotOpen, Gone, Away, AlarmTurns
<1>20. ASSUME AlarmNext, StartThrows PROVE AlarmTypeOK'
  <2>1. alarmFaults' \in 0..MaxAlarmFaults
    BY <1>20 DEF AlarmTypeOK, StartThrows
  <2>2. mem' \in Instants /\ attempt' \in 0..Retries
    BY <1>20 DEF StartThrows, Gone, Instants
  <2>3. turn' = "idle" /\ turn' \in Turns /\ turn' \notin AlarmTurns
    BY <1>20 DEF StartThrows, Turns, AlarmTurns
  <2>4. /\ orphan' \subseteq [exact : SUBSET Instants, sweep : BOOLEAN]
        /\ due' \in BOOLEAN /\ (Away' => due')
    <3>1. CASE (UNCHANGED due \/ due' = Away) /\ UNCHANGED orphan
      BY <3>1, AwayBoolean DEF AlarmTypeOK, Away
    <3>2. CASE /\ UNCHANGED due
               /\ \E sweep \in BOOLEAN :
                     (sweep => due) /\ orphan' = {[exact |-> Exact(sweep), sweep |-> sweep]}
      <4>1. PICK sweep \in BOOLEAN :
               (sweep => due) /\ orphan' = {[exact |-> Exact(sweep), sweep |-> sweep]}
        BY <3>2
      <4>2. [exact |-> Exact(sweep), sweep |-> sweep].sweep = sweep
        OBVIOUS
      <4>3. todo # <<>> => Head(todo) \in Writes
        BY DEF AlarmTypeOK
      <4>4. todo # <<>> /\ Head(todo).to = "index" => Head(todo).at \in Instants
        BY <4>3 DEF Writes
      <4>5. Exact(sweep) \in SUBSET Instants
        BY <4>4 DEF Exact, AlarmTypeOK
      <4>6. Away' <=> sweep
        BY <4>1, <4>2 DEF Away
      <4>7. orphan' \subseteq [exact : SUBSET Instants, sweep : BOOLEAN]
        BY <4>1, <4>5
      <4> QED
        BY <3>2, <4>1, <4>6, <4>7 DEF AlarmTypeOK
    <3> QED
      BY <1>20, <3>1, <3>2 DEF StartThrows
  <2> QED
    BY <1>c, <1>20, <2>1, <2>2, <2>3, <2>4 DEF AlarmTypeOK, StartThrows, Gone
<1>21. ASSUME AlarmNext, OrphanWrites PROVE AlarmTypeOK'
  <2>1. PICK o \in orphan : idx' \in o.exact \cup {Earlier(t) : t \in Times \cup 1..Backoff}
    BY <1>21 DEF OrphanWrites
  <2>2. o.exact \subseteq Instants
    BY DEF AlarmTypeOK
  <2>3. \A t \in Times \cup 1..Backoff : Earlier(t) \in Instants
    BY DEF AlarmTypeOK, Earlier, Instants, Backoff
  <2>4. idx' \in Instants
    BY <2>1, <2>2, <2>3
  <2> QED
    BY <1>c, <1>21, <2>4 DEF AlarmTypeOK, OrphanWrites, Away
<1>22. ASSUME AlarmNext, OrphanEnds PROVE AlarmTypeOK'
  <2>1. ~Away' /\ due' \in BOOLEAN /\ (turn \in AlarmTurns => due')
    BY <1>22 DEF AlarmTypeOK, OrphanEnds, Away
  <2> QED
    BY <1>c, <1>22, <2>1 DEF AlarmTypeOK, OrphanEnds
<1>23. ASSUME AlarmNext, TurnFails PROVE AlarmTypeOK'
  <2>1. alarmFaults' \in 0..MaxAlarmFaults
    BY <1>23 DEF AlarmTypeOK, TurnFails
  <2>2. turn \in AlarmTurns /\ due /\ loaded /\ ~Away
    BY <1>23 DEF AlarmTypeOK, TurnFails, Turns, AlarmTurns, Coding
  <2>3. CASE turn \in {"counting", "settle"}
    <3>1. todo' \in Seq(Writes) /\ attempt' \in 0..Retries /\ turn' \in {"retry", "giveup"}
      BY <1>23, <2>3, CaughtTyped DEF AlarmTypeOK, TurnFails
    <3>2. turn' \in Turns /\ due' /\ loaded'
      BY <1>23, <2>2, <2>3, <3>1 DEF TurnFails, Turns, Closings
    <3> QED
      BY <1>c, <1>23, <2>1, <2>2, <3>1, <3>2 DEF AlarmTypeOK, TurnFails, Away
  <2>4. CASE turn \notin {"counting", "settle"}
    <3>1. /\ todo' = <<>> /\ todo' \in Seq(Writes) /\ turn' = "idle" /\ turn' \in Turns
          /\ turn' \notin AlarmTurns
      BY <1>23, <2>4 DEF TurnFails, Turns, AlarmTurns
    <3> QED
      BY <1>c, <1>23, <2>1, <2>2, <2>4, <3>1 DEF AlarmTypeOK, TurnFails, Away
  <2> QED
    BY <2>3, <2>4
<1>24. ASSUME AlarmNext, Dies PROVE AlarmTypeOK'
  <2>1. alarmFaults' \in 0..MaxAlarmFaults
    BY <1>24 DEF AlarmTypeOK, Dies
  <2>2. mem' \in Instants /\ attempt' \in 0..Retries
    BY <1>24 DEF Dies, Gone, Instants
  <2>3. turn' = "idle" /\ turn' \in Turns /\ turn' \notin AlarmTurns /\ ~Away'
    BY <1>24 DEF Dies, Turns, AlarmTurns, Away
  <2>4. /\ todo' = <<>> /\ starts' = <<>> /\ todo' \in Seq(Writes) /\ starts' \in Seq(Writes)
        /\ orphan' \subseteq [exact : SUBSET Instants, sweep : BOOLEAN]
    BY <1>24 DEF Dies
  <2> QED
    BY <1>c, <1>24, <2>1, <2>2, <2>3, <2>4 DEF AlarmTypeOK, Dies, Gone
<1>25. ASSUME AlarmNext, Tick PROVE AlarmTypeOK'
  BY <1>c, <1>25 DEF AlarmTypeOK, Tick, Away
<1>26. CASE UNCHANGED alarmVars
  BY <1>26 DEF AlarmTypeOK, alarmVars, Away
<1> QED
  BY <1>o, <1>w, <1>s, <1>1, <1>2, <1>3, <1>4, <1>5, <1>6, <1>7, <1>8, <1>9, <1>10, <1>11,
     <1>12, <1>13, <1>14, <1>15, <1>16, <1>17, <1>18, <1>19, <1>20, <1>21, <1>22, <1>23,
     <1>24, <1>25, <1>26
     DEF AlarmNext, Steps, Returns, Runtime, Failures

-----------------------------------------------------------------------------
(* Apart is what it means that nothing crosses. *)
LEMMA ApartUnlessCrossing == AlarmTypeOK /\ ~Crossing => Apart
  BY DEF AlarmTypeOK, Crossing, Apart, Turns, AlarmTurns, Coding, Closings

(* A write of start() or of materialize that commits. *)
LEMMA StartWriteStep == AlarmTypeOK /\ Uncrossed /\ StartWrites /\ Apart' => Uncrossed'
<1> SUFFICES ASSUME AlarmTypeOK, Uncrossed, StartWrites, Apart' PROVE Uncrossed'
  OBVIOUS
<1> USE DEF entry, opener
<1>0. /\ Apart /\ Shape /\ Held /\ Suspended /\ Known /\ Outside /\ Spared /\ Counted
      /\ LateOnlyByTurn /\ starts # <<>>
  BY DEF Uncrossed, StartWrites
<1>t. now \in Nat /\ idx \in Instants /\ file \in Instants /\ mem \in Instants
  BY DEF AlarmTypeOK
<1>a. todo = <<>> /\ turn \in {"idle", "call"}
  BY <1>0 DEF Apart
<1>b. /\ UNCHANGED <<now, loaded, touched, attempt, boot, todo, turn, due, orphan, broken>>
      /\ starts' = Tail(starts)
  BY DEF StartWrites
<1>c. Suspended' /\ Spared'
  BY <1>a, <1>b DEF Suspended, Spared, Counting, Closings
<1>1. CASE \E a \in Nat : starts = <<Put("early", a), Put("file", a), Put("index", a)>>
  <2>1. PICK a \in Nat : starts = <<Put("early", a), Put("file", a), Put("index", a)>>
    BY <1>1
  <2>2. /\ starts' = <<Put("file", a), Put("index", a)>> /\ idx' = Earlier(a)
        /\ UNCHANGED <<counted, file, mem>>
    BY <2>1, Remaining DEF StartWrites, Commit, Put
  <2>3. /\ idx' \in Nat /\ idx' <= a /\ idx' # Never
        /\ idx # Never => idx' <= idx
    BY <1>t, <2>2 DEF Earlier, Instants, Never
  <2>4. Len(starts') = 2 /\ Len(starts) = 3 /\ a \in Instants
    BY <2>1, <2>2, Remaining DEF Instants
  <2>5. Shape' /\ boot # "opening"
    <3>1. boot # "opening"
      BY <1>0, <2>4 DEF Shape
    <3>2. Setting(starts)'
      BY <2>2, <2>3, <2>4 DEF Setting
    <3>3. Setting(todo)' /\ turn' \notin Counting
      BY <1>a, <1>b DEF Setting, Counting
    <3> QED
      BY <1>b, <3>1, <3>2, <3>3 DEF Shape
  <2>6. Held' /\ LateOnlyByTurn'
    BY <1>0, <1>t, <1>b, <2>2, <2>3, <2>5 DEF Held, LateOnlyByTurn, Indexed, Instants, Never
  <2>7. Known' /\ Outside' /\ Counted'
    BY <1>0, <1>a, <1>b, <2>2 DEF Known, Outside, Counted, Counting, Closings
  <2> QED
    BY <1>c, <2>5, <2>6, <2>7 DEF Uncrossed
<1>2. CASE \E a \in Instants :
             /\ starts = <<Put("file", a), Put("index", a)>>
             /\ a # Never => idx # Never /\ idx <= a
  <2>1. PICK a \in Instants :
           /\ starts = <<Put("file", a), Put("index", a)>>
           /\ a # Never => idx # Never /\ idx <= a
    BY <1>2
  <2>2. /\ starts' = <<Put("index", a)>> /\ file' = a /\ mem' = a
        /\ UNCHANGED <<counted, idx>>
    <3>1. Head(starts) = Put("file", a) /\ Tail(starts) = <<Put("index", a)>>
      BY <2>1, Remaining
    <3>2. Head(starts).to = "file" /\ Head(starts).at = a
      BY <3>1 DEF Put
    <3> QED
      BY <3>1, <3>2 DEF StartWrites, Commit
  <2>3. Len(starts') = 1 /\ Len(starts) = 2
    BY <2>1, <2>2, Remaining
  <2>4. Shape' /\ boot # "opening"
    <3>1. boot # "opening"
      BY <1>0, <2>3 DEF Shape
    <3>2. Setting(starts)'
      BY <2>2 DEF Setting
    <3>3. Setting(todo)' /\ turn' \notin Counting
      BY <1>a, <1>b DEF Setting, Counting
    <3> QED
      BY <1>b, <3>1, <3>2, <3>3 DEF Shape
  <2>5. Held' /\ LateOnlyByTurn'
    BY <1>b, <2>1, <2>2 DEF Held, LateOnlyByTurn, Indexed
  <2>6. Known' /\ Outside' /\ Counted'
    BY <1>0, <1>a, <1>b, <2>2 DEF Known, Outside, Counted, Counting, Closings
  <2> QED
    BY <1>c, <2>4, <2>5, <2>6 DEF Uncrossed
<1>3. CASE starts = <<Put("index", mem)>> /\ (broken \/ mem = file)
  <2>1. starts' = <<>> /\ idx' = mem /\ UNCHANGED <<counted, file, mem>>
    BY <1>3, Remaining DEF StartWrites, Commit, Put
  <2>2. Shape'
    BY <1>0, <1>a, <1>b, <2>1, Remaining DEF Shape, Setting, Counting
  <2>3. Held' /\ LateOnlyByTurn'
    BY <1>0, <1>t, <1>b, <1>3, <2>1 DEF Held, LateOnlyByTurn, Indexed, Instants, Never
  <2>4. Known' /\ Outside' /\ Counted'
    BY <1>0, <1>a, <1>b, <2>1 DEF Known, Outside, Counted, Counting, Closings
  <2> QED
    BY <1>c, <2>2, <2>3, <2>4 DEF Uncrossed
<1> QED
  BY <1>0, <1>1, <1>2, <1>3 DEF Shape, Setting

(* A write of an entry that commits. *)
LEMMA WriteStep == AlarmTypeOK /\ Uncrossed /\ WriteDone /\ Apart' => Uncrossed'
<1> SUFFICES ASSUME AlarmTypeOK, Uncrossed, WriteDone, Apart' PROVE Uncrossed'
  OBVIOUS
<1> USE AlarmAssumption DEF entry, opener
<1>0. /\ Apart /\ Shape /\ Held /\ Suspended /\ Known /\ Outside /\ Spared /\ Counted
      /\ LateOnlyByTurn /\ todo # <<>>
  BY DEF Uncrossed, WriteDone
<1>t. /\ now \in Nat /\ idx \in Instants /\ file \in Instants /\ mem \in Instants
      /\ attempt \in 0..Retries
  BY DEF AlarmTypeOK
<1>a. starts = <<>> /\ starts' = <<>> /\ orphan' = orphan /\ boot' = boot
  BY <1>0 DEF Apart, WriteDone
<1>1. CASE turn \in Counting
  <2>1. todo = <<Put("count", attempt)>>
    BY <1>0, <1>a, <1>1 DEF Shape
  <2>2. /\ todo' = <<>> /\ counted' = attempt
        /\ UNCHANGED <<idx, file, mem, now, loaded, touched, attempt, turn, due, broken>>
    BY <2>1, Remaining DEF WriteDone, Commit, Put
  <2>3. Shape'
    <3>1. Setting(starts)' /\ Len(starts') < 2
      BY <1>a, Remaining DEF Setting
    <3> QED
      BY <1>1, <2>2, <3>1 DEF Shape
  <2>4. Held' /\ Suspended' /\ Spared' /\ Counted' /\ LateOnlyByTurn'
    BY <1>0, <1>a, <1>1, <2>2
       DEF Held, Suspended, Spared, Counted, LateOnlyByTurn, Indexed, Counting, Closings
  <2>5. Known' /\ Outside'
    BY <1>0, <1>a, <1>1, <2>1, <2>2, Remaining DEF Known, Outside, Counting, Closings
  <2> QED
    BY <2>3, <2>4, <2>5 DEF Uncrossed
<1>2. CASE /\ turn \notin Counting
           /\ \E a \in Nat : todo = <<Put("early", a), Put("file", a), Put("index", a)>>
  <2>1. PICK a \in Nat : todo = <<Put("early", a), Put("file", a), Put("index", a)>>
    BY <1>2
  <2>2. /\ todo' = <<Put("file", a), Put("index", a)>> /\ idx' = Earlier(a)
        /\ UNCHANGED <<counted, file, mem, now, loaded, touched, attempt, turn, due, broken>>
    BY <2>1, Remaining DEF WriteDone, Commit, Put
  <2>3. /\ idx' \in Nat /\ idx' <= a /\ idx' # Never
        /\ idx # Never => idx' <= idx
    BY <1>t, <2>2 DEF Earlier, Instants, Never
  <2>4. Len(todo') = 2 /\ Len(todo) = 3 /\ a \in Instants
    BY <2>1, <2>2, Remaining DEF Instants
  <2>5. Shape'
    BY <1>0, <1>a, <1>2, <2>2, <2>3, <2>4 DEF Shape, Setting, Instants
  <2>6. Held' /\ Suspended' /\ LateOnlyByTurn'
    BY <1>0, <1>a, <1>t, <1>2, <2>2, <2>3, <2>4, <2>5
       DEF Held, Suspended, LateOnlyByTurn, Indexed, Counting, Instants, Never
  <2>7. Known' /\ Outside' /\ Spared' 
    BY <1>0, <1>a, <1>2, <2>2, <2>4 DEF Known, Outside, Spared, Counting, Closings
  <2>8. Counted'
    <3>1. todo # <<Put("count", attempt)>>
      BY <2>4, Remaining
    <3> QED
      BY <1>0, <1>a, <2>2, <3>1 DEF Counted
  <2> QED
    BY <2>4, <2>5, <2>6, <2>7, <2>8 DEF Uncrossed
<1>3. CASE turn \notin Counting /\ \E a \in Instants :
             /\ todo = <<Put("file", a), Put("index", a)>>
             /\ a # Never => idx # Never /\ idx <= a
  <2>1. PICK a \in Instants :
           /\ todo = <<Put("file", a), Put("index", a)>>
           /\ a # Never => idx # Never /\ idx <= a
    BY <1>3
  <2>2. /\ todo' = <<Put("index", a)>> /\ file' = a /\ mem' = a
        /\ UNCHANGED <<counted, idx, now, loaded, touched, attempt, turn, due, broken>>
    <3>1. Head(todo) = Put("file", a) /\ Tail(todo) = <<Put("index", a)>>
      BY <2>1, Remaining
    <3>2. Head(todo).to = "file" /\ Head(todo).at = a
      BY <3>1 DEF Put
    <3> QED
      BY <3>1, <3>2 DEF WriteDone, Commit
  <2>3. Len(todo') = 1 /\ Len(todo) = 2
    BY <2>1, <2>2, Remaining
  <2>4. Shape'
    BY <1>0, <1>a, <1>3, <2>2, <2>3 DEF Shape, Setting
  <2>5. Held' /\ Suspended' /\ LateOnlyByTurn'
    <3>1. turn = "handler" => touched
      BY <1>0 DEF Suspended
    <3> QED
      BY <1>a, <1>3, <2>1, <2>2, <3>1 DEF Held, Suspended, LateOnlyByTurn, Indexed, Counting
  <2>6. Known' /\ Outside' /\ Spared'
    BY <1>0, <1>a, <1>3, <2>2, <2>3 DEF Known, Outside, Spared, Counting, Closings
  <2>7. Counted'
    <3>1. todo # <<Put("count", attempt)>>
      BY <2>3, Remaining
    <3> QED
      BY <1>0, <1>a, <2>2, <3>1 DEF Counted
  <2> QED
    BY <2>3, <2>4, <2>5, <2>6, <2>7 DEF Uncrossed
<1>4. CASE turn \notin Counting /\ todo = <<Put("index", mem)>> /\ (broken \/ mem = file)
  <2>1. /\ todo' = <<>> /\ idx' = mem
        /\ UNCHANGED <<counted, file, mem, now, loaded, touched, attempt, turn, due, broken>>
    BY <1>4, Remaining DEF WriteDone, Commit, Put
  <2>2. Len(todo) = 1 /\ Len(todo') = 0
    BY <1>4, <2>1, Remaining
  <2>3. Shape'
    BY <1>a, <1>4, <2>1, <2>2 DEF Shape, Setting
  <2>4. Held' /\ Suspended' /\ LateOnlyByTurn'
    BY <1>0, <1>a, <1>t, <1>4, <2>1
       DEF Held, Suspended, LateOnlyByTurn, Indexed, Counting, Instants, Never
  <2>5. Known' /\ Outside' /\ Spared'
    BY <1>0, <1>a, <1>4, <2>1, <2>2 DEF Known, Outside, Spared, Counting, Closings
  <2>6. Counted'
    <3>1. todo # <<Put("count", attempt)>>
      BY <1>4, Remaining DEF Put
    <3> QED
      BY <1>0, <1>a, <2>1, <3>1 DEF Counted
  <2> QED
    BY <2>2, <2>3, <2>4, <2>5, <2>6 DEF Uncrossed
<1> QED
  BY <1>0, <1>1, <1>2, <1>3, <1>4 DEF Shape, Setting

(* Every other step. *)
LEMMA UncrossedStep ==
    AlarmTypeOK /\ AlarmTypeOK' /\ Uncrossed /\ Steps /\ ~Crossing' => Uncrossed'
<1> SUFFICES ASSUME AlarmTypeOK, AlarmTypeOK', Uncrossed, Steps, ~Crossing' PROVE Uncrossed'
  OBVIOUS
<1> USE AlarmAssumption DEF disks, state, entry, opener
<1>0. /\ Apart /\ Shape /\ Held /\ Suspended /\ Known /\ Outside /\ Spared /\ Counted
      /\ LateOnlyByTurn
  BY DEF Uncrossed
<1>a. Apart'
  BY ApartUnlessCrossing, PTL
<1>w. CASE WriteDone
  BY <1>a, <1>w, WriteStep
<1>s. CASE StartWrites
  BY <1>a, <1>s, StartWriteStep
<1>o. ASSUME NEW at \in Times \cup {Never}, Operate(at) PROVE Uncrossed'
  <2>1. at \in Instants
    BY DEF Instants
  <2>3. Shape'
    BY <1>0, <1>o, <2>1, SetAlarmWrites DEF Shape, Setting, Operate, Coding, Counting
  <2>4. Held' /\ Suspended' /\ LateOnlyByTurn'
    BY <1>0, <1>o DEF Held, Suspended, LateOnlyByTurn, Indexed, Operate
  <2>5. Known' /\ Outside' /\ Spared'
    BY <1>0, <1>o, <2>1, SetAlarmWrites
       DEF Known, Outside, Spared, Operate, Coding, Counting, Closings
  <2>6. Counted'
    BY <1>0, <1>o DEF Counted, Operate
  <2> QED
    BY <1>a, <2>3, <2>4, <2>5, <2>6 DEF Uncrossed
<1>p. ASSUME NEW at \in Times \cup {Never}, StartOperates(at) PROVE Uncrossed'
  <2>1. at \in Instants
    BY DEF Instants
  <2>2. starts' # <<>> /\ turn \in {"idle", "call"}
    <3>1. starts' # <<>>
      BY <1>p DEF StartOperates, SetAlarm
    <3> QED
      BY <1>a, <1>p, <3>1 DEF Apart, StartOperates
  <2>3. Shape'
    BY <1>0, <1>p, <2>1, SetAlarmWrites DEF Shape, Setting, StartOperates, Counting
  <2>4. Held' /\ Suspended' /\ LateOnlyByTurn'
    BY <1>0, <1>p, <2>2
       DEF Held, Suspended, LateOnlyByTurn, Indexed, StartOperates, Counting
  <2>5. Known' /\ Outside' /\ Spared' /\ Counted'
    BY <1>0, <1>p, <2>2
       DEF Known, Outside, Spared, Counted, StartOperates, Counting, Closings
  <2> QED
    BY <1>a, <2>3, <2>4, <2>5 DEF Uncrossed
<1>1. CASE Opened
  <2>1. Shape'
    BY <1>0, <1>1 DEF Shape, Setting, Opened
  <2>2. Held' /\ Suspended' /\ LateOnlyByTurn'
    BY <1>0, <1>1 DEF Held, Suspended, LateOnlyByTurn, Indexed, Opened, Counting
  <2>3. Known' /\ Outside' /\ Spared' /\ Counted'
    BY <1>0, <1>1 DEF Known, Outside, Spared, Counted, Opened, Closings
  <2> QED
    BY <1>a, <2>1, <2>2, <2>3 DEF Uncrossed
<1>2. CASE StartEnds
  <2>1. Shape'
    BY <1>0, <1>2 DEF Shape, Setting, StartEnds
  <2>2. Held' /\ Suspended' /\ LateOnlyByTurn'
    BY <1>0, <1>2 DEF Held, Suspended, LateOnlyByTurn, Indexed, StartEnds, Counting
  <2>3. Known' /\ Outside' /\ Spared' /\ Counted'
    BY <1>0, <1>2 DEF Known, Outside, Spared, Counted, StartEnds, Closings
  <2> QED
    BY <1>a, <2>1, <2>2, <2>3 DEF Uncrossed
<1>3. CASE OpenWorker
  <2>1. turn = "idle" /\ todo = <<>>
    BY <1>3 DEF AlarmTypeOK, OpenWorker
  <2>2. Shape'
    BY <1>0, <1>3, <2>1, <2>1, Remaining DEF Shape, Setting, OpenWorker, Counting
  <2>3. Held' /\ Suspended' /\ LateOnlyByTurn'
    BY <1>0, <1>3, <2>1 DEF Held, Suspended, LateOnlyByTurn, Indexed, OpenWorker, Counting
  <2>4. Known' /\ Outside' /\ Spared' /\ Counted'
    BY <1>0, <1>3, <2>1 DEF Known, Outside, Spared, Counted, OpenWorker, Closings, Counting
  <2> QED
    BY <1>a, <2>2, <2>3, <2>4 DEF Uncrossed
<1>4. CASE Call
  <2>1. turn = "idle" /\ todo = <<>>
    BY <1>4 DEF AlarmTypeOK, Call, Enterable
  <2>2. Shape'
    BY <1>0, <1>4, <2>1 DEF Shape, Setting, Call, Enterable, Counting
  <2>3. Held' /\ Suspended' /\ LateOnlyByTurn'
    BY <1>0, <1>4, <2>1 DEF Held, Suspended, LateOnlyByTurn, Indexed, Call, Enterable, Counting
  <2>4. Known' /\ Outside' /\ Spared' /\ Counted'
    BY <1>0, <1>4, <2>1 DEF Known, Outside, Spared, Counted, Call, Enterable, Closings, Counting
  <2> QED
    BY <1>a, <2>2, <2>3, <2>4 DEF Uncrossed
<1>5. CASE CallReturns
  <2>1. Shape'
    BY <1>0, <1>5 DEF Shape, Setting, CallReturns, Counting
  <2>2. Held' /\ Suspended' /\ LateOnlyByTurn'
    BY <1>0, <1>5 DEF Held, Suspended, LateOnlyByTurn, Indexed, CallReturns, Counting
  <2>3. Known' /\ Outside' /\ Spared' /\ Counted'
    BY <1>0, <1>5 DEF Known, Outside, Spared, Counted, CallReturns, Closings, Counting
  <2> QED
    BY <1>a, <2>1, <2>2, <2>3 DEF Uncrossed
<1>6. CASE Evict
  <2>1. turn = "idle" /\ todo = <<>>
    BY <1>6 DEF AlarmTypeOK, Evict
  <2>2. Shape'
    BY <1>0, <1>6, <2>1 DEF Shape, Setting, Evict, Counting
  <2>3. Held' /\ Suspended' /\ LateOnlyByTurn'
    BY <1>0, <1>6, <2>1 DEF Held, Suspended, LateOnlyByTurn, Indexed, Evict, Counting
  <2>4. Known' /\ Outside' /\ Spared' /\ Counted'
    BY <1>0, <1>6, <2>1 DEF Known, Outside, Spared, Counted, Evict, Closings, Counting
  <2> QED
    BY <1>a, <2>2, <2>3, <2>4 DEF Uncrossed
<1>7. CASE Evicted
  <2>1. boot = "none" /\ starts = <<>>
    BY <1>7 DEF AlarmTypeOK, Evicted
  <2>2. Shape'
    BY <1>0, <1>7, <2>1 DEF Shape, Setting, Evicted, Gone, Counting
  <2>3. Held' /\ Suspended' /\ LateOnlyByTurn'
    BY <1>0, <1>7, <2>1 DEF Held, Suspended, LateOnlyByTurn, Indexed, Evicted, Gone, Counting
  <2>4. Known' /\ Outside' /\ Spared' /\ Counted'
    BY <1>0, <1>7, <2>1 DEF Known, Outside, Spared, Counted, Evicted, Gone, Closings, Counting
  <2> QED
    BY <1>a, <2>2, <2>3, <2>4 DEF Uncrossed
<1>8. CASE SweepDue
  <2>1. Shape'
    BY <1>0, <1>8 DEF Shape, Setting, SweepDue
  <2>2. Held' /\ Suspended' /\ LateOnlyByTurn'
    BY <1>0, <1>8 DEF Held, Suspended, LateOnlyByTurn, Indexed, SweepDue
  <2>3. Known' /\ Outside' /\ Spared' /\ Counted'
    BY <1>0, <1>8 DEF Known, Outside, Spared, Counted, SweepDue
  <2> QED
    BY <1>a, <2>1, <2>2, <2>3 DEF Uncrossed
<1>9. CASE TurnRuns
  <2>1. mem # Never /\ loaded /\ turn = "idle" /\ mem <= now /\ todo = <<>>
    BY <1>9 DEF AlarmTypeOK, TurnRuns, Due, Enterable, Instants, Never
  <2>2. /\ mem' = Never /\ turn' = "handler" /\ todo' = <<>> /\ touched' = FALSE
        /\ UNCHANGED <<now, file, counted, idx, loaded, boot, starts, attempt, broken>>
    BY <1>9, <2>1 DEF TurnRuns
  <2>3. starts = <<>> /\ boot # "opening"
    <3>1. turn' \notin {"idle", "call"}
      BY <2>2
    <3> QED
      BY <1>a, <1>9, <2>2, <3>1 DEF Apart, TurnRuns, Due, Enterable
  <2>4. Shape'
    BY <2>2, <2>3 DEF Shape, Setting, Counting
  <2>5. Held' /\ Suspended' /\ LateOnlyByTurn'
    <3>1. /\ mem = file /\ idx # Never /\ idx <= mem
          /\ now \in Nat /\ idx \in Instants /\ mem \in Instants
      BY <1>0, <2>1, <2>3 DEF Held, AlarmTypeOK
    <3>2. idx <= now
      BY <2>1, <3>1 DEF Instants, Never
    <3>3. Held' /\ Suspended'
      BY <2>1, <2>2, <3>1, <3>2 DEF Held, Suspended
    <3>4. LateOnlyByTurn'
      BY <1>0, <2>2 DEF LateOnlyByTurn, Indexed
    <3> QED
      BY <3>3, <3>4
  <2>6. Known' /\ Outside' /\ Spared' /\ Counted'
    BY <1>0, <2>1, <2>2 DEF Known, Outside, Spared, Counted, Closings
  <2> QED
    BY <1>a, <2>4, <2>5, <2>6 DEF Uncrossed
<1>10. CASE TurnCorrects
  <2>1. /\ todo' = <<Put("index", mem)>> /\ turn' = "correct" /\ loaded /\ turn = "idle"
        /\ UNCHANGED <<now, file, counted, idx, loaded, mem, touched, attempt, boot,
                       starts, broken>>
        /\ boot # "opening" /\ todo = <<>>
    BY <1>10 DEF AlarmTypeOK, TurnCorrects, Due, Enterable
  <2>2. broken \/ mem = file
    BY <1>0, <2>1 DEF Outside, Closings
  <2>3. Shape'
    BY <1>0, <2>1, <2>2 DEF Shape, Setting, Counting
  <2>4. Held' /\ Suspended' /\ LateOnlyByTurn'
    BY <1>0, <2>1 DEF Held, Suspended, LateOnlyByTurn, Indexed, Counting
  <2>5. Known' /\ Outside' /\ Spared' /\ Counted'
    BY <1>0, <2>1, <2>2 DEF Known, Outside, Spared, Counted, Closings, Counting
  <2> QED
    BY <1>a, <2>3, <2>4, <2>5 DEF Uncrossed
<1>11. CASE TurnMisreads
  <2>1. Shape'
    BY <1>0, <1>11 DEF Shape, Setting, TurnMisreads
  <2>2. Held' /\ Suspended' /\ LateOnlyByTurn'
    BY <1>0, <1>11 DEF Held, Suspended, LateOnlyByTurn, Indexed, TurnMisreads
  <2>3. Known' /\ Outside' /\ Spared' /\ Counted'
    BY <1>0, <1>11 DEF Known, Outside, Spared, Counted, TurnMisreads
  <2> QED
    BY <1>a, <2>1, <2>2, <2>3 DEF Uncrossed
<1>12. CASE HandlerReturns
  <2>1. Shape'
    BY <1>0, <1>12 DEF Shape, Setting, HandlerReturns, Counting
  <2>2. Held' /\ Suspended' /\ LateOnlyByTurn'
    BY <1>0, <1>12 DEF Held, Suspended, LateOnlyByTurn, Indexed, HandlerReturns, Counting
  <2>3. Known' /\ Outside' /\ Spared' /\ Counted'
    BY <1>0, <1>12 DEF Known, Outside, Spared, Counted, HandlerReturns, Closings, Counting
  <2> QED
    BY <1>a, <2>1, <2>2, <2>3 DEF Uncrossed
<1>13. CASE HandlerThrows
  <2>1. Shape'
    BY <1>0, <1>13 DEF Shape, Setting, HandlerThrows, Caught, Counting
  <2>2. Held' /\ Suspended' /\ LateOnlyByTurn'
    BY <1>0, <1>13 DEF Held, Suspended, LateOnlyByTurn, Indexed, HandlerThrows, Caught, Counting
  <2>3. Known' /\ Outside' /\ Spared' /\ Counted'
    BY <1>0, <1>13 DEF Known, Outside, Spared, Counted, HandlerThrows, Caught, Closings, Counting
  <2> QED
    BY <1>a, <2>1, <2>2, <2>3 DEF Uncrossed
<1>14. CASE TurnSettles
  <2>1. Len(SetAlarm(Never)) = 2 /\ Never \in Instants
    BY SetAlarmWrites, Remaining DEF Instants
  <2>2. Shape'
    BY <1>0, <1>14, SetAlarmWrites DEF Shape, Setting, TurnSettles, Counting, Instants
  <2>3. Held' /\ Suspended' /\ LateOnlyByTurn'
    BY <1>0, <1>14 DEF Held, Suspended, LateOnlyByTurn, Indexed, TurnSettles, Counting
  <2>4. Known' /\ Spared'
    BY <1>0, <1>14, <2>1 DEF Known, Spared, Suspended, TurnSettles, Closings, Counting
  <2>5. Outside' /\ Counted'
    BY <1>0, <1>14, Remaining DEF Outside, Counted, TurnSettles, Closings
  <2> QED
    BY <1>a, <2>2, <2>3, <2>4, <2>5 DEF Uncrossed
<1>15. CASE TurnRetries
  <2>1. Backoff \in Nat /\ Backoff \in Instants
    BY DEF AlarmTypeOK, Backoff, Instants
  <2>2. Len(SetAlarm(Backoff)) \in {2, 3}
    BY <2>1, SetAlarmWrites
  <2>3. Shape'
    BY <1>0, <1>15, <2>1, SetAlarmWrites
       DEF AlarmTypeOK, Shape, Setting, TurnRetries, Counting, Instants, Never
  <2>4. Held' /\ Suspended' /\ LateOnlyByTurn'
    BY <1>0, <1>15 DEF Held, Suspended, LateOnlyByTurn, Indexed, TurnRetries, Counting
  <2>5. Known' /\ Spared'
    BY <1>0, <1>15, <2>2 DEF Known, Spared, Suspended, TurnRetries, Closings, Counting
  <2>6. Outside' /\ Counted'
    BY <1>0, <1>15 DEF Outside, Counted, TurnRetries, Closings
  <2> QED
    BY <1>a, <2>3, <2>4, <2>5, <2>6 DEF Uncrossed
<1>16. CASE TurnEnds
  <2>1. Shape'
    BY <1>0, <1>16 DEF Shape, Setting, TurnEnds, Counting
  <2>2. Held' /\ Suspended' /\ LateOnlyByTurn'
    BY <1>0, <1>16 DEF Held, Suspended, LateOnlyByTurn, Indexed, TurnEnds, Counting
  <2>3. Known' /\ Outside' /\ Spared' /\ Counted'
    BY <1>0, <1>16 DEF Known, Outside, Spared, Counted, TurnEnds, Closings, Counting
  <2> QED
    BY <1>a, <2>1, <2>2, <2>3 DEF Uncrossed
<1>17. CASE WriteFails
  <2>1. starts = <<>> /\ turn \in Coding /\ turn \notin Counting
    BY <1>0, <1>17 DEF Apart, WriteFails, Coding, Counting
  <2>2. todo # <<Put("count", attempt)>>
    BY <1>0, <2>1, NoCount DEF Shape
  <2>3. Shape'
    BY <1>0, <1>17, <2>1, Remaining DEF Shape, Setting, WriteFails
  <2>4. Held' /\ Suspended' /\ LateOnlyByTurn'
    BY <1>0, <1>17 DEF Held, Suspended, LateOnlyByTurn, Indexed, WriteFails, Coding
  <2>5. Known' /\ Outside' /\ Spared'
    BY <1>0, <1>17 DEF Known, Outside, Spared, WriteFails, Coding, Closings
  <2>6. Counted'
    BY <1>0, <1>17, <2>2 DEF Counted, WriteFails
  <2> QED
    BY <1>a, <2>3, <2>4, <2>5, <2>6 DEF Uncrossed
<1>18. CASE StartWriteFails
  <2>1. Shape'
    BY <1>0, <1>18 DEF Shape, Setting, StartWriteFails
  <2>2. Held' /\ Suspended' /\ LateOnlyByTurn'
    BY <1>0, <1>18 DEF Held, Suspended, LateOnlyByTurn, Indexed, StartWriteFails
  <2>3. Known' /\ Outside' /\ Spared' /\ Counted'
    BY <1>0, <1>18 DEF Known, Outside, Spared, Counted, StartWriteFails
  <2> QED
    BY <1>a, <2>1, <2>2, <2>3 DEF Uncrossed
<1>19. CASE CannotOpen
  <2>1. turn = "idle" /\ todo = <<>>
    BY <1>19 DEF AlarmTypeOK, CannotOpen
  <2>2. Shape'
    BY <1>0, <1>19, <2>1 DEF Shape, Setting, CannotOpen, Gone
  <2>3. Held' /\ Suspended' /\ LateOnlyByTurn'
    BY <1>0, <1>19, <2>1 DEF Held, Suspended, LateOnlyByTurn, Indexed, CannotOpen, Gone, Counting
  <2>4. Known' /\ Outside' /\ Spared' /\ Counted'
    BY <1>0, <1>19, <2>1 DEF Known, Outside, Spared, Counted, CannotOpen, Gone, Closings, Counting
  <2> QED
    BY <1>a, <2>2, <2>3, <2>4 DEF Uncrossed
<1>20. CASE StartThrows
  <2>1. Shape'
    BY <1>0, <1>20 DEF Shape, Setting, StartThrows, Gone, Counting
  <2>2. Held' /\ Suspended' /\ LateOnlyByTurn'
    BY <1>0, <1>20 DEF Held, Suspended, LateOnlyByTurn, Indexed, StartThrows, Gone, Counting
  <2>3. Known' /\ Outside' /\ Spared' /\ Counted'
    BY <1>0, <1>20 DEF Known, Outside, Spared, Counted, StartThrows, Gone, Closings, Counting
  <2> QED
    BY <1>a, <2>1, <2>2, <2>3 DEF Uncrossed
<1>21. CASE OrphanWrites \/ OrphanEnds
  BY <1>0, <1>21 DEF Apart, OrphanWrites, OrphanEnds
<1>23. CASE TurnFails
  <2>1. UNCHANGED <<now, file, idx, loaded, mem, touched, boot, starts>> /\ broken' = TRUE
    BY <1>23 DEF TurnFails
  <2>2. starts = <<>> /\ boot # "opening"
    BY <1>0, <1>23 DEF AlarmTypeOK, Apart, TurnFails
  <2>3. turn' \in {"idle", "retry", "giveup"}
    BY <1>23 DEF TurnFails, Caught
  <2>4. turn' # "idle" => turn \in {"counting", "settle"}
    BY <1>23 DEF TurnFails
  <2>5. turn' # "idle" /\ ~touched => turn = "counting"
    BY <1>0, <2>4 DEF Spared, Counting, Closings
  <2>6. Shape'
    BY <1>0, <1>23, <2>1, <2>2 DEF Shape, Setting, TurnFails, Caught, Counting
  <2>7. Held' /\ Suspended' /\ LateOnlyByTurn'
    BY <1>0, <2>1, <2>2, <2>3, <2>5 DEF Held, Suspended, LateOnlyByTurn, Indexed, Counting
  <2>8. Known' /\ Outside' /\ Spared' /\ Counted'
    BY <1>0, <2>1, <2>3 DEF Known, Outside, Spared, Counted, Closings, Counting
  <2> QED
    BY <1>a, <2>6, <2>7, <2>8 DEF Uncrossed
<1>24. CASE Dies
  <2>1. Shape'
    BY <1>0, <1>24 DEF Shape, Setting, Dies, Gone, Counting
  <2>2. Held' /\ Suspended' /\ LateOnlyByTurn'
    BY <1>0, <1>24 DEF Held, Suspended, LateOnlyByTurn, Indexed, Dies, Gone, Counting
  <2>3. Known' /\ Outside' /\ Spared' /\ Counted'
    BY <1>0, <1>24 DEF Known, Outside, Spared, Counted, Dies, Gone, Closings, Counting
  <2> QED
    BY <1>a, <2>1, <2>2, <2>3 DEF Uncrossed
<1>25. CASE Tick
  <2>1. Shape'
    BY <1>0, <1>25 DEF Shape, Setting, Tick
  <2>2. Held' /\ Suspended' /\ LateOnlyByTurn'
    BY <1>0, <1>25 DEF AlarmTypeOK, Held, Suspended, LateOnlyByTurn, Indexed, Tick, Instants
  <2>3. Known' /\ Outside' /\ Spared' /\ Counted'
    BY <1>0, <1>25 DEF Known, Outside, Spared, Counted, Tick
  <2> QED
    BY <1>a, <2>1, <2>2, <2>3 DEF Uncrossed
<1> QED
  BY <1>w, <1>s, <1>o, <1>p, <1>1, <1>2, <1>3, <1>4, <1>5, <1>6, <1>7, <1>8, <1>9, <1>10,
     <1>11, <1>12, <1>13, <1>14, <1>15, <1>16, <1>17, <1>18, <1>19, <1>20, <1>21, <1>23,
     <1>24, <1>25
     DEF Steps, Returns, Runtime, Failures

(* Every step keeps the invariant. *)
LEMMA AlarmStep == AlarmInv /\ [AlarmNext]_alarmVars => AlarmInv'
<1> SUFFICES ASSUME AlarmInv, [AlarmNext]_alarmVars PROVE AlarmInv'
  OBVIOUS
<1>1. AlarmTypeOK /\ AlarmTypeOK'
  BY TypedStep DEF AlarmInv
<1>2. CASE AlarmNext
  <2>1. CASE crossed'
    BY <1>1, <2>1 DEF AlarmInv
  <2>2. CASE ~crossed'
    <3>1. ~crossed /\ ~Crossing'
      BY <1>2, <2>2 DEF AlarmNext, Noted
    <3> QED
      BY <1>1, <1>2, <3>1, UncrossedStep DEF AlarmInv, AlarmNext
  <2> QED
    BY <2>1, <2>2
<1>3. CASE UNCHANGED alarmVars
  BY <1>1, <1>3
     DEF AlarmInv, Uncrossed, alarmVars, disks, state, entry, opener, Apart, Shape, Setting, Held,
         Suspended, Known, Outside, Spared, Counted, LateOnlyByTurn, Indexed
<1> QED
  BY <1>2, <1>3

-----------------------------------------------------------------------------
(* The inductive invariant holds of every behaviour. *)
LEMMA AlarmAlways == AlarmSpec => []AlarmInv
  BY AlarmInitially, AlarmStep, PTL DEF AlarmSpec

(* Type correctness, whatever start() does beside the mailbox: no retry beyond    *)
(* config.alarmRetries is counted, no turn runs on a worker that is closed, and   *)
(* the scheduler's sweep has one turn at a time, also when start() throws during it. *)
THEOREM AlarmTyped == AlarmSpec => []AlarmTypeOK
<1>1. AlarmInv => AlarmTypeOK
  BY DEF AlarmInv
<1> QED
  BY <1>1, AlarmAlways, PTL

(* The order of the writes of #setAlarm, the alarm kept on disk while its handler *)
(* runs and the repair in materialize together keep the index early, never late,  *)
(* over any crashes, calls during start() and failures outside the alarm turn,    *)
(* until an alarm operation of start() runs into one of the mailbox.             *)
THEOREM NeverLate == AlarmSpec => []EarlyNeverLate
<1>1. AlarmInv => EarlyNeverLate
  BY DEF AlarmInv, Uncrossed, LateOnlyByTurn, EarlyNeverLate
<1> QED
  BY <1>1, AlarmAlways, PTL

(* suspendAlarm: an alarm whose handler has not ended is found and run again.     *)
THEOREM AtLeastOnce == AlarmSpec => []RunsAgain
<1>1. AlarmInv => RunsAgain
  BY DEF AlarmInv, Uncrossed, Suspended, RunsAgain, Counting
<1> QED
  BY <1>1, AlarmAlways, PTL

(* State.#alarm and #attempt are what the worker's file holds whenever run or a    *)
(* call reads them, also while start() is awaited.                              *)
THEOREM MemoryIsTrue == AlarmSpec => []MemoryTrue
<1>1. AlarmInv => MemoryTrue
  <2> SUFFICES ASSUME AlarmInv, loaded, ~broken, ~crossed,
                      turn \in {"idle", "call", "stop", "correct"}
               PROVE  mem = file /\ attempt = counted
    BY DEF MemoryTrue
  <2>1. turn \notin Closings \cup {"handler"} /\ turn \notin Counting
    BY DEF Closings, Counting
  <2> QED
    BY <2>1, NoCount DEF AlarmInv, Uncrossed, Outside, Counted, Shape
<1> QED
  BY <1>1, AlarmAlways, PTL

(* settle and the retry leave the time alone that a handler has asked for.       *)
THEOREM HandlersTimeKept == AlarmSpec => AskedTimeKept
<1>1. AlarmInv /\ [AlarmNext]_alarmVars
        => [mem # Never /\ turn \in Coding \cup Closings /\ turn' \in Closings
              => crossed' \/ (file' = file /\ mem' = mem)]_alarmVars
  <2> SUFFICES ASSUME AlarmInv, Steps, ~crossed, ~crossed', Noted,
                      mem # Never, turn \in Coding \cup Closings, turn' \in Closings
               PROVE  file' = file /\ mem' = mem
    BY DEF alarmVars, disks, state, entry, opener, AlarmNext, Noted
  <2>1. CASE WriteDone
    <3>1. turn' = turn /\ todo # <<>>
      BY <2>1 DEF WriteDone
    <3>2. turn \in Counting => Head(todo).to = "count"
      BY <3>1, Remaining DEF AlarmInv, Uncrossed, Shape, Put
    <3>3. turn \notin Counting => Head(todo).to = "index"
      <4> SUFFICES ASSUME turn \notin Counting PROVE Head(todo).to = "index"
        OBVIOUS
      <4>1. Len(todo) < 2 /\ Setting(todo)
        BY <3>1 DEF AlarmInv, Uncrossed, Spared, Shape
      <4>2. todo = <<Put("index", mem)>>
        BY <3>1, <4>1, Remaining DEF Setting
      <4> QED
        BY <4>2, Remaining DEF Put
    <3> QED
      BY <2>1, <3>2, <3>3 DEF WriteDone, Commit
  <2>2. CASE StartWrites
    <3>1. turn' = turn /\ starts # <<>>
      BY <2>2 DEF StartWrites, entry
    <3> QED
      BY <3>1 DEF AlarmInv, Uncrossed, Apart, Closings
  <2>3. CASE ~WriteDone /\ ~StartWrites
    <3>1. OpenWorker \/ CannotOpen => turn' = turn /\ turn = "idle"
      BY DEF AlarmInv, AlarmTypeOK, OpenWorker, CannotOpen, entry
    <3> QED
      BY <2>3, <3>1
         DEF Steps, Returns, Runtime, Failures, Opened, StartEnds, Call, CallReturns, Evict,
             Evicted, SweepDue, TurnRuns, TurnCorrects, TurnMisreads, HandlerReturns,
             HandlerThrows, TurnSettles, TurnRetries, TurnEnds, WriteFails, StartWriteFails,
             CannotOpen, StartThrows, OrphanWrites, OrphanEnds, TurnFails, Dies, Tick, Operate,
             StartOperates, disks, state, entry, opener, Closings, Coding
  <2> QED
    BY <2>1, <2>2, <2>3
<1> QED
  BY <1>1, AlarmAlways, PTL DEF AlarmSpec, AskedTimeKept
=============================================================================
