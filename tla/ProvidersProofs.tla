---------------------------- MODULE ProvidersProofs ----------------------------
(***************************************************************************)
(* Proofs about the parts that MCProviders checks together, each for itself.  *)
(* MongoPool: the count of the pool, who is woken for a free place, what may   *)
(* be idle in it, what a lost connection does, and that it implements           *)
(* BoundedPool.  SqlPool: one owner for every resource, waiters only beside a   *)
(* full pool, and its limit.  WorkerThreads: every thread can be found to be    *)
(* stopped, and lists are pruned.  MessagePorts: the order of events, and what   *)
(* a transfer may lose.                                                      *)
(***************************************************************************)
EXTENDS MongoPool, SqlPool, WorkerThreads, MessagePorts, TLAPS, FiniteSetTheorems, SequenceTheorems

(* Nothing is in a sequence twice. *)
Once(q) == \A i, j \in DOMAIN q : q[i] = q[j] => i = j

(* A sequence without its p-th element. *)
LEMMA CutOut ==
    ASSUME NEW S, NEW s \in Seq(S), NEW p \in 1 .. Len(s)
    PROVE LET w == SubSeq(s, 1, p - 1) \o SubSeq(s, p + 1, Len(s)) IN
      /\ w \in Seq(S) /\ Len(w) = Len(s) - 1
      /\ \A i \in 1 .. Len(s) - 1 : w[i] = s[IF i < p THEN i ELSE i + 1]
<1> DEFINE a == SubSeq(s, 1, p - 1)
           b == SubSeq(s, p + 1, Len(s))
<1>0. p \in Nat /\ Len(s) \in Nat /\ p - 1 \in Nat
  OBVIOUS
<1>1. a \in Seq(S) /\ Len(a) = p - 1 /\ \A i \in 1 .. p - 1 : a[i] = s[i]
  BY <1>0
<1>2. b \in Seq(S) /\ Len(b) = Len(s) - p /\ \A i \in 1 .. Len(s) - p : b[i] = s[i + p]
  BY <1>0
<1> HIDE DEF a, b
<1>3. /\ a \o b \in Seq(S) /\ Len(a \o b) = Len(s) - 1
  <2>1. a \o b \in Seq(S) /\ Len(a \o b) = Len(a) + Len(b)
    BY <1>1, <1>2, ConcatProperties, Zenon
  <2>2. Len(a) + Len(b) = Len(s) - 1
    BY <1>0, <1>1, <1>2
  <2> QED
    BY <2>1, <2>2
<1>4. \A i \in 1 .. Len(s) - 1 : (a \o b)[i] = s[IF i < p THEN i ELSE i + 1]
  <2> SUFFICES ASSUME NEW i \in 1 .. Len(s) - 1 
               PROVE (a \o b)[i] = s[IF i < p THEN i ELSE i + 1]
    OBVIOUS
  <2>1. CASE i < p
    BY <1>0, <1>1, <1>2, <1>3, <2>1
  <2>2. CASE ~(i < p)
    <3>1. (a \o b)[i] = b[i - Len(a)] 
      BY <1>0, <1>1, <1>2, <1>3, <2>2
    <3>2. i - Len(a) \in 1 .. Len(s) - p /\ i - Len(a) + p = i + 1
      BY <1>0, <1>1, <2>2
    <3> QED
      BY <1>2, <3>1, <3>2, <2>2
  <2> QED
    BY <2>1, <2>2
<1> QED
  BY <1>3, <1>4 DEF a, b

(* The first n of a sequence. *)
LEMMA Prefix ==
    ASSUME NEW S, NEW s \in Seq(S), NEW n \in 0 .. Len(s)
    PROVE  /\ SubSeq(s, 1, n) \in Seq(S) /\ Len(SubSeq(s, 1, n)) = n
           /\ \A i \in 1 .. n : SubSeq(s, 1, n)[i] = s[i]
<1>1. n \in Nat
  OBVIOUS
<1> QED
  BY <1>1, SMT

(* What a sequence has after the first k. *)
LEMMA Suffix ==
    ASSUME NEW S, NEW s \in Seq(S), NEW k \in 0 .. Len(s)
    PROVE  LET w == SubSeq(s, k + 1, Len(s)) IN
             /\ w \in Seq(S) /\ Len(w) = Len(s) - k
             /\ \A i \in 1 .. Len(s) - k : w[i] = s[i + k]
<1>1. k \in Nat /\ Len(s) \in Nat /\ k <= Len(s)
  OBVIOUS
<1> QED
  BY <1>1

(* One more at the end of a sequence. *)
LEMMA Appended ==
    ASSUME NEW S, NEW s \in Seq(S), NEW x \in S
    PROVE  /\ Append(s, x) \in Seq(S) /\ Elements(Append(s, x)) = Elements(s) \cup {x}
           /\ Len(Append(s, x)) = Len(s) + 1 /\ Append(s, x) # <<>>
           /\ Once(s) /\ x \notin Elements(s) => Once(Append(s, x))
<1>1. /\ Append(s, x) \in Seq(S) /\ Len(Append(s, x)) = Len(s) + 1 /\ Len(s) \in Nat
      /\ \A i \in 1 .. Len(s) : Append(s, x)[i] = s[i]
      /\ Append(s, x)[Len(s) + 1] = x
  OBVIOUS
<1> DEFINE a == Append(s, x)
<1> HIDE DEF a
<1>2. DOMAIN a = 1 .. Len(s) + 1 /\ DOMAIN s = 1 .. Len(s)
  BY <1>1 DEF a
<1>3. /\ \A i \in DOMAIN s : i \in DOMAIN a /\ a[i] = s[i] /\ i # Len(s) + 1
      /\ Len(s) + 1 \in DOMAIN a /\ a[Len(s) + 1] = x
      /\ \A i \in DOMAIN a : i \in DOMAIN s \/ i = Len(s) + 1
  BY <1>1, <1>2 DEF a
<1>4. Elements(a) = Elements(s) \cup {x}
  BY <1>3 DEF Elements
<1>5. Once(s) /\ x \notin Elements(s) => Once(a)
  BY <1>3 DEF Elements, Once
<1>6. a # <<>>
  BY <1>1 DEF a
<1> QED
  BY <1>1, <1>4, <1>5, <1>6 DEF a

(* A sequence without its first. *)
LEMMA Tails ==
    ASSUME NEW S, NEW s \in Seq(S), s # <<>>, Once(s)
    PROVE  /\ Head(s) \in Elements(s) /\ Head(s) \in S
           /\ Tail(s) \in Seq(S) /\ Once(Tail(s))
           /\ Elements(Tail(s)) = Elements(s) \ {Head(s)}
<1> DEFINE t == Tail(s)
<1>1. /\ t \in Seq(S) /\ Len(t) = Len(s) - 1 /\ Len(s) \in Nat \ {0} /\ Head(s) = s[1]
      /\ \A i \in 1 .. Len(s) - 1 : t[i] = s[i + 1]
  OBVIOUS
<1>2. DOMAIN t = 1 .. Len(s) - 1 /\ DOMAIN s = 1 .. Len(s)
  BY <1>1
<1>3. Tail(s) = t
  OBVIOUS
<1> HIDE DEF t
<1>4. /\ \A i \in DOMAIN t : i \in Nat /\ i + 1 \in DOMAIN s /\ t[i] = s[i + 1] /\ i + 1 # 1
      /\ \A i \in DOMAIN s : i # 1 => i - 1 \in DOMAIN t /\ t[i - 1] = s[i]
      /\ 1 \in DOMAIN s /\ s[1] \in S
  BY <1>1, <1>2
<1>5. Once(t)
  BY <1>4 DEF Once
<1>6. Elements(t) = Elements(s) \ {s[1]}
  BY <1>4 DEF Once, Elements
<1>7. Head(s) \in Elements(s)
  BY <1>1, <1>4 DEF Elements
<1>8. Elements(Tail(s)) = Elements(s) \ {Head(s)} /\ Once(Tail(s)) /\ Tail(s) \in Seq(S)
  BY <1>1, <1>3, <1>5, <1>6
<1>9. Head(s) \in S
  BY <1>1, <1>4
<1> QED
  BY <1>7, <1>8, <1>9
-----------------------------------------------------------------------------
(* MongoPool. *)

(* The queue holds commands that wait, each of them once. *)
Queued ==
    \A i \in DOMAIN waiters :
        /\ at[waiters[i]] = "waiting"
        /\ \A j \in DOMAIN waiters : waiters[i] = waiters[j] => i = j

PoolInv == TypeOK /\ Queued /\ CountExact

(* Commands that leave the queue are the only ones that move besides t. *)
Wakes(places) ==
    \A u \in Tickets :
        at'[u] = places[u] \/ (places[u] = "waiting" /\ at'[u] = "woken")
-----------------------------------------------------------------------------
(* The holders of a place are finitely many. *)
LEMMA HoldersFinite == IsFiniteSet(Holders) /\ Cardinality(Holders) \in Nat
  BY MongoAssumption, FS_Subset, FS_CardinalityType DEF MongoAssumption, Holders, In

(* One command more has a place, one less, or as many as before. *)
LEMMA HoldersGain ==
    ASSUME NEW t \in Tickets, at[t] \notin {"opening", "using"},
           at'[t] \in {"opening", "using"},
           \A u \in Tickets \ {t} : (at'[u] \in {"opening", "using"}
                                       <=> at[u] \in {"opening", "using"})
    PROVE  Cardinality(Holders') = Cardinality(Holders) + 1
<1>1. Holders' = Holders \cup {t} /\ t \notin Holders
  BY DEF Holders, In
<1> QED
  BY <1>1, HoldersFinite, FS_AddElement

(* There is one holder less when a command gives its place up, *)
LEMMA HoldersLose ==
    ASSUME NEW t \in Tickets, at[t] \in {"opening", "using"},
           at'[t] \notin {"opening", "using"},
           \A u \in Tickets \ {t} : (at'[u] \in {"opening", "using"}
                                       <=> at[u] \in {"opening", "using"})
    PROVE  /\ Cardinality(Holders') = Cardinality(Holders) - 1
           /\ Cardinality(Holders) >= 1
<1>1. Holders' = Holders \ {t} /\ t \in Holders
  BY DEF Holders, In
<1>2. Cardinality(Holders') = Cardinality(Holders) - 1
  BY <1>1, HoldersFinite, FS_RemoveElement
<1>3. Cardinality(Holders) # 0
  BY <1>1, HoldersFinite, FS_EmptySet
<1> QED
  BY <1>2, <1>3, HoldersFinite

(* and as many as before when none does. *)
LEMMA HoldersSame ==
    ASSUME \A u \in Tickets : (at'[u] \in {"opening", "using"}
                                 <=> at[u] \in {"opening", "using"})
    PROVE  Cardinality(Holders') = Cardinality(Holders)
<1>1. Holders' = Holders
  BY DEF Holders, In
<1> QED
  BY <1>1
-----------------------------------------------------------------------------
(* wake_one and wake_all keep the queue, and wake who waits in it. *)
LEMMA WakeOneKeeps ==
    ASSUME TypeOK, Queued, NEW places \in [Tickets -> Places],
           \A u \in Tickets : at[u] = "waiting" => places[u] = "waiting",
           WakeOne(places)
    PROVE  /\ waiters' \in Seq(Tickets) /\ at' \in [Tickets -> Places]
           /\ Queued' /\ Wakes(places)
<1>1. CASE waiters = <<>>
  BY <1>1 DEF WakeOne, TypeOK, Queued, Wakes
<1>2. CASE waiters # <<>>
  <2>1. /\ waiters \in Seq(Tickets) /\ Head(waiters) = waiters[1] /\ 1 \in DOMAIN waiters
        /\ waiters[1] \in Tickets
    BY <1>2 DEF TypeOK
  <2>2. /\ at' = [places EXCEPT ![waiters[1]] = "woken"]
        /\ waiters' = Tail(waiters)
    BY <1>2, <2>1 DEF WakeOne
  <2>3. /\ waiters' \in Seq(Tickets)
        /\ \A i \in DOMAIN waiters' : /\ i + 1 \in DOMAIN waiters /\ i \in Nat \ {0}
                                      /\ waiters'[i] = waiters[i + 1]
    BY <1>2, <2>1, <2>2
  <2>4. at' \in [Tickets -> Places]
    BY <2>1, <2>2 DEF Places
  <2>5. Wakes(places)
    BY <2>1, <2>2 DEF Wakes, Queued
  <2>6. Queued'
    <3> SUFFICES ASSUME NEW i \in DOMAIN waiters'
                 PROVE  /\ at'[waiters'[i]] = "waiting"
                        /\ \A j \in DOMAIN waiters' : waiters'[i] = waiters'[j] => i = j
      BY DEF Queued
    <3>1. waiters'[i] = waiters[i + 1] /\ i + 1 \in DOMAIN waiters /\ i \in Nat \ {0}
      BY <2>3
    <3>2. waiters[i + 1] # waiters[1] /\ waiters[i + 1] \in Tickets
      BY <2>1, <3>1 DEF Queued
    <3>3. at'[waiters'[i]] = "waiting"
      BY <2>1, <2>2, <3>1, <3>2 DEF Queued
    <3>4. ASSUME NEW j \in DOMAIN waiters', waiters'[i] = waiters'[j] PROVE i = j
      BY <2>3, <3>1, <3>4 DEF Queued
    <3> QED
      BY <3>3, <3>4
  <2> QED
    BY <2>3, <2>4, <2>5, <2>6
<1> QED
  BY <1>1, <1>2

(* To wake every waiter leaves a well-formed queue. *)
LEMMA WakeAllKeeps ==
    ASSUME NEW places \in [Tickets -> Places], WakeAll(places)
    PROVE  /\ waiters' \in Seq(Tickets) /\ at' \in [Tickets -> Places]
           /\ Queued' /\ Wakes(places)
  BY DEF WakeAll, Wakes, Places, Queued

(* A cancel takes its command out of the queue and keeps the others' order. *)
LEMMA WithoutKeeps ==
    ASSUME TypeOK, Queued, NEW t \in Tickets
    PROVE  /\ Without(t) \in Seq(Tickets)
           /\ \A i \in DOMAIN Without(t) :
                 \E k \in DOMAIN waiters : Without(t)[i] = waiters[k] /\ waiters[k] # t
           /\ \A i, j \in DOMAIN Without(t) : Without(t)[i] = Without(t)[j] => i = j
<1>1. waiters \in Seq(Tickets)
  BY DEF TypeOK
<1>2. CASE \E i \in DOMAIN waiters : waiters[i] = t
  <2> DEFINE p == CHOOSE i \in DOMAIN waiters : waiters[i] = t
  <2>1. p \in DOMAIN waiters /\ waiters[p] = t
    BY <1>2
  <2>2. Without(t) = SubSeq(waiters, 1, p - 1) \o SubSeq(waiters, p + 1, Len(waiters))
    BY <1>2 DEF Without
  <2> HIDE DEF p
  <2>3. p \in 1 .. Len(waiters)
    BY <1>1, <2>1
  <2>4. /\ Without(t) \in Seq(Tickets)
        /\ Len(Without(t)) = Len(waiters) - 1
        /\ \A i \in 1 .. Len(waiters) - 1 :
              Without(t)[i] = waiters[IF i < p THEN i ELSE i + 1]
    BY <1>1, <2>2, <2>3, CutOut
  <2>5. \A k \in DOMAIN waiters : k # p => waiters[k] # t
    BY <2>1 DEF Queued
  <2> DEFINE from(i) == IF i < p THEN i ELSE i + 1
  <2>6. \A i \in DOMAIN Without(t) :
           /\ i \in Nat /\ from(i) \in DOMAIN waiters /\ from(i) # p
           /\ Without(t)[i] = waiters[from(i)]
    BY <1>1, <2>3, <2>4
  <2>7. \A i, j \in DOMAIN Without(t) : from(i) = from(j) => i = j
    BY <2>3, <2>6
  <2> HIDE DEF from
  <2> QED
    BY <2>4, <2>5, <2>6, <2>7 DEF Queued
<1>3. CASE ~\E i \in DOMAIN waiters : waiters[i] = t
  BY <1>1, <1>3 DEF Without, Queued
<1> QED
  BY <1>2, <1>3

(* A clear empties the idle list and counts its connections out. *)
LEMMA ClearKeeps ==
    ASSUME TypeOK, NEW places \in [Tickets -> Places], NEW ids \in Seq(Nat), NEW n \in Nat,
           Clear(places, ids, n)
    PROVE  /\ waiters' \in Seq(Tickets) /\ at' \in [Tickets -> Places]
           /\ Queued' /\ Wakes(places)
           /\ idle' = <<>> /\ generation' = generation + 1 /\ total' = n - Len(ids)
  BY WakeAllKeeps DEF Clear

(* What is given back leaves the count and the idle list as far apart as it says. *)
LEMMA GiveBackKeeps ==
    ASSUME TypeOK, Queued, NEW places \in [Tickets -> Places], NEW ids \in Seq(Nat),
           NEW n \in Nat, NEW clears \in BOOLEAN, n >= Len(ids),
           \A u \in Tickets : at[u] = "waiting" => places[u] = "waiting",
           GiveBack(places, ids, n, clears)
    PROVE  /\ waiters' \in Seq(Tickets) /\ at' \in [Tickets -> Places]
           /\ Queued' /\ Wakes(places)
           /\ missed' \in Nat /\ generation' \in Nat
           /\ idle' \in Seq(Nat) /\ total' \in Nat /\ total' <= n
           /\ total' - Len(idle') = n - Len(ids)
<1>1. missed' \in Nat
  BY DEF GiveBack, TypeOK
<1>2. CASE clears /\ ~closed
  <2>1. Clear(places, ids, n)
    BY <1>2 DEF GiveBack
  <2>2. /\ waiters' \in Seq(Tickets) /\ at' \in [Tickets -> Places]
        /\ Queued' /\ Wakes(places)
        /\ idle' = <<>> /\ generation' = generation + 1 /\ total' = n - Len(ids)
    BY <2>1, ClearKeeps
  <2>3. Len(ids) \in Nat /\ generation \in Nat
    BY DEF TypeOK
  <2> QED
    BY <1>1, <2>2, <2>3
<1>3. CASE ~(clears /\ ~closed)
  <2>1. total' = n /\ idle' = ids /\ WakeOne(places) /\ generation' = generation
    BY <1>3 DEF GiveBack
  <2> QED
    BY <1>1, <2>1, WakeOneKeeps DEF TypeOK
<1> QED
  BY <1>2, <1>3

(* A sequence without its last element. *)
LEMMA FrontOf ==
    ASSUME NEW s \in Seq(Nat), NEW n \in Nat, Len(s) = n + 1
    PROVE  SubSeq(s, 1, n) \in Seq(Nat) /\ Len(SubSeq(s, 1, n)) = n
  BY SMT

(* A command leaves with nothing, or takes a connection, a place or the queue's end. *)
LEMMA CheckoutKeeps ==
    ASSUME PoolInv, NEW t \in Tickets, at[t] \in {"new", "woken", "leaving"}, Checkout(t)
    PROVE  /\ waiters' \in Seq(Tickets) /\ at' \in [Tickets -> Places]
           /\ idle' \in Seq(Nat) /\ total' \in Nat /\ cancelled' \subseteq Tickets
           /\ opened' \in [Tickets -> Nat]
           /\ Queued' /\ CountExact'
<1> USE DEF PoolInv, TypeOK, Moved
<1>1. \A i \in DOMAIN waiters : waiters[i] # t
  BY DEF Queued
<1>2. CASE closed \/ t \in cancelled
  <2>1. /\ at' = [at EXCEPT ![t] = "done"] /\ cancelled' \subseteq Tickets
        /\ UNCHANGED <<idle, total, waiters, opened>>
    BY <1>2 DEF Checkout
  <2>2. CountExact'
    BY <2>1, HoldersSame DEF CountExact
  <2> QED
    BY <1>1, <2>1, <2>2 DEF Places, Queued
<1>3. CASE ~(closed \/ t \in cancelled)
  <2>0. TakesPlace(t) /\ cancelled' = cancelled
    BY <1>3 DEF Checkout
  <2>1. CASE idle # <<>>
    <3>1. Take(t)
      BY <2>0, <2>1 DEF TakesPlace
    <3>a. Len(idle) \in Nat \ {0} /\ idle[Len(idle)] \in Nat /\ idle \in Seq(Nat)
      BY <2>1
    <3>b. Len(idle) - 1 \in Nat /\ Len(idle) = (Len(idle) - 1) + 1
      BY <3>a
    <3>2. idle' \in Seq(Nat) /\ Len(idle') = Len(idle) - 1
      BY <3>1, <3>a, <3>b, FrontOf DEF Take
    <3>3. Cardinality(Holders') = Cardinality(Holders) + 1
      BY <3>1, HoldersGain DEF Take
    <3>4. CountExact'
      BY <3>1, <3>a, <3>2, <3>3, HoldersFinite DEF Take, CountExact
    <3>5. Queued' /\ at' \in [Tickets -> Places] /\ opened' \in [Tickets -> Nat]
      BY <1>1, <3>1, <3>a DEF Take, Places, Queued
    <3> QED
      BY <2>0, <3>1, <3>2, <3>4, <3>5 DEF Take
  <2>2. CASE idle = <<>> /\ total < Max
    <3>1. Open(t)
      BY <2>0, <2>2 DEF TakesPlace
    <3>3. Cardinality(Holders') = Cardinality(Holders) + 1
      BY <3>1, HoldersGain DEF Open
    <3>4. CountExact'
      BY <2>2, <3>1, <3>3, HoldersFinite, MongoAssumption DEF Open, CountExact, MongoAssumption
    <3> QED
      BY <1>1, <2>0, <3>1, <3>4 DEF Open, Places, Queued
  <2>3. CASE idle = <<>> /\ ~(total < Max)
    <3>1. Queue(t)
      BY <2>0, <2>3 DEF TakesPlace
    <3>2. CountExact'
      BY <3>1, HoldersSame DEF Queue, CountExact
    <3>3. Queued'
      <4> SUFFICES ASSUME NEW i \in DOMAIN waiters'
                   PROVE  /\ at'[waiters'[i]] = "waiting"
                          /\ \A j \in DOMAIN waiters' : waiters'[i] = waiters'[j] => i = j
        BY DEF Queued
      <4>1. \A j \in DOMAIN waiters' :
               \/ j \in DOMAIN waiters /\ waiters'[j] = waiters[j] /\ waiters[j] \in Tickets
               \/ j = Len(waiters) + 1 /\ waiters'[j] = t
        BY <3>1 DEF Queue
      <4>2. at' = [at EXCEPT ![t] = "waiting"]
        BY <3>1 DEF Queue
      <4> QED
        BY <1>1, <4>1, <4>2 DEF Queued
    <3> QED
      BY <2>0, <3>1, <3>2, <3>3 DEF Queue, Places
  <2> QED
    BY <2>1, <2>2, <2>3
<1> QED
  BY <1>2, <1>3
-----------------------------------------------------------------------------
(* Judging an outcome keeps the description well formed. *)
LEMMA JudgeKeeps ==
    ASSUME NEW outcome, NEW g, gens \in Nat, Judge(outcome, g)
    PROVE  known' \in BOOLEAN /\ gens' \in Nat
<1>1. known' \in BOOLEAN
  BY DEF Judge
<1>2. gens' \in Nat
  BY DEF Judge
<1> QED
  BY <1>1, <1>2

(* What is kept of a command is cleared within its type. *)
LEMMA ForgetKeeps ==
    ASSUME TypeOK, NEW t \in Tickets, Forget(t)
    PROVE  opened' \in [Tickets -> Nat] /\ cut' \subseteq Tickets /\ error' \in [Tickets -> Outcomes]
  BY DEF Forget, TypeOK, Outcomes

(* A command that had a place gives it back: the count stays exact. *)
LEMMA PlaceBack ==
    ASSUME PoolInv, NEW t \in Tickets, at[t] \in {"opening", "using"},
           NEW p \in {"closing", "done"}, NEW ids \in Seq(Nat), NEW n \in Nat,
           NEW clears \in BOOLEAN,
           n - Len(ids) = total - Len(idle) - 1, n <= total,
           GiveBack(Moved(t, p), ids, n, clears)
    PROVE  /\ waiters' \in Seq(Tickets) /\ at' \in [Tickets -> Places]
           /\ missed' \in Nat /\ generation' \in Nat
           /\ idle' \in Seq(Nat) /\ total' \in Nat
           /\ Queued' /\ CountExact' /\ Wakes(Moved(t, p))
<1>1. /\ Moved(t, p) \in [Tickets -> Places]
      /\ \A u \in Tickets : at[u] = "waiting" => Moved(t, p)[u] = "waiting"
      /\ \A u \in Tickets \ {t} : Moved(t, p)[u] = at[u]
      /\ Moved(t, p)[t] = p
  BY DEF PoolInv, TypeOK, Moved, Places
<1>2. /\ Cardinality(Holders) \in Nat /\ total = Len(idle) + Cardinality(Holders)
      /\ total <= Max /\ Max \in Nat /\ Len(idle) \in Nat /\ Len(ids) \in Nat
  BY HoldersFinite, MongoAssumption DEF PoolInv, CountExact, TypeOK, MongoAssumption
<1>3. t \in Holders
  BY DEF Holders, In
<1>4. Cardinality(Holders) # 0
  BY <1>3, HoldersFinite, FS_EmptySet
<1>5. n >= Len(ids)
  BY <1>2, <1>4
<1>6. /\ waiters' \in Seq(Tickets) /\ at' \in [Tickets -> Places]
      /\ Queued' /\ Wakes(Moved(t, p))
      /\ missed' \in Nat /\ generation' \in Nat
      /\ idle' \in Seq(Nat) /\ total' \in Nat /\ total' <= n
      /\ total' - Len(idle') = n - Len(ids)
  BY <1>1, <1>5, GiveBackKeeps DEF PoolInv
<1>7. Cardinality(Holders') = Cardinality(Holders) - 1
  <2>1. at'[t] = p
    BY <1>1, <1>6 DEF Wakes
  <2>2. ASSUME NEW u \in Tickets \ {t}
        PROVE  at'[u] \in {"opening", "using"} <=> at[u] \in {"opening", "using"}
    BY <1>1, <1>6 DEF Wakes
  <2> QED
    BY <2>1, <2>2, HoldersLose
<1>8. CountExact'
  <2>1. Len(idle') \in Nat /\ total' \in Nat /\ total' <= n
        /\ total' - Len(idle') = n - Len(ids)
    BY <1>6
  <2>2. total' = Len(idle') + Cardinality(Holders')
    BY <1>2, <1>7, <2>1
  <2>3. total' <= Max
    BY <1>2, <2>1
  <2> QED
    BY <2>2, <2>3 DEF CountExact
<1> QED
  BY <1>6, <1>8

(* A clear, by whoever has no place, keeps the count exact. *)
LEMMA ClearCounts ==
    ASSUME PoolInv, NEW places \in [Tickets -> Places],
           \A u \in Tickets : (places[u] \in {"opening", "using"}
                                  <=> at[u] \in {"opening", "using"}),
           Clear(places, idle, total)
    PROVE  /\ waiters' \in Seq(Tickets) /\ at' \in [Tickets -> Places]
           /\ generation' \in Nat /\ idle' \in Seq(Nat) /\ total' \in Nat
           /\ Queued' /\ CountExact' /\ Wakes(places)
<1>1. /\ Cardinality(Holders) \in Nat /\ total = Len(idle) + Cardinality(Holders)
      /\ total <= Max /\ Max \in Nat /\ Len(idle) \in Nat /\ generation \in Nat
  BY HoldersFinite, MongoAssumption DEF PoolInv, CountExact, TypeOK, MongoAssumption
<1>2. /\ waiters' \in Seq(Tickets) /\ at' \in [Tickets -> Places]
      /\ Queued' /\ Wakes(places)
      /\ idle' = <<>> /\ generation' = generation + 1 /\ total' = total - Len(idle)
  BY ClearKeeps DEF PoolInv, TypeOK
<1>3. Cardinality(Holders') = Cardinality(Holders)
  BY <1>2, HoldersSame DEF Wakes
<1>4. Len(idle') = 0
  BY <1>2
<1>5. CountExact'
  <2>1. total' = Len(idle') + Cardinality(Holders') /\ total' <= Max
    BY <1>1, <1>2, <1>3, <1>4
  <2> QED
    BY <2>1 DEF CountExact
<1> QED
  BY <1>1, <1>2, <1>5
-----------------------------------------------------------------------------
(* Every step keeps the types, the queue and the count. *)
LEMMA PoolStep == PoolInv /\ [Next]_vars => PoolInv'
<1> SUFFICES ASSUME PoolInv, [Next]_vars PROVE PoolInv'
  OBVIOUS
<1> USE DEF topologyVars, poolVars, commandVars
<1>t. TypeOK /\ Queued /\ CountExact
  BY DEF PoolInv
<1>m. Max \in Nat
  BY MongoAssumption DEF MongoAssumption
<1>1. ASSUME NEW t \in Tickets, Run(t) PROVE PoolInv'
  <2>1. CASE closed \/ t \in forgotten
    <3>1. /\ at' = [at EXCEPT ![t] = "done"] /\ at[t] = "new"
          /\ forgotten' \subseteq Tickets
          /\ UNCHANGED <<made, idle, total, waiters, cancelled, opened>>
      BY <1>1, <1>t, <2>1 DEF Run, Moved, TypeOK
    <3>2. TypeOK'
      BY <1>1, <1>t, <3>1 DEF Run, TypeOK, Places
    <3>3. Queued'
      BY <1>t, <3>1 DEF Queued, TypeOK
    <3>4. CountExact'
      BY <1>t, <3>1, HoldersSame DEF CountExact, TypeOK
    <3> QED
      BY <3>2, <3>3, <3>4 DEF PoolInv
  <2>2. CASE ~(closed \/ t \in forgotten)
    <3>1. Checkout(t) /\ made' = TRUE /\ forgotten' = forgotten /\ at[t] = "new"
      BY <1>1, <2>2 DEF Run
    <3>2. /\ waiters' \in Seq(Tickets) /\ at' \in [Tickets -> Places]
          /\ idle' \in Seq(Nat) /\ total' \in Nat /\ cancelled' \subseteq Tickets
          /\ opened' \in [Tickets -> Nat]
          /\ Queued' /\ CountExact'
      BY <3>1, CheckoutKeeps
    <3>3. TypeOK'
      BY <1>1, <1>t, <3>1, <3>2 DEF Run, TypeOK
    <3> QED
      BY <3>2, <3>3 DEF PoolInv
  <2> QED
    BY <2>1, <2>2
<1>2. ASSUME NEW t \in Tickets, Unselected(t) PROVE PoolInv'
  <2>1. at' = [at EXCEPT ![t] = "done"] /\ at[t] = "new"
    BY <1>2 DEF Unselected, Moved
  <2>2. TypeOK'
    BY <1>2, <1>t, <2>1 DEF Unselected, TypeOK, Places
  <2>3. Queued'
    BY <1>2, <1>t, <2>1 DEF Queued, TypeOK, Unselected
  <2>4. CountExact'
    BY <1>2, <1>t, <2>1, HoldersSame DEF CountExact, TypeOK, Unselected
  <2> QED
    BY <2>2, <2>3, <2>4 DEF PoolInv
<1>3. ASSUME NEW t \in Tickets, Woken(t) PROVE PoolInv'
  <2>1. /\ waiters' \in Seq(Tickets) /\ at' \in [Tickets -> Places]
        /\ idle' \in Seq(Nat) /\ total' \in Nat /\ cancelled' \subseteq Tickets
        /\ opened' \in [Tickets -> Nat]
        /\ Queued' /\ CountExact'
    BY <1>3, CheckoutKeeps DEF Woken
  <2>2. wasted' \in BOOLEAN
    BY <1>3 DEF Woken
  <2>3. TypeOK'
    BY <1>3, <1>t, <2>1, <2>2 DEF Woken, TypeOK
  <2> QED
    BY <2>1, <2>3 DEF PoolInv
<1>4. ASSUME NEW t \in Tickets, Opened(t) PROVE PoolInv'
  <2>1. CASE t \in cut
    <3>1. /\ at[t] = "opening"
          /\ GiveBack(Moved(t, "closing"), idle, total - 1, FALSE)
          /\ error' = [error EXCEPT ![t] = "fine"]
      BY <1>4, <2>1 DEF Opened
    <3>2. total - 1 \in Nat /\ idle \in Seq(Nat)
      <4>1. t \in Holders
        BY <3>1 DEF Holders, In
      <4>2. Cardinality(Holders) # 0
        BY <4>1, HoldersFinite, FS_EmptySet
      <4> QED
        BY <1>t, <4>2, HoldersFinite DEF CountExact, TypeOK
    <3>3. total \in Nat /\ (total - 1) - Len(idle) = total - Len(idle) - 1 /\ total - 1 <= total
      BY <1>t, <3>2 DEF TypeOK
    <3>4. /\ waiters' \in Seq(Tickets) /\ at' \in [Tickets -> Places]
          /\ missed' \in Nat /\ generation' \in Nat
          /\ idle' \in Seq(Nat) /\ total' \in Nat
          /\ Queued' /\ CountExact'
      BY <3>1, <3>2, <3>3, PlaceBack
    <3>5. TypeOK'
      BY <1>4, <1>t, <3>1, <3>4 DEF Opened, TypeOK, Outcomes
    <3> QED
      BY <3>4, <3>5 DEF PoolInv
  <2>2. CASE t \notin cut
    <3>1. /\ at[t] = "opening" /\ at' = [at EXCEPT ![t] = "using"]
          /\ UNCHANGED <<error, total, idle, waiters, generation, missed>>
      BY <1>4, <2>2 DEF Opened, Moved
    <3>2. TypeOK'
      BY <1>4, <1>t, <3>1 DEF Opened, TypeOK, Places
    <3>3. Queued'
      BY <1>t, <3>1 DEF Queued, TypeOK
    <3>4. CountExact'
      BY <1>t, <3>1, HoldersSame DEF CountExact, TypeOK
    <3> QED
      BY <3>2, <3>3, <3>4 DEF PoolInv
  <2> QED
    BY <2>1, <2>2
<1>p. ASSUME NEW t \in Holders
      PROVE  t \in Tickets /\ total - 1 \in Nat /\ idle \in Seq(Nat) /\ total \in Nat
             /\ (total - 1) - Len(idle) = total - Len(idle) - 1 /\ total - 1 <= total
  <2>1. Cardinality(Holders) # 0 /\ t \in Tickets
    BY <1>p, HoldersFinite, FS_EmptySet DEF Holders, In
  <2>2. /\ Cardinality(Holders) \in Nat /\ total = Len(idle) + Cardinality(Holders)
        /\ idle \in Seq(Nat) /\ total \in Nat /\ Len(idle) \in Nat
    BY <1>t, HoldersFinite DEF CountExact, TypeOK
  <2> QED
    BY <2>1, <2>2
<1>5. ASSUME NEW t \in Tickets, OpenFails(t) PROVE PoolInv'
  <2>1. at[t] = "opening" /\ t \in Holders
    BY <1>5 DEF OpenFails, Holders, In
  <2> DEFINE outcome == IF t \in cut THEN "fine" ELSE "lost"
             clears == Clears(outcome, opened[t])
  <2>2. /\ Judge(outcome, opened[t])
        /\ GiveBack(Moved(t, "done"), idle, total - 1, clears)
        /\ clears \in BOOLEAN
    BY <1>5 DEF OpenFails, Clears
  <2> HIDE DEF clears, outcome
  <2>3. /\ waiters' \in Seq(Tickets) /\ at' \in [Tickets -> Places]
        /\ missed' \in Nat /\ generation' \in Nat
        /\ idle' \in Seq(Nat) /\ total' \in Nat
        /\ Queued' /\ CountExact'
    BY <1>p, <2>1, <2>2, PlaceBack
  <2>4. known' \in BOOLEAN /\ gens' \in Nat
    BY <1>t, <2>2, JudgeKeeps DEF TypeOK
  <2>5. opened' \in [Tickets -> Nat] /\ cut' \subseteq Tickets /\ error' \in [Tickets -> Outcomes]
    BY <1>5, <1>t, ForgetKeeps DEF OpenFails
  <2>6. TypeOK'
    BY <1>5, <1>t, <2>3, <2>4, <2>5 DEF OpenFails, TypeOK
  <2> QED
    BY <2>3, <2>6 DEF PoolInv
<1>6. ASSUME NEW t \in Tickets, NEW outcome \in Outcomes, Reply(t, outcome) PROVE PoolInv'
  <2>1. at[t] = "using" /\ t \in Holders
    BY <1>6 DEF Reply, Holders, In
  <2>2. CASE Keeps(t, outcome)
    <3>1. PICK clears \in BOOLEAN :
             /\ Judge(outcome, generation) /\ Forget(t)
             /\ GiveBack(Moved(t, "done"), Append(idle, opened[t]), total, clears)
      <4>1. Clears(outcome, generation) \in BOOLEAN
        BY DEF Clears
      <4> QED
        BY <1>6, <2>2, <4>1 DEF Reply
    <3>2. /\ Append(idle, opened[t]) \in Seq(Nat)
          /\ total - Len(Append(idle, opened[t])) = total - Len(idle) - 1
          /\ total <= total /\ total \in Nat
      BY <1>t DEF TypeOK
    <3>3. /\ waiters' \in Seq(Tickets) /\ at' \in [Tickets -> Places]
          /\ missed' \in Nat /\ generation' \in Nat
          /\ idle' \in Seq(Nat) /\ total' \in Nat
          /\ Queued' /\ CountExact'
      BY <2>1, <3>1, <3>2, PlaceBack
    <3>4. known' \in BOOLEAN /\ gens' \in Nat
      BY <1>t, <3>1, JudgeKeeps DEF TypeOK
    <3>5. opened' \in [Tickets -> Nat] /\ cut' \subseteq Tickets /\ error' \in [Tickets -> Outcomes]
      BY <1>t, <3>1, ForgetKeeps
    <3>6. TypeOK'
      BY <1>6, <1>t, <3>3, <3>4, <3>5 DEF Reply, TypeOK
    <3> QED
      BY <3>3, <3>6 DEF PoolInv
  <2>3. CASE ~Keeps(t, outcome)
    <3>1. /\ GiveBack(Moved(t, "closing"), idle, total - 1, FALSE)
          /\ error' = [error EXCEPT ![t] = IF t \in cut /\ outcome = "lost" THEN "fine"
                                           ELSE outcome]
          /\ UNCHANGED <<known, gens, opened, cut>>
      BY <1>6, <2>3 DEF Reply
    <3>2. /\ waiters' \in Seq(Tickets) /\ at' \in [Tickets -> Places]
          /\ missed' \in Nat /\ generation' \in Nat
          /\ idle' \in Seq(Nat) /\ total' \in Nat
          /\ Queued' /\ CountExact'
      BY <1>p, <2>1, <3>1, PlaceBack
    <3>3. error' \in [Tickets -> Outcomes]
      BY <1>6, <1>t, <3>1 DEF TypeOK, Outcomes
    <3>4. TypeOK'
      BY <1>6, <1>t, <3>1, <3>2, <3>3 DEF Reply, TypeOK
    <3> QED
      BY <3>2, <3>4 DEF PoolInv
  <2> QED
    BY <2>2, <2>3
<1>7. ASSUME NEW t \in Tickets, Settle(t) PROVE PoolInv'
  <2>1. /\ at[t] = "closing" /\ Moved(t, "done") \in [Tickets -> Places]
        /\ \A u \in Tickets : (Moved(t, "done")[u] \in {"opening", "using"}
                                 <=> at[u] \in {"opening", "using"})
    BY <1>7, <1>t DEF Settle, Moved, TypeOK, Places
  <2> DEFINE g == IF error[t] = "lost" THEN opened[t] ELSE generation
             clears == Clears(error[t], g)
  <2>2. /\ Judge(error[t], g) /\ clears \in BOOLEAN
        /\ missed' = IF clears /\ closed THEN missed + 1 ELSE missed
        /\ IF clears /\ ~closed THEN Clear(Moved(t, "done"), idle, total)
           ELSE at' = Moved(t, "done") /\ UNCHANGED <<generation, idle, total, waiters>>
    BY <1>7 DEF Settle, Clears
  <2> HIDE DEF clears, g
  <2>3. /\ waiters' \in Seq(Tickets) /\ at' \in [Tickets -> Places]
        /\ generation' \in Nat /\ idle' \in Seq(Nat) /\ total' \in Nat
        /\ Queued' /\ CountExact'
    <3>1. CASE clears /\ ~closed
      BY <2>1, <2>2, <3>1, ClearCounts
    <3>2. CASE ~(clears /\ ~closed)
      <4>1. at' = Moved(t, "done") /\ UNCHANGED <<generation, idle, total, waiters>>
        BY <2>2, <3>2
      <4>2. CountExact'
        BY <1>t, <2>1, <4>1, HoldersSame DEF CountExact
      <4>3. Queued'
        BY <1>t, <2>1, <4>1 DEF Queued, Moved, TypeOK
      <4> QED
        BY <1>t, <2>1, <4>1, <4>2, <4>3 DEF TypeOK
    <3> QED
      BY <3>1, <3>2
  <2>4. known' \in BOOLEAN /\ gens' \in Nat
    BY <1>t, <2>2, JudgeKeeps DEF TypeOK
  <2>5. opened' \in [Tickets -> Nat] /\ cut' \subseteq Tickets /\ error' \in [Tickets -> Outcomes]
    BY <1>7, <1>t, ForgetKeeps DEF Settle
  <2>6. missed' \in Nat
    BY <1>t, <2>2 DEF TypeOK
  <2>7. TypeOK'
    BY <1>7, <1>t, <2>3, <2>4, <2>5, <2>6 DEF Settle, TypeOK
  <2> QED
    BY <2>3, <2>7 DEF PoolInv
<1>8. ASSUME CheckAnswers PROVE PoolInv'
  BY <1>8 DEF CheckAnswers, PoolInv, TypeOK, Queued, CountExact, Holders, In
<1>9. ASSUME CheckFails PROVE PoolInv'
  <2>1. /\ waiters' \in Seq(Tickets) /\ at' \in [Tickets -> Places]
        /\ generation' \in Nat /\ idle' \in Seq(Nat) /\ total' \in Nat /\ missed' \in Nat
        /\ Queued' /\ CountExact'
    <3>1. CASE made /\ ~closed
      <4>1. Clear(at, idle, total) /\ missed' = missed
        BY <1>9, <3>1 DEF CheckFails
      <4> QED
        BY <1>t, <4>1, ClearCounts DEF TypeOK
    <3>2. CASE ~(made /\ ~closed)
      <4>1. missed' = missed + 1 /\ UNCHANGED <<generation, idle, total, waiters, at>>
        BY <1>9, <3>2 DEF CheckFails
      <4> QED
        BY <1>t, <4>1 DEF TypeOK, Queued, CountExact, Holders, In
    <3> QED
      BY <3>1, <3>2
  <2>2. /\ known' = FALSE /\ gens' = gens + 1
        /\ UNCHANGED <<made, forgotten, cancelled, closed, opened, cut, error, wasted>>
    BY <1>9 DEF CheckFails
  <2>3. TypeOK'
    <3>1. known' \in BOOLEAN
      BY <2>2
    <3>2. gens' \in Nat
      BY <1>t, <2>2 DEF TypeOK
    <3> QED
      BY <1>t, <2>1, <2>2, <3>1, <3>2 DEF TypeOK
  <2> QED
    BY <2>1, <2>3 DEF PoolInv
<1>10. ASSUME NEW t \in Tickets, Cancel(t) PROVE PoolInv'
  <2>1. CASE at[t] = "waiting"
    <3>1. /\ cancelled' = cancelled \cup {t} /\ at' = [at EXCEPT ![t] = "leaving"]
          /\ waiters' = Without(t) /\ UNCHANGED <<forgotten, cut>>
      BY <1>10, <2>1 DEF Cancel, Moved
    <3>2. /\ waiters' \in Seq(Tickets)
          /\ \A i \in DOMAIN waiters' :
                \E k \in DOMAIN waiters : waiters'[i] = waiters[k] /\ waiters[k] # t
          /\ \A i, j \in DOMAIN waiters' : waiters'[i] = waiters'[j] => i = j
      BY <1>t, <3>1, WithoutKeeps
    <3>3. TypeOK'
      BY <1>10, <1>t, <3>1, <3>2 DEF Cancel, TypeOK, Places
    <3>4. Queued'
      BY <1>t, <3>1, <3>2 DEF Queued, TypeOK
    <3>5. CountExact'
      BY <1>10, <1>t, <2>1, <3>1, HoldersSame DEF Cancel, CountExact, TypeOK
    <3> QED
      BY <3>3, <3>4, <3>5 DEF PoolInv
  <2>2. CASE at[t] # "waiting"
    <3>1. /\ forgotten' \subseteq Tickets /\ cancelled' \subseteq Tickets /\ cut' \subseteq Tickets
          /\ UNCHANGED <<waiters, at>>
      BY <1>10, <1>t, <2>2 DEF Cancel, TypeOK, Places
    <3>2. TypeOK'
      BY <1>10, <1>t, <3>1 DEF Cancel, TypeOK
    <3> QED
      BY <1>10, <1>t, <3>1, <3>2 DEF Cancel, PoolInv, Queued, CountExact, Holders, In
  <2> QED
    BY <2>1, <2>2
<1>11. ASSUME Close PROVE PoolInv'
  <2>1. /\ waiters' \in Seq(Tickets) /\ at' \in [Tickets -> Places] /\ Queued' /\ Wakes(at)
    BY <1>11, <1>t, WakeAllKeeps DEF Close, TypeOK
  <2>2. Cardinality(Holders') = Cardinality(Holders)
    BY <2>1, HoldersSame DEF Wakes
  <2>3. /\ Cardinality(Holders) \in Nat /\ total = Len(idle) + Cardinality(Holders)
        /\ total <= Max /\ Len(idle) \in Nat
    BY <1>t, HoldersFinite DEF CountExact, TypeOK
  <2>4. total' = total - Len(idle) /\ idle' = <<>> /\ idle' \in Seq(Nat) /\ Len(idle') = 0
    BY <1>11 DEF Close
  <2>5. total' = Len(idle') + Cardinality(Holders') /\ total' <= Max /\ total' \in Nat
    BY <1>m, <2>2, <2>3, <2>4
  <2>6. CountExact'
    BY <2>5 DEF CountExact
  <2>7. TypeOK'
    BY <1>11, <1>t, <2>1, <2>4, <2>5 DEF Close, TypeOK
  <2> QED
    BY <2>1, <2>6, <2>7 DEF PoolInv
<1>12. CASE UNCHANGED vars
  BY <1>12, <1>t DEF vars, PoolInv, TypeOK, Queued, CountExact, Holders, In
<1> QED
  BY <1>1, <1>2, <1>3, <1>4, <1>5, <1>6, <1>7, <1>8, <1>9, <1>10, <1>11, <1>12
  DEF Next, Progress, Stopped
-----------------------------------------------------------------------------
(* The pool begins with nothing in it. *)
LEMMA PoolInit == Init => PoolInv
<1> SUFFICES ASSUME Init PROVE PoolInv
  OBVIOUS
<1>1. TypeOK
  <2>1. known \in BOOLEAN /\ made \in BOOLEAN /\ closed \in BOOLEAN /\ wasted \in BOOLEAN
    BY DEF Init
  <2> QED
    BY <2>1 DEF Init, TypeOK, Places, Outcomes
<1>2. Queued
  BY DEF Init, Queued
<1>3. CountExact
  <2>1. Holders = {}
    BY DEF Init, Holders, In
  <2>2. Cardinality(Holders) = 0
    BY <2>1, FS_EmptySet
  <2> QED
    BY <2>2, MongoAssumption DEF Init, CountExact, MongoAssumption
<1> QED
  BY <1>1, <1>2, <1>3 DEF PoolInv

(* The invariant of the pool always holds. *)
LEMMA PoolAlways == Spec => []PoolInv
<1>1. PoolInv /\ [Next]_vars => PoolInv'
  BY PoolStep
<1> QED
  BY <1>1, PoolInit, PTL DEF Spec

(* The types of the pool, the topology and the commands hold throughout, with any *)
(* number of commands and any limit.                                           *)
THEOREM PoolTyped == Spec => []TypeOK
<1>1. PoolInv => TypeOK
  BY DEF PoolInv
<1> QED
  BY <1>1, PoolAlways, PTL

(* Pool.total counts the idle connections and the commands that hold or open one, *)
(* and never exceeds max_pool, on every path of checkout, checkin, a failed open,  *)
(* a cancel, a clear and the close.                                            *)
THEOREM PoolCounts == Spec => []CountExact
<1>1. PoolInv => CountExact
  BY DEF PoolInv
<1> QED
  BY <1>1, PoolAlways, PTL
-----------------------------------------------------------------------------
(* The woken commands are finitely many; those that stay so are no fewer, and one *)
(* that leaves, or comes to them, makes a difference of one.                     *)
Woke == In({"woken"})

(* Only finitely many callers are woken at a time, *)
LEMMA WokeFinite == IsFiniteSet(Woke) /\ Cardinality(Woke) \in Nat
  BY MongoAssumption, FS_Subset, FS_CardinalityType DEF MongoAssumption, Woke, In

(* before and after a step. *)
LEMMA WokeFiniteNext == IsFiniteSet(Woke') /\ Cardinality(Woke') \in Nat
  BY MongoAssumption, FS_Subset, FS_CardinalityType DEF MongoAssumption, Woke, In

(* Their number stays, *)
LEMMA WokeStay ==
    ASSUME \A u \in Tickets : at[u] = "woken" => at'[u] = "woken"
    PROVE  Cardinality(Woke') >= Cardinality(Woke)
<1>1. Woke \subseteq Woke'
  BY DEF Woke, In
<1> QED
  BY <1>1, WokeFinite, WokeFiniteNext, FS_Subset

(* goes down by one when one of them moves on, *)
LEMMA WokeLose ==
    ASSUME NEW t \in Tickets, \A u \in Tickets \ {t} : at[u] = "woken" => at'[u] = "woken"
    PROVE  Cardinality(Woke') >= Cardinality(Woke) - 1
<1>1. Woke \ {t} \subseteq Woke'
  BY DEF Woke, In
<1>2. Cardinality(Woke \ {t}) <= Cardinality(Woke')
  BY <1>1, WokeFiniteNext, FS_Subset
<1>3. CASE t \in Woke
  BY <1>2, <1>3, WokeFinite, WokeFiniteNext, FS_RemoveElement
<1>4. CASE t \notin Woke
  <2>1. Woke \ {t} = Woke
    BY <1>4
  <2> QED
    BY <1>2, <2>1, WokeFinite, WokeFiniteNext
<1> QED
  BY <1>3, <1>4

(* and up by one when one is woken. *)
LEMMA WokeGain ==
    ASSUME NEW h \in Tickets, at[h] # "woken", at'[h] = "woken",
           \A u \in Tickets : at[u] = "woken" => at'[u] = "woken"
    PROVE  Cardinality(Woke') >= Cardinality(Woke) + 1
<1>1. Woke \cup {h} \subseteq Woke' /\ h \notin Woke
  BY DEF Woke, In
<1>2. Cardinality(Woke \cup {h}) = Cardinality(Woke) + 1
  BY <1>1, WokeFinite, FS_AddElement
<1>3. Cardinality(Woke \cup {h}) <= Cardinality(Woke')
  BY <1>1, WokeFiniteNext, FS_Subset
<1> QED
  BY <1>2, <1>3, WokeFinite, WokeFiniteNext

(* A place that is given back wakes the first who waits for it. *)
LEMMA GivenBackHeard ==
    ASSUME PoolInv, NobodyStranded, NEW t \in Tickets, at[t] \in {"opening", "using"},
           NEW p \in {"closing", "done"}, NEW ids \in Seq(Nat), NEW n \in Nat, NEW clears,
           Len(ids) + (Max - n) <= Free + 1, wasted' = wasted,
           GiveBack(Moved(t, p), ids, n, clears)
    PROVE  NobodyStranded'
<1>t. TypeOK /\ Queued /\ Max \in Nat
  BY MongoAssumption DEF PoolInv, MongoAssumption
<1>1. CASE waiters' = <<>>
  BY <1>1 DEF NobodyStranded
<1>2. CASE waiters' # <<>>
  <2>1. ~(clears /\ ~closed) /\ waiters # <<>>
    BY <1>2 DEF GiveBack, Clear, WakeAll, WakeOne
  <2>2. /\ total' = n /\ idle' = ids
        /\ at' = [Moved(t, p) EXCEPT ![Head(waiters)] = "woken"]
    BY <2>1 DEF GiveBack, WakeOne
  <2>3. Head(waiters) \in Tickets /\ at[Head(waiters)] = "waiting"
    <3>1. 1 \in DOMAIN waiters /\ Head(waiters) = waiters[1] /\ waiters[1] \in Tickets
      BY <1>t, <2>1 DEF TypeOK
    <3> QED
      BY <1>t, <3>1 DEF Queued
  <2>4. /\ at'[Head(waiters)] = "woken"
        /\ \A u \in Tickets : at[u] = "woken" => at'[u] = "woken"
    BY <1>t, <2>2, <2>3 DEF Moved, TypeOK
  <2>5. Cardinality(Woke') >= Cardinality(Woke) + 1
    BY <2>3, <2>4, WokeGain
  <2>6. ~wasted => Cardinality(Woke) >= Free
    BY <2>1 DEF NobodyStranded, Woke
  <2>7. Free' = Len(ids) + (Max - n)
    BY <2>2 DEF Free
  <2>8. Free \in Int /\ Len(ids) + (Max - n) \in Int
    BY <1>t DEF Free, TypeOK
  <2>9. ~wasted => Cardinality(Woke') >= Free'
    BY <2>5, <2>6, <2>7, <2>8, WokeFinite, WokeFiniteNext
  <2> QED
    BY <2>9 DEF NobodyStranded, Woke
<1> QED
  BY <1>1, <1>2

(* Who looks takes the place it was woken for, or queues when there is none, unless *)
(* it was cancelled.                                                             *)
LEMMA LooksFair ==
    ASSUME PoolInv, NobodyStranded, NEW t \in Tickets,
           at[t] \in {"new", "woken", "leaving"}, Checkout(t), wasted => wasted',
           at[t] = "woken" /\ at'[t] = "done" => wasted'
    PROVE  NobodyStranded'
<1>t. /\ TypeOK /\ Queued /\ CountExact /\ Max \in Nat
      /\ Len(idle) \in Nat /\ total \in Nat /\ idle \in Seq(Nat)
  BY MongoAssumption DEF PoolInv, TypeOK, MongoAssumption
<1>w. ASSUME NEW p, at' = Moved(t, p)
      PROVE  \A u \in Tickets \ {t} : at[u] = "woken" => at'[u] = "woken"
  BY <1>t, <1>w DEF Moved, TypeOK
<1>1. CASE closed \/ t \in cancelled
  <2>1. at' = Moved(t, "done") /\ UNCHANGED <<idle, total, waiters>>
    BY <1>1 DEF Checkout
  <2>2. at'[t] = "done" /\ Free' = Free
    BY <1>t, <2>1 DEF Moved, TypeOK, Free
  <2>3. CASE at[t] = "woken"
    BY <2>2, <2>3 DEF NobodyStranded
  <2>4. CASE at[t] # "woken"
    <3>1. \A u \in Tickets : at[u] = "woken" => at'[u] = "woken"
      BY <1>w, <2>1, <2>4
    <3>2. Cardinality(Woke') >= Cardinality(Woke)
      BY <3>1, WokeStay
    <3>3. Free \in Int
      BY <1>t DEF Free
    <3>4. waiters' # <<>> /\ ~wasted' => Cardinality(Woke) >= Free
      BY <2>1 DEF NobodyStranded, Woke
    <3>5. waiters' # <<>> /\ ~wasted' => Cardinality(Woke') >= Free'
      BY <2>2, <3>2, <3>3, <3>4, WokeFinite, WokeFiniteNext
    <3> QED
      BY <3>5 DEF NobodyStranded, Woke
  <2> QED
    BY <2>3, <2>4
<1>2. CASE ~(closed \/ t \in cancelled)
  <2>0. TakesPlace(t)
    BY <1>2 DEF Checkout
  <2>1. ASSUME \E p : at' = Moved(t, p), waiters' = waiters, Free' = Free - 1
        PROVE  NobodyStranded'
    <3>1. Cardinality(Woke') >= Cardinality(Woke) - 1
      BY <1>w, <2>1, WokeLose
    <3>2. Free \in Int
      BY <1>t DEF Free
    <3>3. waiters' # <<>> /\ ~wasted' => Cardinality(Woke) >= Free
      BY <2>1 DEF NobodyStranded, Woke
    <3>4. waiters' # <<>> /\ ~wasted' => Cardinality(Woke') >= Free'
      BY <2>1, <3>1, <3>2, <3>3, WokeFinite, WokeFiniteNext
    <3> QED
      BY <3>4 DEF NobodyStranded, Woke
  <2>2. CASE idle # <<>>
    <3>1. Take(t)
      BY <2>0, <2>2 DEF TakesPlace
    <3>2. Len(idle) - 1 \in Nat /\ Len(idle) = (Len(idle) - 1) + 1
      BY <1>t, <2>2
    <3>3. Len(idle') = Len(idle) - 1 /\ total' = total
      BY <1>t, <3>1, <3>2, FrontOf DEF Take
    <3>4. Free' = Free - 1
      BY <1>t, <3>3 DEF Free
    <3> QED
      BY <2>1, <3>1, <3>4 DEF Take
  <2>3. CASE idle = <<>> /\ total < Max
    <3>1. Open(t)
      BY <2>0, <2>3 DEF TakesPlace
    <3>2. Free' = Free - 1
      BY <1>t, <3>1 DEF Open, Free
    <3> QED
      BY <2>1, <3>1, <3>2 DEF Open
  <2>4. CASE idle = <<>> /\ ~(total < Max)
    <3>1. Queue(t)
      BY <2>0, <2>4 DEF TakesPlace
    <3>2. Len(idle) = 0 /\ total = Max
      BY <1>t, <2>4, HoldersFinite DEF CountExact
    <3>3. Free' = 0
      BY <1>t, <3>1, <3>2 DEF Queue, Free
    <3> QED
      BY <3>3, WokeFiniteNext DEF NobodyStranded, Woke
  <2> QED
    BY <2>2, <2>3, <2>4
<1> QED
  BY <1>1, <1>2

(* No step leaves a free place beside a waiter with nobody on the way to it. *)
LEMMA StrandedStep == PoolInv /\ NobodyStranded /\ [Next]_vars => NobodyStranded'
<1> SUFFICES ASSUME PoolInv, NobodyStranded, [Next]_vars PROVE NobodyStranded'
  OBVIOUS
<1> USE DEF topologyVars, poolVars, commandVars
<1>t. /\ TypeOK /\ Queued /\ CountExact /\ Max \in Nat /\ Len(idle) \in Nat /\ total \in Nat
      /\ idle \in Seq(Nat) /\ \A t \in Tickets : opened[t] \in Nat
  BY MongoAssumption DEF PoolInv, TypeOK, MongoAssumption
<1>e. ASSUME waiters' = <<>> PROVE NobodyStranded'
  BY <1>e DEF NobodyStranded
<1>s. ASSUME UNCHANGED <<idle, total, wasted>>, waiters # <<>> \/ waiters' = <<>>,
             \A u \in Tickets : at[u] = "woken" => at'[u] = "woken"
      PROVE  NobodyStranded'
  <2>1. Cardinality(Woke') >= Cardinality(Woke)
    BY <1>s, WokeStay
  <2>2. Free' = Free /\ Free \in Int
    BY <1>s, <1>t DEF Free
  <2>3. waiters' # <<>> /\ ~wasted => Cardinality(Woke) >= Free
    BY <1>s DEF NobodyStranded, Woke
  <2>4. waiters' # <<>> /\ ~wasted => Cardinality(Woke') >= Free'
    BY <2>1, <2>2, <2>3, WokeFinite, WokeFiniteNext
  <2> QED
    BY <1>s, <2>4 DEF NobodyStranded, Woke
<1>h. ASSUME NEW t \in Tickets, at[t] \in {"opening", "using"} PROVE total - 1 \in Nat
  <2>1. t \in Holders
    BY <1>h DEF Holders, In
  <2>2. Cardinality(Holders) # 0
    BY <2>1, HoldersFinite, FS_EmptySet
  <2> QED
    BY <1>t, <2>2, HoldersFinite DEF CountExact
<1>1. ASSUME NEW t \in Tickets, Run(t) PROVE NobodyStranded'
  <2>1. CASE closed \/ t \in forgotten
    <3>1. /\ at' = Moved(t, "done") /\ at[t] = "new"
          /\ UNCHANGED <<idle, total, waiters, wasted>>
      BY <1>1, <2>1 DEF Run
    <3>2. \A u \in Tickets : at[u] = "woken" => at'[u] = "woken"
      BY <1>t, <3>1 DEF Moved, TypeOK
    <3> QED
      BY <1>s, <1>e, <3>1, <3>2
  <2>2. CASE ~(closed \/ t \in forgotten)
    <3>1. Checkout(t) /\ at[t] = "new" /\ wasted' = wasted
      BY <1>1, <2>2 DEF Run
    <3> QED
      BY <3>1, LooksFair
  <2> QED
    BY <2>1, <2>2
<1>2. ASSUME NEW t \in Tickets, Unselected(t) PROVE NobodyStranded'
  <2>1. /\ at' = Moved(t, "done") /\ at[t] = "new"
        /\ UNCHANGED <<idle, total, waiters, wasted>>
    BY <1>2 DEF Unselected
  <2>2. \A u \in Tickets : at[u] = "woken" => at'[u] = "woken"
    BY <1>t, <2>1 DEF Moved, TypeOK
  <2> QED
    BY <1>s, <1>e, <2>1, <2>2
<1>3. ASSUME NEW t \in Tickets, Woken(t) PROVE NobodyStranded'
  <2>1. /\ at[t] \in {"woken", "leaving"} /\ Checkout(t)
        /\ wasted' = (wasted \/ (at[t] = "woken" /\ at'[t] = "done"))
    BY <1>3 DEF Woken
  <2>2. wasted => wasted'
    BY <2>1
  <2>3. at[t] = "woken" /\ at'[t] = "done" => wasted'
    BY <2>1
  <2> QED
    BY <2>1, <2>2, <2>3, LooksFair
<1>4. ASSUME NEW t \in Tickets, Opened(t) PROVE NobodyStranded'
  <2>1. CASE t \in cut
    <3>1. /\ GiveBack(Moved(t, "closing"), idle, total - 1, FALSE)
          /\ at[t] = "opening" /\ wasted' = wasted
      BY <1>4, <2>1 DEF Opened
    <3>2. total - 1 \in Nat /\ Len(idle) + (Max - (total - 1)) <= Free + 1
      BY <1>h, <1>t, <3>1 DEF Free
    <3> QED
      BY <1>t, <3>1, <3>2, GivenBackHeard
  <2>2. CASE t \notin cut
    <3>1. /\ at' = Moved(t, "using") /\ at[t] = "opening"
          /\ UNCHANGED <<idle, total, waiters, wasted>>
      BY <1>4, <2>2 DEF Opened
    <3>2. \A u \in Tickets : at[u] = "woken" => at'[u] = "woken"
      BY <1>t, <3>1 DEF Moved, TypeOK
    <3> QED
      BY <1>s, <1>e, <3>1, <3>2
  <2> QED
    BY <2>1, <2>2
<1>5. ASSUME NEW t \in Tickets, OpenFails(t) PROVE NobodyStranded'
  <2>1. /\ \E clears : GiveBack(Moved(t, "done"), idle, total - 1, clears)
        /\ at[t] = "opening" /\ wasted' = wasted
    BY <1>5 DEF OpenFails
  <2>2. total - 1 \in Nat /\ Len(idle) + (Max - (total - 1)) <= Free + 1
    BY <1>h, <1>t, <2>1 DEF Free
  <2> QED
    BY <1>t, <2>1, <2>2, GivenBackHeard
<1>6. ASSUME NEW t \in Tickets, NEW outcome \in Outcomes, Reply(t, outcome)
      PROVE  NobodyStranded'
  <2>0. at[t] = "using" /\ wasted' = wasted
    BY <1>6 DEF Reply
  <2>1. CASE Keeps(t, outcome)
    <3>1. \E clears : GiveBack(Moved(t, "done"), Append(idle, opened[t]), total, clears)
      BY <1>6, <2>1 DEF Reply
    <3>2. /\ Append(idle, opened[t]) \in Seq(Nat)
          /\ Len(Append(idle, opened[t])) + (Max - total) <= Free + 1
      BY <1>t DEF Free
    <3> QED
      BY <1>t, <2>0, <3>1, <3>2, GivenBackHeard
  <2>2. CASE ~Keeps(t, outcome)
    <3>1. GiveBack(Moved(t, "closing"), idle, total - 1, FALSE)
      BY <1>6, <2>2 DEF Reply
    <3>2. total - 1 \in Nat /\ Len(idle) + (Max - (total - 1)) <= Free + 1
      BY <1>h, <1>t, <2>0 DEF Free
    <3> QED
      BY <1>t, <2>0, <3>1, <3>2, GivenBackHeard
  <2> QED
    BY <2>1, <2>2
<1>7. ASSUME NEW t \in Tickets, Settle(t) PROVE NobodyStranded'
  <2>1. /\ at[t] = "closing" /\ wasted' = wasted
        /\ \/ waiters' = <<>>
           \/ at' = Moved(t, "done") /\ UNCHANGED <<idle, total, waiters>>
    BY <1>7 DEF Settle, Clear, WakeAll
  <2>2. CASE at' = Moved(t, "done") /\ UNCHANGED <<idle, total, waiters>>
    <3>1. \A u \in Tickets : at[u] = "woken" => at'[u] = "woken"
      BY <1>t, <2>1, <2>2 DEF Moved, TypeOK
    <3> QED
      BY <1>s, <1>e, <2>1, <2>2, <3>1
  <2> QED
    BY <1>e, <2>1, <2>2
<1>8. ASSUME CheckAnswers PROVE NobodyStranded'
  <2>1. UNCHANGED <<idle, total, waiters, wasted, at>>
    BY <1>8 DEF CheckAnswers
  <2> QED
    BY <1>s, <1>e, <2>1
<1>9. ASSUME CheckFails PROVE NobodyStranded'
  <2>1. waiters' = <<>> \/ UNCHANGED <<idle, total, waiters, wasted, at>>
    BY <1>9 DEF CheckFails, Clear, WakeAll
  <2> QED
    BY <1>s, <1>e, <2>1
<1>10. ASSUME NEW t \in Tickets, Cancel(t) PROVE NobodyStranded'
  <2>1. /\ UNCHANGED <<idle, total, wasted>>
        /\ waiters' = waiters \/ waiters' = Without(t)
        /\ at' = at \/ (at[t] = "waiting" /\ at' = Moved(t, "leaving"))
    BY <1>10, <1>t DEF Cancel, TypeOK, Places
  <2>2. \A u \in Tickets : at[u] = "woken" => at'[u] = "woken"
    BY <1>t, <2>1 DEF Moved, TypeOK
  <2>3. waiters # <<>> \/ waiters' = <<>>
    BY <2>1 DEF Without
  <2> QED
    BY <1>s, <2>1, <2>2, <2>3
<1>11. ASSUME Close PROVE NobodyStranded'
  BY <1>11, <1>e DEF Close, WakeAll
<1>12. CASE UNCHANGED vars
  <2>1. UNCHANGED <<idle, total, waiters, wasted, at>>
    BY <1>12 DEF vars
  <2> QED
    BY <1>s, <1>e, <2>1
<1> QED
  BY <1>1, <1>2, <1>3, <1>4, <1>5, <1>6, <1>7, <1>8, <1>9, <1>10, <1>11, <1>12
  DEF Next, Progress, Stopped

(* While commands wait, every place that is free has one that was woken for it, unless *)
(* a woken one was cancelled: wake_one is called wherever a place comes free.         *)
THEOREM PoolStrandsNobody == Spec => []NobodyStranded
<1>1. Init => NobodyStranded
  BY DEF Init, NobodyStranded
<1>2. PoolInv /\ NobodyStranded /\ [Next]_vars => NobodyStranded'
  BY StrandedStep
<1> QED
  BY <1>1, <1>2, PoolAlways, PTL DEF Spec
-----------------------------------------------------------------------------
(* Whatever is given back, the idle list is what it says or empty. *)
LEMMA GiveBackIdle ==
    ASSUME NEW places, NEW ids, NEW n, NEW clears, GiveBack(places, ids, n, clears)
    PROVE  idle' = <<>> \/ (idle' = ids /\ generation' = generation)
  BY DEF GiveBack, Clear

(* What is idle is of the generation of now. *)
LEMMA IdleStep == PoolInv /\ IdleCurrent /\ [Next]_vars => IdleCurrent'
<1> SUFFICES ASSUME PoolInv, IdleCurrent, [Next]_vars PROVE IdleCurrent'
  OBVIOUS
<1> USE DEF topologyVars, poolVars, commandVars
<1>t. TypeOK
  BY DEF PoolInv
<1>e. ASSUME idle' = <<>> PROVE IdleCurrent'
  BY <1>e DEF IdleCurrent
<1>s. ASSUME UNCHANGED <<idle, generation, closed>> PROVE IdleCurrent'
  BY <1>s DEF IdleCurrent
<1>c. ASSUME NEW t \in Tickets, Checkout(t), UNCHANGED <<generation, closed>>
      PROVE  IdleCurrent'
  <2>1. CASE idle # <<>> /\ Take(t)
    <3>1. Len(idle) \in Nat \ {0} /\ idle \in Seq(Nat)
      BY <1>t, <2>1 DEF TypeOK
    <3>2. PICK n \in Nat : Len(idle) = n + 1
      <4>1. Len(idle) - 1 \in Nat /\ Len(idle) = (Len(idle) - 1) + 1
        BY <3>1
      <4> QED
        BY <4>1
    <3>3. idle' = SubSeq(idle, 1, n)
      BY <2>1, <3>1, <3>2 DEF Take
    <3>4. \A i \in DOMAIN idle' : i \in DOMAIN idle /\ idle'[i] = idle[i]
      BY <3>1, <3>2, <3>3
    <3> QED
      BY <1>c, <3>4 DEF IdleCurrent
  <2>2. CASE idle' = idle
    BY <1>c, <1>s, <2>2
  <2> QED
    BY <1>c, <2>1, <2>2 DEF Checkout, TakesPlace, Open, Queue
<1>1. ASSUME NEW t \in Tickets, Run(t) PROVE IdleCurrent'
  <2>1. UNCHANGED <<generation, closed>> /\ (idle' = idle \/ Checkout(t))
    BY <1>1 DEF Run
  <2> QED
    BY <1>c, <1>s, <2>1
<1>2. ASSUME NEW t \in Tickets, Unselected(t) PROVE IdleCurrent'
  BY <1>2, <1>s DEF Unselected
<1>3. ASSUME NEW t \in Tickets, Woken(t) PROVE IdleCurrent'
  BY <1>3, <1>c DEF Woken
<1>4. ASSUME NEW t \in Tickets, Opened(t) PROVE IdleCurrent'
  <2>1. closed' = closed /\ (idle' = <<>> \/ (idle' = idle /\ generation' = generation))
    BY <1>4, GiveBackIdle DEF Opened
  <2> QED
    BY <1>e, <1>s, <2>1
<1>5. ASSUME NEW t \in Tickets, OpenFails(t) PROVE IdleCurrent'
  <2>1. closed' = closed /\ (idle' = <<>> \/ (idle' = idle /\ generation' = generation))
    BY <1>5, GiveBackIdle DEF OpenFails
  <2> QED
    BY <1>e, <1>s, <2>1
<1>6. ASSUME NEW t \in Tickets, NEW outcome \in Outcomes, Reply(t, outcome)
      PROVE  IdleCurrent'
  <2>1. CASE Keeps(t, outcome)
    <3>1. /\ idle' = <<>> \/ (idle' = Append(idle, opened[t]) /\ generation' = generation)
          /\ closed' = closed /\ ~closed /\ opened[t] = generation
      BY <1>6, <2>1, GiveBackIdle DEF Reply, Keeps
    <3>2. CASE idle' = Append(idle, opened[t]) /\ generation' = generation
      <4>1. idle \in Seq(Nat) /\ opened[t] \in Nat
        BY <1>t DEF TypeOK
      <4>2. \A i \in DOMAIN idle' :
               idle'[i] = opened[t] \/ (i \in DOMAIN idle /\ idle'[i] = idle[i])
        BY <3>2, <4>1
      <4> QED
        BY <3>1, <3>2, <4>2 DEF IdleCurrent
    <3> QED
      BY <1>e, <3>1, <3>2
  <2>2. CASE ~Keeps(t, outcome)
    <3>1. closed' = closed /\ (idle' = <<>> \/ (idle' = idle /\ generation' = generation))
      BY <1>6, <2>2, GiveBackIdle DEF Reply
    <3> QED
      BY <1>e, <1>s, <3>1
  <2> QED
    BY <2>1, <2>2
<1>7. ASSUME NEW t \in Tickets, Settle(t) PROVE IdleCurrent'
  <2>1. closed' = closed /\ (idle' = <<>> \/ (idle' = idle /\ generation' = generation))
    BY <1>7 DEF Settle, Clear
  <2> QED
    BY <1>e, <1>s, <2>1
<1>8. ASSUME CheckAnswers PROVE IdleCurrent'
  BY <1>8, <1>s DEF CheckAnswers
<1>9. ASSUME CheckFails PROVE IdleCurrent'
  <2>1. closed' = closed /\ (idle' = <<>> \/ (idle' = idle /\ generation' = generation))
    BY <1>9 DEF CheckFails, Clear
  <2> QED
    BY <1>e, <1>s, <2>1
<1>10. ASSUME NEW t \in Tickets, Cancel(t) PROVE IdleCurrent'
  BY <1>10, <1>s DEF Cancel
<1>11. ASSUME Close PROVE IdleCurrent'
  BY <1>11, <1>e DEF Close
<1>12. CASE UNCHANGED vars
  BY <1>12, <1>s DEF vars
<1> QED
  BY <1>1, <1>2, <1>3, <1>4, <1>5, <1>6, <1>7, <1>8, <1>9, <1>10, <1>11, <1>12
  DEF Next, Progress, Stopped

(* No connection of an earlier generation, and none in a closed pool, is ever idle *)
(* to be handed out (checkin compares generations, clear and close drain the list). *)
THEOREM PoolCurrent == Spec => []IdleCurrent
<1>1. Init => IdleCurrent
  BY DEF Init, IdleCurrent
<1>2. PoolInv /\ IdleCurrent /\ [Next]_vars => IdleCurrent'
  BY IdleStep
<1> QED
  BY <1>1, <1>2, PoolAlways, PTL DEF Spec
-----------------------------------------------------------------------------
(* What is judged and what is given back move the two generations together. *)
LEMMA JudgedGap ==
    ASSUME TypeOK, GenerationGap, NEW places, NEW ids, NEW n, NEW outcome, NEW g,
           Judge(outcome, g), closed' = closed,
           GiveBack(places, ids, n, Clears(outcome, g))
    PROVE  GenerationGap'
<1>1. gens \in Nat /\ generation \in Nat /\ missed \in Nat
  BY DEF TypeOK
<1>2. CASE Clears(outcome, g)
  BY <1>1, <1>2 DEF Judge, GiveBack, Clear, GenerationGap
<1>3. CASE ~Clears(outcome, g)
  <2>1. gens' = gens /\ missed' = missed /\ generation' = generation
    BY <1>3 DEF Judge, GiveBack, WakeOne
  <2> QED
    BY <2>1 DEF GenerationGap
<1> QED
  BY <1>2, <1>3

(* Every step keeps the two generations apart by the failed checks before the pool. *)
LEMMA GapStep == PoolInv /\ GenerationGap /\ [Next]_vars => GenerationGap'
<1> SUFFICES ASSUME PoolInv, GenerationGap, [Next]_vars PROVE GenerationGap'
  OBVIOUS
<1> USE DEF topologyVars, poolVars, commandVars
<1>t. TypeOK /\ gens \in Nat /\ generation \in Nat /\ missed \in Nat
  BY DEF PoolInv, TypeOK
<1>s. ASSUME UNCHANGED <<gens, generation, missed>>, closed' = closed \/ closed'
      PROVE  GenerationGap'
  BY <1>s DEF GenerationGap
<1>1. ASSUME NEW t \in Tickets, Run(t) PROVE GenerationGap'
  BY <1>1, <1>s DEF Run
<1>2. ASSUME NEW t \in Tickets, Unselected(t) PROVE GenerationGap'
  BY <1>2, <1>s DEF Unselected
<1>3. ASSUME NEW t \in Tickets, Woken(t) PROVE GenerationGap'
  BY <1>3, <1>s DEF Woken
<1>4. ASSUME NEW t \in Tickets, Opened(t) PROVE GenerationGap'
  <2>1. UNCHANGED <<gens, generation, missed, closed>>
    BY <1>4 DEF Opened, GiveBack
  <2> QED
    BY <1>s, <2>1
<1>5. ASSUME NEW t \in Tickets, OpenFails(t) PROVE GenerationGap'
  BY <1>5, <1>t, JudgedGap DEF OpenFails
<1>6. ASSUME NEW t \in Tickets, NEW outcome \in Outcomes, Reply(t, outcome)
      PROVE  GenerationGap'
  <2>1. CASE Keeps(t, outcome)
    <3>1. /\ Judge(outcome, generation) /\ closed' = closed
          /\ GiveBack(Moved(t, "done"), Append(idle, opened[t]), total,
                      Clears(outcome, generation))
      BY <1>6, <2>1 DEF Reply
    <3> QED
      BY <1>t, <3>1, JudgedGap
  <2>2. CASE ~Keeps(t, outcome)
    <3>1. UNCHANGED <<gens, generation, missed, closed>>
      BY <1>6, <2>2 DEF Reply, GiveBack
    <3> QED
      BY <1>s, <3>1
  <2> QED
    BY <2>1, <2>2
<1>7. ASSUME NEW t \in Tickets, Settle(t) PROVE GenerationGap'
  <2> DEFINE g == IF error[t] = "lost" THEN opened[t] ELSE generation
  <2>1. /\ Judge(error[t], g) /\ closed' = closed
        /\ missed' = IF Clears(error[t], g) /\ closed THEN missed + 1 ELSE missed
        /\ IF Clears(error[t], g) /\ ~closed THEN Clear(Moved(t, "done"), idle, total)
           ELSE UNCHANGED generation
    BY <1>7 DEF Settle
  <2> HIDE DEF g
  <2>2. CASE Clears(error[t], g) /\ ~closed
    BY <1>t, <2>1, <2>2 DEF Judge, Clear, GenerationGap
  <2>3. CASE closed
    BY <2>1, <2>3 DEF GenerationGap
  <2>4. CASE ~Clears(error[t], g)
    BY <1>s, <2>1, <2>4 DEF Judge
  <2> QED
    BY <2>2, <2>3, <2>4
<1>8. ASSUME CheckAnswers PROVE GenerationGap'
  BY <1>8, <1>s DEF CheckAnswers
<1>9. ASSUME CheckFails PROVE GenerationGap'
  BY <1>9, <1>t DEF CheckFails, Clear, GenerationGap
<1>10. ASSUME NEW t \in Tickets, Cancel(t) PROVE GenerationGap'
  BY <1>10, <1>s DEF Cancel
<1>11. ASSUME Close PROVE GenerationGap'
  BY <1>11 DEF Close, GenerationGap
<1>12. CASE UNCHANGED vars
  BY <1>12, <1>s DEF vars
<1> QED
  BY <1>1, <1>2, <1>3, <1>4, <1>5, <1>6, <1>7, <1>8, <1>9, <1>10, <1>11, <1>12
  DEF Next, Progress, Stopped

(* TopologyDescription.generations is ahead of Pool.generation by the failed checks *)
(* that found no pool (clear_pool), and by nothing else.                        *)
THEOREM PoolGap == Spec => []GenerationGap
<1>1. Init => GenerationGap
  BY DEF Init, GenerationGap
<1>2. PoolInv /\ GenerationGap /\ [Next]_vars => GenerationGap'
  BY GapStep
<1> QED
  BY <1>1, <1>2, PoolAlways, PTL DEF Spec
-----------------------------------------------------------------------------
(* A lost connection of the generation of now clears the pool when no check was    *)
(* missed. *)
LEMMA LossStep ==
    ASSUME PoolInv, GenerationGap, Next, missed = 0, NEW t \in Tickets
    PROVE  LostClears(t)
<1> SUFFICES ASSUME at[t] = "closing", at'[t] = "done", ~closed,
                    error[t] = "lost", opened[t] = generation
             PROVE  ~known' /\ generation' = generation + 1
  BY DEF LostClears
<1> USE DEF topologyVars, poolVars, commandVars
<1>t. /\ TypeOK /\ Queued /\ gens \in Nat /\ generation \in Nat /\ at \in [Tickets -> Places]
  BY DEF PoolInv, TypeOK
<1>g. gens = generation
  BY <1>t DEF GenerationGap
<1>s. CASE Settle(t)
  <2>1. Clears("lost", generation)
    BY <1>t, <1>g DEF Clears
  <2>2. Judge("lost", generation) /\ Clear(Moved(t, "done"), idle, total)
    BY <1>s, <2>1 DEF Settle
  <2>3. ~known'
    <3>1. ~(generation < gens)
      BY <1>t, <1>g
    <3>2. known' = (known /\ ("lost" = "fine" \/ generation < gens))
      BY <2>2 DEF Judge
    <3> QED
      BY <3>1, <3>2
  <2> QED
    BY <2>2, <2>3 DEF Clear
<1>1. ASSUME NEW u \in Tickets, Run(u) PROVE FALSE
  BY <1>1, <1>t DEF Run, Checkout, TakesPlace, Take, Open, Queue, Moved
<1>2. ASSUME NEW u \in Tickets, Unselected(u) PROVE FALSE
  BY <1>2, <1>t DEF Unselected, Moved
<1>3. ASSUME NEW u \in Tickets, Woken(u) PROVE FALSE
  BY <1>3, <1>t DEF Woken, Checkout, TakesPlace, Take, Open, Queue, Moved
<1>b. ASSUME NEW u \in Tickets, NEW p \in Places, at[u] \in {"opening", "using"},
             WakeOne(Moved(u, p)) \/ WakeAll(Moved(u, p))
      PROVE  FALSE
  <2>1. Moved(u, p) \in [Tickets -> Places] /\ Moved(u, p)[t] = "closing"
    BY <1>t, <1>b DEF Moved
  <2>2. CASE WakeAll(Moved(u, p))
    BY <2>1, <2>2 DEF WakeAll
  <2>3. CASE WakeOne(Moved(u, p))
    <3>1. at' \in {Moved(u, p)} \cup {[Moved(u, p) EXCEPT ![w] = "woken"] : w \in Tickets}
      <4>1. waiters \in Seq(Tickets)
        BY <1>t DEF TypeOK
      <4>2. waiters # <<>> => Head(waiters) \in Tickets
        BY <4>1
      <4> QED
        BY <2>3, <4>2 DEF WakeOne
    <3> QED
      BY <2>1, <3>1
  <2> QED
    BY <1>b, <2>2, <2>3
<1>4. ASSUME NEW u \in Tickets, Opened(u) PROVE FALSE
  <2>1. CASE u \in cut
    <3>1. at[u] \in {"opening", "using"} /\ "closing" \in Places
          /\ WakeOne(Moved(u, "closing"))
      BY <1>4, <2>1 DEF Opened, Places, GiveBack
    <3> QED
      BY <1>b, <3>1
  <2>2. CASE u \notin cut
    BY <1>4, <1>t, <2>2 DEF Opened, Moved
  <2> QED
    BY <2>1, <2>2
<1>5. ASSUME NEW u \in Tickets, OpenFails(u) PROVE FALSE
  <2>1. /\ at[u] \in {"opening", "using"} /\ "done" \in Places
        /\ WakeOne(Moved(u, "done")) \/ WakeAll(Moved(u, "done"))
    BY <1>5 DEF OpenFails, Places, GiveBack, Clear
  <2> QED
    BY <1>b, <2>1
<1>6. ASSUME NEW u \in Tickets, NEW outcome \in Outcomes, Reply(u, outcome) PROVE FALSE
  <2>1. at[u] \in {"opening", "using"} /\ "closing" \in Places /\ "done" \in Places
    BY <1>6 DEF Reply, Places
  <2>2. CASE Keeps(u, outcome)
    <3>1. WakeOne(Moved(u, "done")) \/ WakeAll(Moved(u, "done"))
      BY <1>6, <2>2 DEF Reply, GiveBack, Clear
    <3> QED
      BY <1>b, <2>1, <3>1
  <2>3. CASE ~Keeps(u, outcome)
    <3>1. WakeOne(Moved(u, "closing"))
      BY <1>6, <2>3 DEF Reply, GiveBack
    <3> QED
      BY <1>b, <2>1, <3>1
  <2> QED
    BY <2>2, <2>3
<1>7. ASSUME NEW u \in Tickets, u # t, Settle(u) PROVE FALSE
  <2>1. Moved(u, "done")[t] = "closing"
    BY <1>7, <1>t DEF Moved
  <2>2. at'[t] \in {Moved(u, "done")[t], "woken"}
    BY <1>7, <1>t, <2>1 DEF Settle, Clear, WakeAll
  <2> QED
    BY <2>1, <2>2
<1>8. ASSUME CheckAnswers PROVE FALSE
  BY <1>8 DEF CheckAnswers
<1>9. ASSUME CheckFails PROVE FALSE
  BY <1>9, <1>t DEF CheckFails, Clear, WakeAll
<1>10. ASSUME NEW u \in Tickets, Cancel(u) PROVE FALSE
  BY <1>10, <1>t DEF Cancel, Moved, Places
<1>11. ASSUME Close PROVE FALSE
  BY <1>11, <1>t DEF Close, WakeAll
<1>12. ASSUME Stopped PROVE FALSE
  BY <1>12 DEF Stopped
<1> QED
  BY <1>s, <1>1, <1>2, <1>3, <1>4, <1>5, <1>6, <1>7, <1>8, <1>9, <1>10, <1>11, <1>12
  DEF Next, Progress

(* While no check was missed, losing a connection of the generation of now marks   *)
(* the server Unknown and clears its pool in the same step (application_error,     *)
(* clear_pool).                                                              *)
THEOREM PoolLossClears == Spec => LossClears
<1>1. PoolInv /\ GenerationGap /\ [Next]_vars
      => [missed = 0 => \A t \in Tickets : LostClears(t)]_vars
  BY LossStep
<1> QED
  BY <1>1, PoolAlways, PoolGap, PTL DEF Spec, LossClears
-----------------------------------------------------------------------------
(* What the clients see of the pool. *)
Seens == [t \in Tickets |-> Seen(at[t])]

(* What BoundedPool sees of each place, *)
LEMMA SeenIs ==
    /\ Seen("new") = "out" /\ Seen("waiting") = "queued" /\ Seen("woken") = "queued"
    /\ Seen("leaving") = "queued" /\ Seen("opening") = "served" /\ Seen("using") = "served"
    /\ Seen("closing") = "left" /\ Seen("done") = "left"
  BY DEF Seen

(* When t goes to p and others are woken, only t is seen to move. *)
LEMMA SeenMoves ==
    ASSUME TypeOK, NEW t \in Tickets, NEW p \in Places, Wakes(Moved(t, p))
    PROVE  Seens' = [Seens EXCEPT ![t] = Seen(p)] /\ Seens[t] = Seen(at[t])
<1>1. at \in [Tickets -> Places]
  BY DEF TypeOK
<1>2. Moved(t, p)[t] = p /\ \A u \in Tickets \ {t} : Moved(t, p)[u] = at[u]
  BY <1>1 DEF Moved
<1>3. ASSUME NEW u \in Tickets PROVE Seen(at'[u]) = Seen(Moved(t, p)[u])
  BY <1>3, SeenIs DEF Wakes
<1>4. \A u \in Tickets : Seen(at'[u]) = IF u = t THEN Seen(p) ELSE Seen(at[u])
  BY <1>2, <1>3
<1>5. Seens' = [u \in Tickets |-> Seen(at'[u])]
  BY DEF Seens, Seen
<1> QED
  BY <1>4, <1>5 DEF Seens

(* The instance counts as the pool does. *)
LEMMA SameCount == Bounds!Cardinality(Holders) = Cardinality(Holders)
  BY DEF Bounds!Cardinality, Cardinality

(* The clients served are the commands that hold or open a connection. *)
LEMMA ServedAre == TypeOK => Bounds!Served = Holders
  BY SeenIs DEF Bounds!Served, Holders, In, TypeOK, Places

(* Three ways a command moves are steps of BoundedPool, or no step. *)
LEMMA SeenLeaves ==
    ASSUME TypeOK, NEW t \in Tickets, NEW p \in {"closing", "done"}, Wakes(Moved(t, p))
    PROVE  [Bounds!Next]_Seens
<1>1. Seens' = [Seens EXCEPT ![t] = "left"] /\ Seens \in [Tickets -> {"out", "queued", "served", "left"}]
  BY SeenMoves, SeenIs DEF Places, TypeOK, Seens
<1>2. CASE Seens[t] = "left"
  BY <1>1, <1>2
<1>3. CASE Seens[t] # "left"
  BY <1>1, <1>3 DEF Bounds!Next, Bounds!Leave, Seens
<1> QED
  BY <1>2, <1>3

(* a move it does not see, *)
LEMMA SeenStays ==
    ASSUME TypeOK, NEW t \in Tickets, NEW p \in Places, Seen(at[t]) = Seen(p), Wakes(Moved(t, p))
    PROVE  UNCHANGED Seens
<1>1. Seens' = [Seens EXCEPT ![t] = Seen(p)] /\ Seens[t] = Seen(p)
  BY SeenMoves
<1> QED
  BY <1>1 DEF Seens

(* and a checkout. *)
LEMMA SeenChecksOut ==
    ASSUME PoolInv, NEW t \in Tickets, at[t] \in {"new", "woken", "leaving"}, Checkout(t)
    PROVE  [Bounds!Next]_Seens
<1>t. TypeOK /\ CountExact
  BY DEF PoolInv
<1>w. ASSUME NEW p, at' = Moved(t, p) PROVE Wakes(Moved(t, p))
  BY <1>w DEF Wakes
<1>c. /\ Bounds!Served = Holders /\ Cardinality(Holders) \in Nat /\ Max \in Nat
      /\ total = Len(idle) + Cardinality(Holders) /\ total <= Max /\ idle \in Seq(Nat)
  BY <1>t, ServedAre, HoldersFinite, MongoAssumption DEF CountExact, MongoAssumption, TypeOK
<1>s. Seens[t] = Seen(at[t]) /\ Seens[t] \in {"out", "queued"}
  BY SeenIs DEF Seens
<1>1. CASE closed \/ t \in cancelled
  <2>1. Wakes(Moved(t, "done"))
    BY <1>1, <1>w DEF Checkout
  <2> QED
    BY <1>t, <2>1, SeenLeaves
<1>2. ASSUME NEW p \in {"using", "opening"}, at' = Moved(t, p), Cardinality(Holders) < Max
      PROVE  [Bounds!Next]_Seens
  <2>1. Seens' = [Seens EXCEPT ![t] = "served"]
    BY <1>2, <1>t, <1>w, SeenMoves, SeenIs DEF Places
  <2>2. Bounds!Cardinality(Bounds!Served) < Max /\ Seens[t] \in {"out", "queued"}
    BY <1>2, <1>c, <1>s, SameCount
  <2>3. Bounds!Enter(t)
    BY <2>1, <2>2 DEF Bounds!Enter, Seens
  <2> QED
    BY <2>3 DEF Bounds!Next
<1>3. CASE idle # <<>> /\ Take(t)
  <2>1. Len(idle) \in Nat \ {0}
    BY <1>c, <1>3
  <2>2. Cardinality(Holders) < Max
    BY <1>c, <2>1
  <2> QED
    BY <1>2, <1>3, <2>2 DEF Take
<1>4. CASE idle = <<>> /\ total < Max /\ Open(t)
  <2>1. Len(idle) = 0
    BY <1>4
  <2>2. Cardinality(Holders) < Max
    BY <1>c, <1>4, <2>1
  <2> QED
    BY <1>2, <1>4, <2>2 DEF Open
<1>5. CASE idle = <<>> /\ ~(total < Max) /\ Queue(t)
  <2>1. Len(idle) = 0
    BY <1>5
  <2>2. Cardinality(Holders) = Max
    BY <1>c, <1>5, <2>1
  <2>3. Seens' = [Seens EXCEPT ![t] = "queued"]
    BY <1>5, <1>t, <1>w, SeenMoves, SeenIs DEF Places, Queue
  <2>4. CASE Seens[t] = "out"
    <3>1. Bounds!Cardinality(Bounds!Served) = Max
      BY <1>c, <2>2, SameCount
    <3>2. Bounds!Queue(t)
      BY <2>3, <2>4, <3>1 DEF Bounds!Queue, Seens
    <3> QED
      BY <3>2 DEF Bounds!Next
  <2>5. CASE Seens[t] = "queued"
    BY <2>3, <2>5 DEF Seens
  <2> QED
    BY <1>s, <2>4, <2>5
<1> QED
  BY <1>1, <1>3, <1>4, <1>5 DEF Checkout, TakesPlace

(* A step of the pool is a step of BoundedPool, or none. *)
LEMMA RefineStep == PoolInv /\ [Next]_vars => [Bounds!Next]_Seens
<1> SUFFICES ASSUME PoolInv, [Next]_vars PROVE [Bounds!Next]_Seens
  OBVIOUS
<1> USE DEF topologyVars, poolVars, commandVars
<1>t. TypeOK /\ Queued /\ waiters \in Seq(Tickets) /\ at \in [Tickets -> Places]
  BY DEF PoolInv, TypeOK
<1>s. ASSUME UNCHANGED at PROVE [Bounds!Next]_Seens
  BY <1>s DEF Seens
<1>w. ASSUME NEW t \in Tickets, NEW p \in Places, at[t] # "waiting",
             WakeOne(Moved(t, p)) \/ WakeAll(Moved(t, p)) \/ at' = Moved(t, p)
      PROVE  Wakes(Moved(t, p))
  <2>1. /\ Moved(t, p) \in [Tickets -> Places]
        /\ \A u \in Tickets : at[u] = "waiting" => Moved(t, p)[u] = "waiting"
    BY <1>t, <1>w DEF Moved
  <2>2. CASE WakeOne(Moved(t, p))
    BY <1>t, <2>1, <2>2, WakeOneKeeps
  <2>3. CASE WakeAll(Moved(t, p))
    BY <2>1, <2>3, WakeAllKeeps
  <2>4. CASE at' = Moved(t, p)
    BY <2>4 DEF Wakes
  <2> QED
    BY <1>w, <2>2, <2>3, <2>4
<1>l. ASSUME NEW t \in Tickets, NEW p \in {"closing", "done"}, at[t] # "waiting",
             WakeOne(Moved(t, p)) \/ WakeAll(Moved(t, p)) \/ at' = Moved(t, p)
      PROVE  [Bounds!Next]_Seens
  BY <1>t, <1>w, <1>l, SeenLeaves DEF Places
<1>a. ASSUME WakeAll(at) PROVE [Bounds!Next]_Seens
  <2>1. ASSUME NEW u \in Tickets PROVE Seen(at'[u]) = Seen(at[u])
    BY <1>a, SeenIs DEF WakeAll
  <2>2. UNCHANGED Seens
    <3>1. Seens' = [u \in Tickets |-> Seen(at'[u])]
      BY DEF Seens, Seen
    <3> QED
      BY <2>1, <3>1 DEF Seens
  <2> QED
    BY <2>2
<1>1. ASSUME NEW t \in Tickets, Run(t) PROVE [Bounds!Next]_Seens
  <2>1. at[t] = "new" /\ (at' = Moved(t, "done") \/ Checkout(t))
    BY <1>1 DEF Run
  <2> QED
    BY <1>l, <2>1, SeenChecksOut
<1>2. ASSUME NEW t \in Tickets, Unselected(t) PROVE [Bounds!Next]_Seens
  BY <1>2, <1>l DEF Unselected
<1>3. ASSUME NEW t \in Tickets, Woken(t) PROVE [Bounds!Next]_Seens
  BY <1>3, SeenChecksOut DEF Woken
<1>4. ASSUME NEW t \in Tickets, Opened(t) PROVE [Bounds!Next]_Seens
  <2>1. CASE t \in cut
    <3>1. at[t] # "waiting" /\ WakeOne(Moved(t, "closing"))
      BY <1>4, <2>1 DEF Opened, GiveBack
    <3> QED
      BY <1>l, <3>1
  <2>2. CASE t \notin cut
    <3>1. at[t] = "opening" /\ at' = Moved(t, "using") /\ "using" \in Places
      BY <1>4, <2>2 DEF Opened, Places
    <3>2. Wakes(Moved(t, "using"))
      BY <1>w, <3>1
    <3> QED
      BY <1>t, <3>1, <3>2, SeenStays, SeenIs
  <2> QED
    BY <2>1, <2>2
<1>5. ASSUME NEW t \in Tickets, OpenFails(t) PROVE [Bounds!Next]_Seens
  <2>1. at[t] # "waiting" /\ (WakeOne(Moved(t, "done")) \/ WakeAll(Moved(t, "done")))
    BY <1>5 DEF OpenFails, GiveBack, Clear
  <2> QED
    BY <1>l, <2>1
<1>6. ASSUME NEW t \in Tickets, NEW outcome \in Outcomes, Reply(t, outcome)
      PROVE  [Bounds!Next]_Seens
  <2>1. at[t] # "waiting"
    BY <1>6 DEF Reply
  <2>2. CASE Keeps(t, outcome)
    <3>1. WakeOne(Moved(t, "done")) \/ WakeAll(Moved(t, "done"))
      BY <1>6, <2>2 DEF Reply, GiveBack, Clear
    <3> QED
      BY <1>l, <2>1, <3>1
  <2>3. CASE ~Keeps(t, outcome)
    <3>1. WakeOne(Moved(t, "closing"))
      BY <1>6, <2>3 DEF Reply, GiveBack
    <3> QED
      BY <1>l, <2>1, <3>1
  <2> QED
    BY <2>2, <2>3
<1>7. ASSUME NEW t \in Tickets, Settle(t) PROVE [Bounds!Next]_Seens
  <2>1. at[t] # "waiting" /\ (WakeAll(Moved(t, "done")) \/ at' = Moved(t, "done"))
    BY <1>7 DEF Settle, Clear
  <2> QED
    BY <1>l, <2>1
<1>8. ASSUME CheckAnswers PROVE [Bounds!Next]_Seens
  BY <1>8, <1>s DEF CheckAnswers
<1>9. ASSUME CheckFails PROVE [Bounds!Next]_Seens
  BY <1>9, <1>a, <1>s DEF CheckFails, Clear
<1>10. ASSUME NEW t \in Tickets, Cancel(t) PROVE [Bounds!Next]_Seens
  <2>1. CASE at[t] = "waiting"
    <3>1. at' = Moved(t, "leaving") /\ "leaving" \in Places
      BY <1>10, <2>1 DEF Cancel, Places
    <3>2. Wakes(Moved(t, "leaving"))
      BY <3>1 DEF Wakes
    <3> QED
      BY <1>t, <2>1, <3>1, <3>2, SeenStays, SeenIs
  <2>2. CASE at[t] # "waiting"
    BY <1>10, <1>s, <1>t, <2>2 DEF Cancel, Places
  <2> QED
    BY <2>1, <2>2
<1>11. ASSUME Close PROVE [Bounds!Next]_Seens
  BY <1>11, <1>a DEF Close
<1>12. CASE UNCHANGED vars
  BY <1>12, <1>s DEF vars
<1> QED
  BY <1>1, <1>2, <1>3, <1>4, <1>5, <1>6, <1>7, <1>8, <1>9, <1>10, <1>11, <1>12
  DEF Next, Progress, Stopped

(* The pool implements BoundedPool: with any number of commands and any limit, at    *)
(* most max_pool of them hold or open a connection, and checkout queues one only    *)
(* when that many do.                                                         *)
THEOREM PoolBounded == Spec => ImplementsBounded
<1>1. Init => Bounds!Init
  BY SeenIs DEF Init, Bounds!Init
<1>2. PoolInv /\ [Next]_vars => [Bounds!Next]_[t \in Tickets |-> Seen(at[t])]
  BY RefineStep DEF Seens
<1> QED
  BY <1>1, <1>2, PoolAlways, PTL DEF Spec, ImplementsBounded, Bounds!Spec

-----------------------------------------------------------------------------
(* SqlPool. *)

(* Who holds a resource or a place, when the callers are at these places. *)
Engaged == {"validating", "opening", "holding"}
(* The callers that count against the limit. *)
Busy(places) == {d \in Callers : places[d] \in Engaged}

(* One owner for every resource, when these are idle and the callers hold these. *)
Owned(holds, ids) ==
    /\ Once(ids)
    /\ \A c, d \in Callers : holds[c] # 0 /\ holds[c] = holds[d] => c = d
    /\ \A c \in Callers : holds[c] \notin Elements(ids)

(* What SqlInv needs beside itself to be inductive. *)
SqlInd == SqlInv /\ Once(queue)
-----------------------------------------------------------------------------
(* They are finitely many. *)
LEMMA BusyFinite ==
    ASSUME NEW places PROVE IsFiniteSet(Busy(places)) /\ Cardinality(Busy(places)) \in Nat
  BY SqlAssumption, FS_Subset, FS_CardinalityType DEF SqlAssumption, Busy

(* A caller that gets a place counts one more, and one that leaves it one less. *)
LEMMA BusyGain ==
    ASSUME NEW P, NEW Q, NEW c \in Callers, P[c] \notin Engaged, Q[c] \in Engaged,
           \A d \in Callers \ {c} : Q[d] \in Engaged <=> P[d] \in Engaged
    PROVE  Cardinality(Busy(Q)) = Cardinality(Busy(P)) + 1
<1>1. Busy(Q) = Busy(P) \cup {c} /\ c \notin Busy(P)
  BY DEF Busy
<1> QED
  BY <1>1, BusyFinite, FS_AddElement

(* A caller that moves among the busy, or among the others, does not change them. *)
LEMMA BusySame ==
    ASSUME NEW P, NEW Q, \A d \in Callers : Q[d] \in Engaged <=> P[d] \in Engaged
    PROVE  Cardinality(Busy(Q)) = Cardinality(Busy(P))
<1>1. Busy(Q) = Busy(P)
  BY DEF Busy
<1> QED
  BY <1>1

(* What lives is what is idle and what the busy have. *)
LEMMA LiveIs == Live = Len(spare) + Cardinality(Busy(caller))
  BY DEF Live, Busy, Are, Engaged

(* A sequence without repetition is as long as its elements are many. *)
LEMMA OnceCounts ==
    ASSUME NEW S, NEW s \in Seq(S), Once(s) PROVE Len(s) = Cardinality(Elements(s))
<1>0. DOMAIN s = 1 .. Len(s) /\ s \in [1 .. Len(s) -> S] /\ Len(s) \in Nat
  OBVIOUS
<1>1. s \in [1 .. Len(s) -> Elements(s)]
  BY <1>0 DEF Elements
<1>2. s \in Injection(1 .. Len(s), Elements(s))
  BY <1>0, <1>1 DEF Once, Injection, IsInjective
<1>3. s \in Surjection(1 .. Len(s), Elements(s))
  BY <1>0, <1>1 DEF Elements, Surjection
<1>4. ExistsBijection(1 .. Len(s), Elements(s))
  BY <1>2, <1>3 DEF Bijection, ExistsBijection
<1> QED
  BY <1>0, <1>4, FS_CountingElements

(* A resource taken out of the idle list, and one more queued. *)
LEMMA PoppedIs ==
    ASSUME NEW ids \in Seq(Resources), ids # <<>>, Once(ids)
    PROVE  /\ Len(ids) \in Nat \ {0} /\ ids[Len(ids)] \in Resources
           /\ Popped(ids) \in Seq(Resources) /\ Len(Popped(ids)) = Len(ids) - 1
           /\ Once(Popped(ids)) /\ Elements(Popped(ids)) \subseteq Elements(ids)
           /\ ids[Len(ids)] \in Elements(ids) \ Elements(Popped(ids))
<1>1. Len(ids) \in Nat \ {0} /\ Len(ids) \in DOMAIN ids /\ ids[Len(ids)] \in Resources
  OBVIOUS
<1> DEFINE w == SubSeq(ids, 1, Len(ids) - 1)
<1>2. /\ w \in Seq(Resources) /\ Len(w) = Len(ids) - 1
      /\ \A i \in 1 .. Len(ids) - 1 : w[i] = ids[i]
  <2>1. Len(ids) - 1 \in 0 .. Len(ids)
    BY <1>1
  <2> QED
    BY <2>1, Prefix
<1>3. DOMAIN w = 1 .. Len(ids) - 1
  BY <1>2
<1>4. Popped(ids) = w
  BY DEF Popped
<1> HIDE DEF w
<1> QED
  BY <1>1, <1>2, <1>3, <1>4 DEF Once, Elements

-----------------------------------------------------------------------------
(* acquire, for a caller that holds nothing and is in nobody's queue: what it looks *)
(* at need not be the pool's state of now, for _wake and a failed validation change *)
(* it first.  They must leave room: beside a waiter at most one idle resource, and  *)
(* at most one place free.                                                    *)
Looks(c, P, H, ids, q) ==
    /\ P \in [Callers -> SqlPlaces] /\ H \in [Callers -> {0} \cup Resources]
    /\ ids \in Seq(Resources) /\ q \in Seq(Callers)
    /\ P[c] \notin Engaged /\ H[c] = 0
    /\ \A d \in Callers \ {c} : H[d] # 0 <=> P[d] \in {"validating", "holding"}
    /\ Once(q) /\ Elements(q) = {d \in Callers \ {c} : P[d] = "waiting"}
    /\ Owned(H, ids)
    /\ q # <<>> => Len(ids) <= 1 /\ (Cardinality(Busy(P)) + 1 >= SqlMax \/ shut)
    /\ Len(ids) + Cardinality(Busy(P)) <= SqlMax \/ hidden
    /\ shut => ids = <<>>

(* Whatever acquire finds, an idle resource, room for one more, or a queue to join,*)
(* its caller is left where the invariant has it.                           *)
LEMMA LookKeeps ==
    ASSUME NEW c \in Callers, NEW P, NEW H, NEW ids, NEW q, Looks(c, P, H, ids, q),
           Look(c, P, H, ids, q), hidden \in BOOLEAN, shut \in BOOLEAN, shut' = shut
    PROVE  SqlInd'
<1> DEFINE size == Len(ids) + Cardinality({d \in Callers : P[d] \in {"opening", "holding"}})
           p == Goes(ids, size)
           n == Cardinality(Busy(P))
<1>0. /\ P \in [Callers -> SqlPlaces] /\ H \in [Callers -> {0} \cup Resources]
      /\ ids \in Seq(Resources) /\ q \in Seq(Callers)
      /\ P[c] \notin Engaged /\ H[c] = 0 /\ Once(q) /\ Once(ids) /\ c \notin Elements(q)
      /\ Elements(q) = {d \in Callers \ {c} : P[d] = "waiting"}
  BY DEF Looks, Owned
<1>1. /\ caller' = [P EXCEPT ![c] = p]
      /\ has' = [H EXCEPT ![c] = IF ids = <<>> THEN 0 ELSE ids[Len(ids)]]
      /\ spare' = Popped(ids) /\ queue' = IF p = "waiting" THEN Append(q, c) ELSE q
      /\ hidden' = (hidden \/ (p = "opening" /\ \E d \in Callers : P[d] = "validating"))
  BY DEF Look
<1>2. n \in Nat /\ Len(ids) \in Nat /\ SqlMax \in Nat \ {0} /\ size \in Nat
  <2>1. Cardinality({d \in Callers : P[d] \in {"opening", "holding"}}) \in Nat
    BY SqlAssumption, FS_Subset, FS_CardinalityType DEF SqlAssumption
  <2> QED
    BY <1>0, <2>1, BusyFinite, SqlAssumption DEF SqlAssumption
<1>3. /\ ids # <<>> => p = "validating"
      /\ ids = <<>> /\ size < SqlMax => p = "opening"
      /\ ids = <<>> /\ ~(size < SqlMax) => p = "waiting"
  BY DEF Goes
<1>b. Busy(caller)' = Busy(caller')
  BY DEF Busy
<1>4. p \in Engaged => Cardinality(Busy(caller')) = n + 1
  <2>1. ASSUME p \in Engaged PROVE Cardinality(Busy(caller')) = n + 1
    <3>1. caller'[c] \in Engaged /\ \A d \in Callers \ {c} : caller'[d] = P[d]
      BY <1>0, <1>1, <2>1
    <3>2. \A d \in Callers \ {c} : caller'[d] \in Engaged <=> P[d] \in Engaged
      BY <3>1
    <3>3. P[c] \notin Engaged /\ caller'[c] \in Engaged
      BY <1>0, <3>1
    <3> QED
      BY <3>2, <3>3, BusyGain
  <2> QED
    BY <2>1
<1>5. p = "waiting" => Cardinality(Busy(caller')) = n
  <2>1. ASSUME p = "waiting" PROVE Cardinality(Busy(caller')) = n
    <3>1. \A d \in Callers : caller'[d] \in Engaged <=> P[d] \in Engaged
      BY <1>0, <1>1, <2>1 DEF Engaged
    <3> QED
      BY <3>1, BusySame
  <2> QED
    BY <2>1
<1>6. Live' = Len(spare') + Cardinality(Busy(caller'))
  BY DEF Live, Busy, Are, Engaged
<1>7. size <= Len(ids) + n
  <2>1. {d \in Callers : P[d] \in {"opening", "holding"}} \in SUBSET Busy(P)
    BY DEF Busy, Engaged
  <2>2. Cardinality({d \in Callers : P[d] \in {"opening", "holding"}}) <= n
    BY <2>1, BusyFinite, FS_Subset
  <2>3. Cardinality({d \in Callers : P[d] \in {"opening", "holding"}}) \in Nat
    BY SqlAssumption, FS_Subset, FS_CardinalityType DEF SqlAssumption
  <2> QED
    BY <1>2, <2>2, <2>3
<1>8. (\A d \in Callers : P[d] # "validating") => size = Len(ids) + n
  <2>1. ASSUME \A d \in Callers : P[d] # "validating"
        PROVE  {d \in Callers : P[d] \in {"opening", "holding"}} = Busy(P)
    BY <2>1 DEF Busy, Engaged
  <2> QED
    BY <2>1
<1> HIDE DEF size, n, p
<1>p. p \in SqlPlaces /\ p \in {"validating", "opening", "waiting"}
  BY <1>3 DEF SqlPlaces
<1>9. /\ spare' \in Seq(Resources) /\ Once(spare')
      /\ ids = <<>> => spare' = <<>> /\ Len(spare') = 0
      /\ ids # <<>> => Len(spare') = Len(ids) - 1 /\ Len(ids) \in Nat \ {0}
  BY <1>0, <1>1, PoppedIs DEF Popped
<1>10. /\ caller' \in [Callers -> SqlPlaces] /\ has' \in [Callers -> {0} \cup Resources]
       /\ \A d \in Callers : has'[d] # 0 <=> caller'[d] \in {"validating", "holding"}
  <2>1. caller' \in [Callers -> SqlPlaces]
    BY <1>0, <1>1, <1>p
  <2>2. has' \in [Callers -> {0} \cup Resources]
    BY <1>0, <1>1, PoppedIs
  <2>3. has'[c] # 0 <=> caller'[c] \in {"validating", "holding"}
    BY <1>0, <1>1, <1>3, PoppedIs DEF Resources
  <2>4. \A d \in Callers \ {c} : has'[d] # 0 <=> caller'[d] \in {"validating", "holding"}
    BY <1>0, <1>1 DEF Looks
  <2> QED
    BY <2>1, <2>2, <2>3, <2>4
<1>11. queue' \in Seq(Callers) /\ Once(queue') /\ Elements(queue') = Are({"waiting"})'
  <2>1. CASE p = "waiting"
    <3>1. queue' = Append(q, c)
      BY <1>1, <2>1
    <3>2. queue' \in Seq(Callers) /\ Elements(queue') = Elements(q) \cup {c} /\ Once(queue')
      BY <1>0, <3>1, Appended
    <3> QED
      BY <1>0, <1>1, <2>1, <3>2 DEF Are
  <2>2. CASE p # "waiting"
    BY <1>0, <1>1, <2>2 DEF Are
  <2> QED
    BY <2>1, <2>2
<1>12. Len(queue') = Cardinality(Are({"waiting"})')
  <2>1. Len(queue') = Cardinality(Elements(queue'))
    BY <1>11, OnceCounts
  <2> QED
    BY <1>11, <2>1
<1>13. OneOwner'
  <2>1. \A d, e \in Callers : has'[d] # 0 /\ has'[d] = has'[e] => d = e
    <3>1. ASSUME NEW d \in Callers, has'[d] # 0, has'[d] = has'[c] PROVE d = c
      BY <1>0, <1>1, <3>1, PoppedIs DEF Looks, Owned
    <3> QED
      BY <1>0, <1>1, <3>1 DEF Looks, Owned
  <2>2. ASSUME NEW d \in Callers PROVE has'[d] \notin Elements(spare')
    <3>1. CASE ids = <<>>
      BY <1>9, <3>1 DEF Elements
    <3>2. CASE ids # <<>>
      BY <1>0, <1>1, <3>2, PoppedIs DEF Looks, Owned
    <3> QED
      BY <3>1, <3>2
  <2> QED
    BY <1>9, <2>1, <2>2 DEF OneOwner, Once, Elements
<1>14. WaitsOnlyWhenFull'
  <2> SUFFICES ASSUME queue' # <<>> PROVE spare' = <<>> /\ (Live' >= SqlMax \/ shut')
    BY DEF WaitsOnlyWhenFull
  <2>1. CASE p = "waiting"
    BY <1>2, <1>3, <1>5, <1>6, <1>7, <1>9, <2>1
  <2>2. CASE p # "waiting"
    <3>1. Len(ids) <= 1 /\ (n + 1 >= SqlMax \/ shut)
      BY <1>1, <2>2 DEF Looks, n
    <3>2. Cardinality(Busy(caller')) = n + 1
      BY <1>p, <1>4, <2>2 DEF Engaged
    <3>3. Len(spare') = 0
      BY <1>2, <1>9, <3>1
    <3>4. spare' = <<>>
      BY <1>9, <3>3
    <3> QED
      BY <1>2, <1>6, <3>1, <3>2, <3>3, <3>4
  <2> QED
    BY <2>1, <2>2
<1>15. ClosedDrains'
  BY <1>9 DEF ClosedDrains, Looks
<1>16. LimitUnlessHidden'
  <2>1. Len(ids) + n <= SqlMax \/ hidden
    BY DEF Looks, n
  <2>2. CASE hidden
    BY <1>1, <2>2 DEF LimitUnlessHidden
  <2>3. CASE p = "waiting"
    BY <1>2, <1>1, <1>3, <1>5, <1>6, <1>9, <2>1, <2>3 DEF LimitUnlessHidden
  <2>4. CASE p = "validating"
    BY <1>2, <1>1, <1>3, <1>4, <1>6, <1>9, <2>1, <2>4 DEF LimitUnlessHidden, Engaged
  <2>5. CASE p = "opening"
    <3>1. ids = <<>> /\ size < SqlMax
      BY <1>1, <1>3, <2>5
    <3>2. Live' = n + 1
      BY <1>2, <1>4, <1>6, <1>9, <2>5, <3>1 DEF Engaged
    <3>3. CASE \E d \in Callers : P[d] = "validating"
      BY <1>1, <2>5, <3>3 DEF LimitUnlessHidden
    <3>4. CASE \A d \in Callers : P[d] # "validating"
      <4>1. size = n
        BY <1>0, <1>2, <1>8, <3>1, <3>4
      <4> QED
        BY <1>2, <3>1, <3>2, <4>1 DEF LimitUnlessHidden
    <3> QED
      BY <3>3, <3>4
  <2> QED
    BY <1>p, <2>3, <2>4, <2>5
<1>17. hidden' \in BOOLEAN
  BY <1>1
<1> QED
  BY <1>9, <1>10, <1>11, <1>12, <1>13, <1>14, <1>15, <1>16, <1>17
  DEF SqlInd, SqlInv, SqlTypeOK

(* What a caller that leaves its place leaves: one place less, its resource nobody's. *)
LEMMA LeavesIs ==
    ASSUME SqlInd, NEW c \in Callers, caller[c] \in Engaged
    PROVE  /\ Out(c) \in [Callers -> SqlPlaces] /\ Empty(c) \in [Callers -> {0} \cup Resources]
           /\ \A d \in Callers : Empty(c)[d] # 0 <=> Out(c)[d] \in {"validating", "holding"}
           /\ Out(c)[c] = "out" /\ Empty(c)[c] = 0
           /\ \A d \in Callers \ {c} : Out(c)[d] = caller[d] /\ Empty(c)[d] = has[d]
           /\ \A d \in Callers : Out(c)[d] = "waiting" <=> caller[d] = "waiting"
           /\ Cardinality(Busy(caller)) = Cardinality(Busy(Out(c))) + 1
           /\ Owned(Empty(c), spare)
           /\ caller[c] = "holding" => Owned(Empty(c), Append(spare, has[c]))
<1> USE DEF SqlInd, SqlInv, SqlTypeOK
<1>1. /\ Out(c) \in [Callers -> SqlPlaces] /\ Empty(c) \in [Callers -> {0} \cup Resources]
      /\ Out(c)[c] = "out" /\ Empty(c)[c] = 0
      /\ \A d \in Callers \ {c} : Out(c)[d] = caller[d] /\ Empty(c)[d] = has[d]
  BY DEF Out, Empty, SqlPlaces
<1>2. \A d \in Callers : Empty(c)[d] # 0 <=> Out(c)[d] \in {"validating", "holding"}
  BY <1>1
<1>3. \A d \in Callers : Out(c)[d] = "waiting" <=> caller[d] = "waiting"
  BY <1>1 DEF Engaged
<1>4. Cardinality(Busy(caller)) = Cardinality(Busy(Out(c))) + 1
  <2>1. Out(c)[c] \notin Engaged
    BY <1>1 DEF Engaged
  <2>2. \A d \in Callers \ {c} : caller[d] \in Engaged <=> Out(c)[d] \in Engaged
    BY <1>1
  <2> QED
    BY <2>1, <2>2, BusyGain
<1>5. 0 \notin Elements(spare) /\ spare \in Seq(Resources)
  <2>1. spare \in Seq(Resources)
    OBVIOUS
  <2>2. \A i \in DOMAIN spare : spare[i] \in Resources
    BY <2>1
  <2>3. 0 \notin Resources
    BY DEF Resources
  <2> QED
    BY <2>1, <2>2, <2>3 DEF Elements
<1>6. Owned(Empty(c), spare)
  BY <1>1, <1>5 DEF Owned, OneOwner, Once
<1>7. ASSUME caller[c] = "holding" PROVE Owned(Empty(c), Append(spare, has[c]))
  <2>1. has[c] \in Resources /\ has[c] # 0
    BY <1>7
  <2>2. has[c] \notin Elements(spare) /\ Once(spare)
    BY DEF OneOwner, Once
  <2>3. Elements(Append(spare, has[c])) = Elements(spare) \cup {has[c]} /\ Once(Append(spare, has[c]))
    BY <1>5, <2>1, <2>2, Appended
  <2>4. \A d \in Callers \ {c} : has[d] # has[c]
    BY <2>1 DEF OneOwner
  <2> QED
    BY <1>1, <1>5, <1>6, <2>1, <2>3, <2>4 DEF Owned
<1> QED
  BY <1>1, <1>2, <1>3, <1>4, <1>6, <1>7

(* _wake keeps the pool as it should be, whether somebody waits or not. *)
LEMMA WakeKeeps ==
    ASSUME SqlInd, NEW c \in Callers, caller[c] \in {"opening", "holding"}, NEW ids,
           ids = spare \/ (caller[c] = "holding" /\ ~shut /\ ids = Append(spare, has[c])),
           Wake(c, ids), shut' = shut
    PROVE  SqlInd'
<1>0. /\ caller \in [Callers -> SqlPlaces] /\ has \in [Callers -> {0} \cup Resources]
      /\ spare \in Seq(Resources) /\ queue \in Seq(Callers)
      /\ shut \in BOOLEAN /\ hidden \in BOOLEAN
      /\ Elements(queue) = Are({"waiting"}) /\ Once(queue)
      /\ \A d \in Callers : has[d] # 0 <=> caller[d] \in {"validating", "holding"}
  BY DEF SqlInd, SqlInv, SqlTypeOK
<1> DEFINE P == Out(c)
           H == Empty(c)
           n == Cardinality(Busy(P))
<1>1. /\ P \in [Callers -> SqlPlaces] /\ H \in [Callers -> {0} \cup Resources]
      /\ \A d \in Callers : H[d] # 0 <=> P[d] \in {"validating", "holding"}
      /\ P[c] = "out" /\ H[c] = 0
      /\ \A d \in Callers \ {c} : P[d] = caller[d] /\ H[d] = has[d]
      /\ \A d \in Callers : P[d] = "waiting" <=> caller[d] = "waiting"
      /\ Cardinality(Busy(caller)) = n + 1
      /\ Owned(H, ids)
  <2>1. caller[c] \in Engaged
    BY DEF Engaged
  <2>2. Owned(H, ids)
    <3>1. CASE ids = spare
      BY <2>1, <3>1, LeavesIs
    <3>2. CASE caller[c] = "holding" /\ ids = Append(spare, has[c])
      BY <2>1, <3>2, LeavesIs
    <3> QED
      BY <3>1, <3>2
  <2> QED
    BY <2>1, <2>2, LeavesIs
<1>2. /\ n \in Nat /\ Live = Len(spare) + n + 1 /\ SqlMax \in Nat \ {0}
      /\ Len(spare) \in Nat
  BY <1>0, <1>1, LiveIs, BusyFinite, SqlAssumption DEF SqlAssumption
<1>3. /\ ids \in Seq(Resources) /\ Len(ids) \in Nat /\ Len(ids) <= Len(spare) + 1
      /\ shut => ids = <<>> /\ spare = <<>>
  <2>1. caller[c] = "holding" => has[c] \in Resources
    BY <1>0
  <2> QED
    BY <1>0, <2>1 DEF SqlInd, SqlInv, ClosedDrains
<1>4. Len(ids) + n <= SqlMax \/ hidden
  BY <1>2, <1>3 DEF SqlInd, SqlInv, LimitUnlessHidden
<1>5. queue # <<>> => spare = <<>> /\ Len(spare) = 0 /\ (n + 1 >= SqlMax \/ shut)
  BY <1>2 DEF SqlInd, SqlInv, WaitsOnlyWhenFull
<1>6. Busy(caller)' = Busy(caller') /\ Live' = Len(spare') + Cardinality(Busy(caller'))
  BY DEF Busy, Live, Are, Engaged
<1>7. CASE queue = <<>>
  <2>1. caller' = P /\ has' = H /\ spare' = ids /\ queue' = queue /\ hidden' = hidden
    BY <1>7 DEF Wake
  <2>2. Elements(queue)' = Are({"waiting"})' /\ Len(queue') = Cardinality(Are({"waiting"})')
    <3>1. Are({"waiting"})' = Are({"waiting"})
      BY <1>1, <2>1 DEF Are
    <3> QED
      BY <2>1, <3>1 DEF SqlInd, SqlInv, SqlTypeOK, Elements
  <2>3. LimitUnlessHidden'
    BY <1>2, <1>3, <1>4, <1>6, <2>1 DEF LimitUnlessHidden
  <2>4. OneOwner'
    BY <1>1, <2>1 DEF OneOwner, Owned, Once, Elements
  <2>5. SqlTypeOK'
    BY <1>0, <1>1, <1>3, <2>1, <2>2 DEF SqlTypeOK
  <2> QED
    BY <1>0, <1>3, <1>7, <2>1, <2>3, <2>4, <2>5
    DEF SqlInd, SqlInv, WaitsOnlyWhenFull, ClosedDrains, Once
<1> DEFINE h == Head(queue)
<1>8. ASSUME queue # <<>>
      PROVE  /\ h \in Callers /\ h \in Elements(queue) /\ caller[h] = "waiting" /\ h # c
             /\ P[h] = "waiting" /\ H[h] = 0
             /\ Tail(queue) \in Seq(Callers) /\ Once(Tail(queue))
             /\ Elements(Tail(queue)) = Elements(queue) \ {h}
  <2>1. /\ h \in Callers /\ h \in Elements(queue)
        /\ Tail(queue) \in Seq(Callers) /\ Once(Tail(queue))
        /\ Elements(Tail(queue)) = Elements(queue) \ {h}
    BY <1>0, <1>8, Tails
  <2>2. caller[h] = "waiting" /\ h # c
    BY <1>0, <2>1 DEF Are
  <2> QED
    BY <1>1, <2>1, <2>2
<1> HIDE DEF h, n, P, H
<1>9. CASE queue # <<>> /\ shut
  <2>1. caller' = [P EXCEPT ![h] = "out"] /\ has' = H /\ spare' = ids /\ queue' = Tail(queue)
        /\ hidden' = hidden
    BY <1>9 DEF Wake, P, H, h
  <2>2. /\ caller' \in [Callers -> SqlPlaces]
        /\ \A d \in Callers : has'[d] # 0 <=> caller'[d] \in {"validating", "holding"}
    BY <1>1, <1>8, <1>9, <2>1 DEF SqlPlaces
  <2>3. Elements(queue') = Are({"waiting"})'
    BY <1>0, <1>1, <1>8, <1>9, <2>1 DEF Are
  <2>4. Len(queue') = Cardinality(Are({"waiting"})')
    <3>1. Len(queue') = Cardinality(Elements(queue'))
      BY <1>8, <1>9, <2>1, OnceCounts
    <3> QED
      BY <2>3, <3>1
  <2>5. OneOwner'
    BY <1>1, <2>1 DEF OneOwner, Owned, Once, Elements
  <2>6. Cardinality(Busy(caller')) = n
    <3>1. \A d \in Callers : caller'[d] \in Engaged <=> P[d] \in Engaged
      BY <1>1, <1>8, <1>9, <2>1 DEF Engaged
    <3> QED
      BY <3>1, BusySame DEF n
  <2>7. LimitUnlessHidden'
    BY <1>2, <1>4, <1>6, <2>1, <2>6 DEF LimitUnlessHidden
  <2>8. SqlTypeOK'
    BY <1>0, <1>1, <1>3, <1>8, <1>9, <2>1, <2>2, <2>3, <2>4 DEF SqlTypeOK, Elements
  <2> QED
    BY <1>3, <1>8, <1>9, <2>1, <2>5, <2>7, <2>8
    DEF SqlInd, SqlInv, WaitsOnlyWhenFull, ClosedDrains
<1>10. CASE queue # <<>> /\ ~shut
  <2>1. Look(h, P, H, ids, Tail(queue))
    BY <1>10 DEF Wake, P, H, h
  <2>2. Looks(h, P, H, ids, Tail(queue))
    <3>1. Elements(Tail(queue)) = {d \in Callers \ {h} : P[d] = "waiting"}
      BY <1>0, <1>1, <1>8, <1>10 DEF Are
    <3>2. Len(ids) <= 1 /\ (n + 1 >= SqlMax \/ shut)
      BY <1>3, <1>5, <1>10
    <3> QED
      BY <1>0, <1>1, <1>3, <1>4, <1>8, <1>10, <3>1, <3>2 DEF Looks, Engaged, n
  <2> QED
    BY <1>0, <1>8, <1>10, <2>1, <2>2, LookKeeps
<1> QED
  BY <1>7, <1>9, <1>10, <1>0
-----------------------------------------------------------------------------
(* The sweep leaves the newest of the idle resources. *)
LEMMA SweptIs ==
    ASSUME NEW s \in Seq(Resources), NEW k \in 0 .. Len(s), Once(s)
    PROVE  LET w == SubSeq(s, k + 1, Len(s)) IN
             /\ w \in Seq(Resources) /\ Len(w) = Len(s) - k /\ Len(s) \in Nat /\ k \in Nat
             /\ Once(w) /\ Elements(w) \subseteq Elements(s)
<1> DEFINE w == SubSeq(s, k + 1, Len(s))
<1>1. k \in Nat /\ Len(s) \in Nat /\ k <= Len(s) /\ DOMAIN s = 1 .. Len(s)
  OBVIOUS
<1>2. /\ w \in Seq(Resources) /\ Len(w) = Len(s) - k
      /\ \A i \in 1 .. Len(s) - k : w[i] = s[i + k]
  BY Suffix
<1>3. DOMAIN w = 1 .. Len(s) - k
  BY <1>2
<1> HIDE DEF w
<1>4. \A i \in DOMAIN w : i \in Nat /\ i + k \in DOMAIN s /\ w[i] = s[i + k]
  BY <1>1, <1>2, <1>3
<1>5. Once(w)
  BY <1>1, <1>4 DEF Once
<1>6. Elements(w) \subseteq Elements(s)
  BY <1>4 DEF Elements
<1> QED
  BY <1>1, <1>2, <1>5, <1>6 DEF w

(* What a sequence keeps when one element leaves it. *)
LEMMA SplicedIs ==
    ASSUME queue \in Seq(Callers), Once(queue), NEW c \in Callers
    PROVE  /\ Spliced(c) \in Seq(Callers) /\ Once(Spliced(c))
           /\ Elements(Spliced(c)) = Elements(queue) \ {c}
           /\ queue = <<>> => Spliced(c) = <<>>
<1>1. CASE c \notin Elements(queue)
  BY <1>1 DEF Spliced
<1>2. CASE c \in Elements(queue)
  <2> DEFINE p == CHOOSE i \in DOMAIN queue : queue[i] = c
             w == Spliced(c)
             from(i) == IF i < p THEN i ELSE i + 1
  <2>1. p \in DOMAIN queue /\ queue[p] = c
    BY <1>2 DEF Elements
  <2>2. w = SubSeq(queue, 1, p - 1) \o SubSeq(queue, p + 1, Len(queue))
    BY <1>2 DEF Spliced
  <2> HIDE DEF p, w
  <2>3. p \in 1 .. Len(queue) /\ p \in Nat /\ Len(queue) \in Nat
    BY <2>1
  <2>4. /\ w \in Seq(Callers) /\ Len(w) = Len(queue) - 1
        /\ \A i \in 1 .. Len(queue) - 1 : w[i] = queue[IF i < p THEN i ELSE i + 1]
    BY <2>2, <2>3, CutOut
  <2>5. DOMAIN w = 1 .. Len(queue) - 1 /\ DOMAIN queue = 1 .. Len(queue)
    BY <2>4
  <2>6. \A i \in DOMAIN w : from(i) \in DOMAIN queue /\ from(i) # p /\ w[i] = queue[from(i)]
    BY <2>3, <2>4, <2>5
  <2>7. \A i, j \in DOMAIN w : from(i) = from(j) => i = j
    BY <2>3, <2>5
  <2>8. \A k \in DOMAIN queue : k # p => \E i \in DOMAIN w : from(i) = k
    <3> SUFFICES ASSUME NEW k \in DOMAIN queue, k # p PROVE \E i \in DOMAIN w : from(i) = k
      OBVIOUS
    <3>1. CASE k < p
      BY <2>3, <2>5, <3>1
    <3>2. CASE k > p
      <4>1. k - 1 \in DOMAIN w /\ from(k - 1) = k
        BY <2>3, <2>5, <3>2
      <4> QED
        BY <4>1
    <3> QED
      BY <2>3, <2>5, <3>1, <3>2
  <2> HIDE DEF from
  <2>9. Once(w)
    BY <2>6, <2>7 DEF Once
  <2>10. \A k \in DOMAIN queue : k # p => queue[k] # c
    BY <2>1 DEF Once
  <2>11. Elements(w) = Elements(queue) \ {c}
    <3>1. ASSUME NEW x \in Elements(w) PROVE x \in Elements(queue) \ {c}
      BY <3>1, <2>6, <2>10 DEF Elements
    <3>2. ASSUME NEW x \in Elements(queue) \ {c} PROVE x \in Elements(w)
      <4>1. PICK k \in DOMAIN queue : queue[k] = x /\ k # p
        BY <2>1, <3>2 DEF Elements
      <4>2. PICK i \in DOMAIN w : from(i) = k
        BY <2>8, <4>1
      <4> QED
        BY <2>6, <4>1, <4>2 DEF Elements
    <3> QED
      BY <3>1, <3>2
  <2>12. queue # <<>>
    BY <2>1
  <2> QED
    BY <2>4, <2>9, <2>11, <2>12 DEF w
<1> QED
  BY <1>1, <1>2

(* A caller whose place changes, and nothing else but what it holds. *)
LEMMA SqlStep == SqlInd /\ [SqlNext]_sqlVars => SqlInd'
<1> SUFFICES ASSUME SqlInd, [SqlNext]_sqlVars PROVE SqlInd'
  OBVIOUS
<1>0. /\ caller \in [Callers -> SqlPlaces] /\ has \in [Callers -> {0} \cup Resources]
      /\ spare \in Seq(Resources) /\ queue \in Seq(Callers)
      /\ shut \in BOOLEAN /\ hidden \in BOOLEAN
      /\ Elements(queue) = Are({"waiting"}) /\ Once(queue)
      /\ \A d \in Callers : has[d] # 0 <=> caller[d] \in {"validating", "holding"}
      /\ Once(spare) /\ Owned(has, spare)
  BY DEF SqlInd, SqlInv, SqlTypeOK, OneOwner, Owned, Once
<1>n. /\ Cardinality(Busy(caller)) \in Nat /\ Len(spare) \in Nat /\ SqlMax \in Nat \ {0}
      /\ Live = Len(spare) + Cardinality(Busy(caller))
      /\ Live' = Len(spare') + Cardinality(Busy(caller'))
      /\ Busy(caller)' = Busy(caller')
  <2>1. Cardinality(Busy(caller)) \in Nat
    BY BusyFinite
  <2>2. SqlMax \in Nat \ {0} /\ Len(spare) \in Nat
    BY <1>0, SqlAssumption DEF SqlAssumption
  <2>3. Live' = Len(spare') + Cardinality(Busy(caller'))
    BY DEF Live, Busy, Are, Engaged
  <2> QED
    BY <2>1, <2>2, <2>3, LiveIs DEF Busy
<1>1. ASSUME NEW c \in Callers, NEW k \in 0 .. Len(spare), Acquire(c, k) PROVE SqlInd'
  <2> DEFINE ids == SubSeq(spare, k + 1, Len(spare))
  <2>1. /\ ids \in Seq(Resources) /\ Len(ids) = Len(spare) - k /\ k \in Nat
        /\ Once(ids) /\ Elements(ids) \subseteq Elements(spare)
    BY <1>0, SweptIs
  <2>2. /\ caller[c] = "out" /\ ~shut /\ Look(c, caller, has, ids, queue) /\ shut' = shut
    BY <1>1 DEF Acquire
  <2> HIDE DEF ids
  <2>3. Owned(has, ids)
    BY <1>0, <2>1 DEF Owned
  <2>4. queue # <<>> => Len(ids) <= 1 /\ (Cardinality(Busy(caller)) + 1 >= SqlMax \/ shut)
    <3>1. ASSUME queue # <<>> PROVE Len(spare) = 0 /\ (Live >= SqlMax \/ shut)
      BY <3>1 DEF SqlInd, SqlInv, WaitsOnlyWhenFull
    <3> QED
      BY <1>n, <2>1, <3>1
  <2>5. Len(ids) + Cardinality(Busy(caller)) <= SqlMax \/ hidden
    BY <1>n, <2>1 DEF SqlInd, SqlInv, LimitUnlessHidden
  <2>6. Elements(queue) = {d \in Callers \ {c} : caller[d] = "waiting"}
    BY <1>0, <2>2 DEF Are
  <2>7. Looks(c, caller, has, ids, queue)
    BY <1>0, <2>1, <2>2, <2>3, <2>4, <2>5, <2>6 DEF Looks, Engaged
  <2> QED
    BY <1>0, <2>2, <2>7, LookKeeps
<1>2. ASSUME NEW c \in Callers, Invalid(c) PROVE SqlInd'
  <2> DEFINE P == Out(c)
             H == Empty(c)
  <2>0. caller[c] \in Engaged
    BY <1>2 DEF Invalid, Engaged
  <2>1. /\ P \in [Callers -> SqlPlaces] /\ H \in [Callers -> {0} \cup Resources]
        /\ \A d \in Callers : H[d] # 0 <=> P[d] \in {"validating", "holding"}
        /\ P[c] = "out" /\ H[c] = 0
        /\ \A d \in Callers : P[d] = "waiting" <=> caller[d] = "waiting"
        /\ Cardinality(Busy(caller)) = Cardinality(Busy(P)) + 1
        /\ Owned(H, spare)
    BY <2>0, LeavesIs
  <2>2. Look(c, P, H, spare, queue) /\ shut' = shut
    BY <1>2 DEF Invalid
  <2> HIDE DEF P, H
  <2>b. Cardinality(Busy(P)) \in Nat
    BY BusyFinite
  <2>3. queue # <<>> => Len(spare) <= 1 /\ (Cardinality(Busy(P)) + 1 >= SqlMax \/ shut)
    <3>1. ASSUME queue # <<>> PROVE Len(spare) = 0 /\ (Live >= SqlMax \/ shut)
      BY <3>1 DEF SqlInd, SqlInv, WaitsOnlyWhenFull
    <3> QED
      BY <1>n, <2>1, <3>1
  <2>4. Len(spare) + Cardinality(Busy(P)) <= SqlMax \/ hidden
    BY <1>n, <2>b, <2>1 DEF SqlInd, SqlInv, LimitUnlessHidden
  <2>5. Elements(queue) = {d \in Callers \ {c} : P[d] = "waiting"}
    BY <1>0, <2>1 DEF Are
  <2>6. Looks(c, P, H, spare, queue)
    BY <1>0, <2>1, <2>3, <2>4, <2>5 DEF Looks, Engaged, SqlInd, SqlInv, ClosedDrains
  <2> QED
    BY <1>0, <2>2, <2>6, LookKeeps
<1>w. ASSUME NEW c \in Callers, caller[c] \in Engaged, caller'[c] \in Engaged,
             \A d \in Callers \ {c} : caller'[d] = caller[d]
      PROVE  /\ Are({"waiting"})' = Are({"waiting"})
             /\ Cardinality(Busy(caller')) = Cardinality(Busy(caller))
  <2>1. \A d \in Callers : caller'[d] \in Engaged <=> caller[d] \in Engaged
    BY <1>w
  <2>2. \A d \in Callers : caller'[d] = "waiting" <=> caller[d] = "waiting"
    BY <1>w DEF Engaged
  <2> QED
    BY <2>1, <2>2, BusySame DEF Are
<1>3. ASSUME NEW c \in Callers, Valid(c) PROVE SqlInd'
  <2>1. /\ caller[c] = "validating" /\ caller' = [caller EXCEPT ![c] = "holding"]
        /\ UNCHANGED <<has, spare, queue, shut, hidden>>
    BY <1>3 DEF Valid
  <2>2. /\ Are({"waiting"})' = Are({"waiting"})
        /\ Cardinality(Busy(caller')) = Cardinality(Busy(caller))
    BY <1>0, <1>w, <2>1 DEF Engaged
  <2>3. caller' \in [Callers -> SqlPlaces]
    BY <1>0, <2>1 DEF SqlPlaces
  <2>4. \A d \in Callers : has'[d] # 0 <=> caller'[d] \in {"validating", "holding"}
    BY <1>0, <2>1
  <2>5. SqlTypeOK'
    BY <2>1, <2>2, <2>3, <2>4 DEF SqlInd, SqlInv, SqlTypeOK, Elements
  <2>6. Live' = Live
    BY <1>n, <2>1, <2>2
  <2> QED
    BY <2>1, <2>5, <2>6
    DEF SqlInd, SqlInv, OneOwner, WaitsOnlyWhenFull, ClosedDrains, LimitUnlessHidden, Once, Elements
<1>4. ASSUME NEW c \in Callers, Created(c) PROVE SqlInd'
  <2>1. PICK r \in Resources \ (Elements(spare) \cup {has[d] : d \in Callers}) :
            has' = [has EXCEPT ![c] = r]
    BY <1>4 DEF Created
  <2>2. /\ caller[c] = "opening" /\ caller' = [caller EXCEPT ![c] = "holding"]
        /\ UNCHANGED <<spare, queue, shut, hidden>>
    BY <1>4 DEF Created
  <2>3. /\ Are({"waiting"})' = Are({"waiting"})
        /\ Cardinality(Busy(caller')) = Cardinality(Busy(caller))
    BY <1>0, <1>w, <2>2 DEF Engaged
  <2>4. r # 0 /\ r \in Resources /\ \A d \in Callers : has[d] # r
    BY <2>1 DEF Resources
  <2>5. caller' \in [Callers -> SqlPlaces] /\ has' \in [Callers -> {0} \cup Resources]
    BY <1>0, <2>1, <2>2 DEF SqlPlaces
  <2>6. \A d \in Callers : has'[d] # 0 <=> caller'[d] \in {"validating", "holding"}
    BY <1>0, <2>1, <2>2, <2>4
  <2>7. SqlTypeOK'
    BY <2>2, <2>3, <2>5, <2>6 DEF SqlInd, SqlInv, SqlTypeOK, Elements
  <2>8. OneOwner'
    <3>1. \A d, e \in Callers : has'[d] # 0 /\ has'[d] = has'[e] => d = e
      BY <1>0, <2>1, <2>4 DEF Owned
    <3>2. \A d \in Callers : has'[d] \notin Elements(spare)
      BY <1>0, <2>1 DEF Owned
    <3> QED
      BY <1>0, <2>2, <3>1, <3>2 DEF OneOwner, Once, Elements
  <2>9. Live' = Live
    BY <1>n, <2>2, <2>3
  <2> QED
    BY <2>2, <2>7, <2>8, <2>9
    DEF SqlInd, SqlInv, WaitsOnlyWhenFull, ClosedDrains, LimitUnlessHidden, Once, Elements
<1>5. ASSUME NEW c \in Callers, CreateFails(c) PROVE SqlInd'
  BY <1>5, WakeKeeps DEF CreateFails
<1>6. ASSUME NEW c \in Callers, NEW clean \in BOOLEAN, Release(c, clean) PROVE SqlInd'
  <2>1. CASE clean /\ ~shut
    BY <1>6, <2>1, WakeKeeps DEF Release
  <2>2. CASE ~(clean /\ ~shut)
    BY <1>6, <2>2, WakeKeeps DEF Release
  <2> QED
    BY <2>1, <2>2
<1>7. ASSUME NEW c \in Callers, Timeout(c) PROVE SqlInd'
  <2>1. /\ caller[c] = "waiting" /\ caller' = [caller EXCEPT ![c] = "out"]
        /\ queue' = Spliced(c) /\ UNCHANGED <<has, spare, shut, hidden>>
    BY <1>7 DEF Timeout, Out
  <2>2. /\ queue' \in Seq(Callers) /\ Once(queue') /\ Elements(queue') = Elements(queue) \ {c}
        /\ queue = <<>> => queue' = <<>>
    BY <1>0, <2>1, SplicedIs
  <2>3. Elements(queue') = Are({"waiting"})'
    BY <1>0, <2>1, <2>2 DEF Are
  <2>4. Len(queue') = Cardinality(Are({"waiting"})')
    BY <2>2, <2>3, OnceCounts
  <2>5. Cardinality(Busy(caller')) = Cardinality(Busy(caller))
    <3>1. \A d \in Callers : caller'[d] \in Engaged <=> caller[d] \in Engaged
      BY <1>0, <2>1 DEF Engaged
    <3> QED
      BY <3>1, BusySame
  <2>6. Live' = Live
    BY <1>n, <2>1, <2>5
  <2>7. /\ caller' \in [Callers -> SqlPlaces]
        /\ \A d \in Callers : has'[d] # 0 <=> caller'[d] \in {"validating", "holding"}
    BY <1>0, <2>1 DEF SqlPlaces
  <2>8. SqlTypeOK'
    BY <1>0, <2>1, <2>2, <2>3, <2>4, <2>7 DEF SqlTypeOK, Elements
  <2> QED
    BY <2>1, <2>2, <2>6, <2>8
    DEF SqlInd, SqlInv, OneOwner, WaitsOnlyWhenFull, ClosedDrains, LimitUnlessHidden, Elements
<1>8. ASSUME SqlClose PROVE SqlInd'
  <2>1. /\ shut' = TRUE /\ spare' = <<>> /\ queue' = <<>>
        /\ caller' = [d \in Callers |-> IF caller[d] = "waiting" THEN "out" ELSE caller[d]]
        /\ UNCHANGED <<has, hidden>>
    BY <1>8 DEF SqlClose
  <2>2. Are({"waiting"})' = {}
    BY <2>1 DEF Are
  <2>3. Len(queue') = Cardinality(Are({"waiting"})') /\ Elements(queue') = {} /\ Once(queue')
        /\ Once(spare') /\ Elements(spare') = {} /\ Len(spare') = 0
    BY <2>1, <2>2, FS_EmptySet DEF Elements, Once
  <2>4. /\ caller' \in [Callers -> SqlPlaces]
        /\ \A d \in Callers : has'[d] # 0 <=> caller'[d] \in {"validating", "holding"}
    BY <1>0, <2>1 DEF SqlPlaces
  <2>5. SqlTypeOK'
    BY <1>0, <2>1, <2>2, <2>3, <2>4 DEF SqlTypeOK, Elements
  <2>6. Cardinality(Busy(caller')) = Cardinality(Busy(caller))
    <3>1. \A d \in Callers : caller'[d] \in Engaged <=> caller[d] \in Engaged
      BY <1>0, <2>1 DEF Engaged
    <3> QED
      BY <3>1, BusySame
  <2>7. LimitUnlessHidden'
    BY <1>n, <2>1, <2>3, <2>6 DEF SqlInd, SqlInv, LimitUnlessHidden
  <2>8. OneOwner'
    BY <1>0, <2>1, <2>3 DEF OneOwner, Owned, Once, Elements
  <2> QED
    BY <2>1, <2>3, <2>5, <2>7, <2>8
    DEF SqlInd, SqlInv, WaitsOnlyWhenFull, ClosedDrains
<1>9. CASE UNCHANGED sqlVars
  <2>1. UNCHANGED <<Are({"waiting"}), Live>>
    BY <1>9 DEF sqlVars, Are, Live
  <2> QED
    BY <1>9, <2>1 DEF sqlVars, SqlInd, SqlInv, SqlTypeOK, OneOwner, WaitsOnlyWhenFull,
                      ClosedDrains, LimitUnlessHidden, Once, Elements
<1> QED
  BY <1>1, <1>2, <1>3, <1>4, <1>5, <1>6, <1>7, <1>8, <1>9
  DEF SqlNext, SqlProgress, AcquireRefused

(* At first the pool is empty and nobody waits. *)
LEMMA SqlStarts == SqlInit => SqlInd
<1> SUFFICES ASSUME SqlInit PROVE SqlInd
  OBVIOUS
<1>1. Are({"waiting"}) = {} /\ Busy(caller) = {}
  BY DEF SqlInit, Are, Busy, Engaged
<1>2. Cardinality(Are({"waiting"})) = 0 /\ Live = 0
  <2>1. Cardinality(Are({"waiting"})) = 0 /\ Cardinality(Busy(caller)) = 0
    BY <1>1, FS_EmptySet
  <2>2. Live = Len(spare) + Cardinality(Busy(caller)) /\ Len(spare) = 0
    BY LiveIs DEF SqlInit
  <2> QED
    BY <2>1, <2>2
<1>3. SqlTypeOK
  <2>1. caller \in [Callers -> SqlPlaces] /\ has \in [Callers -> {0} \cup Resources]
    BY DEF SqlInit, SqlPlaces
  <2>2. spare \in Seq(Resources) /\ queue \in Seq(Callers) /\ Len(queue) = 0
    BY DEF SqlInit
  <2>3. Elements(queue) = {}
    BY DEF SqlInit, Elements
  <2>4. \A d \in Callers : has[d] # 0 <=> caller[d] \in {"validating", "holding"}
    BY DEF SqlInit
  <2> QED
    BY <1>1, <1>2, <2>1, <2>2, <2>3, <2>4 DEF SqlInit, SqlTypeOK
<1> QED
  BY <1>2, <1>3, SqlAssumption DEF SqlAssumption, SqlInit, SqlInd, SqlInv, OneOwner,
     WaitsOnlyWhenFull, ClosedDrains, LimitUnlessHidden, Once, Elements

(* For any callers, limits, and failures to open or to validate: nobody has another's  *)
(* resource or one that is idle; nobody waits beside a resource or a place that is      *)
(* free, so no wakeup is lost, whatever times out; a closed pool keeps nothing; and     *)
(* the pool goes over its maximum only past a validation.                            *)
THEOREM SqlPoolKeeps == SqlSpec => []SqlInv
<1>1. SqlSpec => []SqlInd
  BY SqlStarts, SqlStep, PTL DEF SqlSpec
<1>2. SqlInd => SqlInv
  BY DEF SqlInd
<1> QED
  BY <1>1, <1>2, PTL

-----------------------------------------------------------------------------
(* WorkerThreads. *)

(* What AgentInv needs beside itself to be inductive: an agent is in no list but that  *)
(* of the one that started it, and one that was not started is in none and has none.    *)
AgentInd ==
    /\ AgentInv
    /\ \A p, a \in Agents : a \in children[p] => parent[a] = p /\ stage[a] # "none"
    /\ \A a \in Agents : parent[a] # a /\ (stage[a] = "none" => children[a] = {})
-----------------------------------------------------------------------------
(* A subtree holds its root, is closed under the lists of entries, and its other        *)
(* members' parents are in it.                                                    *)
LEMMA SubtreeIs ==
    ASSUME NEW a \in registry
    PROVE  /\ a \in Subtree(a) /\ Subtree(a) \subseteq registry
           /\ \A y \in Subtree(a) : children[y] \cap registry \subseteq Subtree(a)
<1>1. a \in Subtree(a)
  BY DEF Subtree
<1>2. Subtree(a) \subseteq registry
  BY DEF Subtree
<1>3. ASSUME NEW y \in Subtree(a), NEW z \in children[y] \cap registry PROVE z \in Subtree(a)
  <2> SUFFICES ASSUME NEW S \in SUBSET registry, a \in S,
                      \A x \in S : children[x] \cap registry \subseteq S
               PROVE  z \in S
    BY DEF Subtree
  <2>1. y \in S
    BY DEF Subtree
  <2> QED
    BY <2>1, <1>3
<1> QED
  BY <1>1, <1>2, <1>3

(* Everyone below p has a parent at p or below it. *)
LEMMA SubtreeParents ==
    ASSUME AgentInd, NEW a \in registry, NEW x \in Subtree(a), x # a,
           NEW p \in registry, x \in children[p]
    PROVE  p \in Subtree(a)
<1> SUFFICES ASSUME p \notin Subtree(a) PROVE FALSE
  OBVIOUS
<1> DEFINE S == Subtree(a) \ {x}
<1>1. registry \subseteq Agents /\ Subtree(a) \subseteq registry /\ a \in S
  BY SubtreeIs DEF AgentInd, AgentInv, AgentTypeOK
<1>2. \A y \in S : x \notin children[y]
  BY <1>1 DEF AgentInd
<1>3. \A y \in S : children[y] \cap registry \subseteq S
  BY <1>2, SubtreeIs
<1>4. S \in SUBSET registry
  BY <1>1
<1>5. x \in S
  BY <1>1, <1>3, <1>4 DEF Subtree
<1> QED
  BY <1>5

(* Fewer in the registry stay within the limit. *)
LEMMA RegistryShrinks ==
    ASSUME AgentTypeOK, registry' \subseteq registry
    PROVE  Cardinality(registry') <= MaxWorkers
<1>1. IsFiniteSet(registry) /\ Cardinality(registry) \in Nat
  BY WorkerAssumption, FS_Subset, FS_CardinalityType DEF WorkerAssumption, AgentTypeOK
<1>2. /\ Cardinality(registry') <= Cardinality(registry) /\ IsFiniteSet(registry')
      /\ Cardinality(registry') \in Nat
  BY <1>1, FS_Subset, FS_CardinalityType
<1> QED
  BY <1>1, <1>2, WorkerAssumption DEF AgentTypeOK, WorkerAssumption

(* A thread that goes on to where it may have children, or has none that are to be told. *)
LEMMA StageKeeps ==
    ASSUME AgentInd, NEW a \in Agents, NEW s \in Stages, To(a, s), s # "none",
           stage[a] \notin {"none", "over"},
           s \in {"loading", "running", "reaping"} \/ stage[a] \in {"building", "joining"},
           closing \subseteq closing', closing' \subseteq closing \cup {a}, killed' = killed,
           UNCHANGED <<registry, children, parent, joins, strays>>
    PROVE  AgentInd'
<1> USE DEF AgentInd, AgentInv, To
<1>1. stage' = [stage EXCEPT ![a] = s] /\ stage \in [Agents -> Stages]
  BY DEF AgentTypeOK
<1>2. AgentTypeOK'
  BY <1>1 DEF AgentTypeOK
<1>3. Reachable'
  <2> SUFFICES ASSUME NEW b \in Threads' \ closing', b \notin strays
               PROVE  b \in registry /\ (parent[b] = Main \/
                         (b \in children[parent[b]]
                            /\ stage'[parent[b]] \in {"loading", "running", "reaping"}))
    BY DEF Reachable
  <2>1. b \in Threads \ closing /\ b \in Agents
    BY <1>1 DEF Threads
  <2>2. b \in registry /\ (parent[b] = Main \/
           (b \in children[parent[b]] /\ stage[parent[b]] \in {"loading", "running", "reaping"}))
    BY <2>1 DEF Reachable
  <2>3. parent[b] \in Agents \cup {Main}
    BY <2>1 DEF AgentTypeOK
  <2> QED
    BY <1>1, <2>2, <2>3
<1>4. ListsPruned'
  BY DEF ListsPruned
<1> QED
  BY <1>1, <1>2, <1>3, <1>4

(* At first there is no agent but the main one. *)
LEMMA AgentStarts == AgentInit => AgentInd
<1> SUFFICES ASSUME AgentInit PROVE AgentInd
  OBVIOUS
<1>1. Cardinality(registry) = 0
  BY FS_EmptySet DEF AgentInit
<1>2. AgentTypeOK
  BY <1>1, WorkerAssumption DEF AgentInit, AgentTypeOK, Stages, WorkerAssumption
<1> QED
  BY <1>2, WorkerAssumption
  DEF WorkerAssumption, AgentInit, AgentInd, AgentInv, Reachable, Threads, ListsPruned

(* spawn: a new agent is entered in the registry, and in its parent's list if that*)
(* still is in the registry.                                                *)
LEMMA SpawnKeeps ==
    ASSUME AgentInd, NEW p \in Agents \cup {Main}, NEW a \in Agents, Spawn(p, a)
    PROVE  AgentInd'
<1> USE DEF AgentInd, AgentInv
<1>1. /\ AtWork(p) /\ stage[a] = "none" /\ Cardinality(registry) < MaxWorkers
      /\ registry' = registry \cup {a} /\ parent' = [parent EXCEPT ![a] = p]
      /\ stage' = [stage EXCEPT ![a] = "building"]
      /\ children' = IF p \in registry THEN [children EXCEPT ![p] = @ \cup {a}] ELSE children
      /\ strays' = IF p \in registry \cup {Main} THEN strays ELSE strays \cup {a}
      /\ UNCHANGED <<closing, killed, joins>>
  BY DEF Spawn, NextId, To
<1>2. /\ registry \subseteq Agents /\ children \in [Agents -> SUBSET Agents]
      /\ parent \in [Agents -> Agents \cup {Main}] /\ stage \in [Agents -> Stages]
      /\ a \notin registry \cup closing /\ p # a /\ Main \notin Agents
  BY <1>1, WorkerAssumption DEF AgentTypeOK, AtWork, WorkerAssumption
<1>3. \A q \in Agents : children'[q] = IF q = p /\ p \in registry THEN children[q] \cup {a} ELSE children[q]
  BY <1>1, <1>2
<1>4. Cardinality(registry') <= MaxWorkers
  <2>1. IsFiniteSet(registry) /\ Cardinality(registry) \in Nat
    BY <1>2, WorkerAssumption, FS_Subset, FS_CardinalityType DEF WorkerAssumption
  <2>2. Cardinality(registry') = Cardinality(registry) + 1
    BY <1>1, <1>2, <2>1, FS_AddElement
  <2> QED
    BY <1>1, <2>1, <2>2, WorkerAssumption DEF WorkerAssumption
<1>5. AgentTypeOK'
  <2>1. stage' \in [Agents -> Stages]
    BY <1>1, <1>2 DEF Stages
  <2>2. children' \in [Agents -> SUBSET Agents] /\ parent' \in [Agents -> Agents \cup {Main}]
    BY <1>1, <1>2
  <2>3. \A b \in Agents : stage'[b] = "none" => b \notin registry' \cup closing'
    BY <1>1, <1>2 DEF AgentTypeOK
  <2> QED
    BY <1>1, <1>2, <1>4, <2>1, <2>2, <2>3 DEF AgentTypeOK
<1>6. Reachable'
  <2> SUFFICES ASSUME NEW b \in Threads' \ closing', b \notin strays'
               PROVE  b \in registry' /\ (parent'[b] = Main \/
                         (b \in children'[parent'[b]]
                            /\ stage'[parent'[b]] \in {"loading", "running", "reaping"}))
    BY DEF Reachable
  <2>1. CASE b = a
    <3>1. p \in registry \cup {Main} /\ parent'[b] = p
      BY <1>1, <1>2, <2>1
    <3>2. CASE p = Main
      BY <1>1, <2>1, <3>1, <3>2
    <3>3. CASE p \in registry
      BY <1>1, <1>2, <1>3, <2>1, <3>1, <3>3 DEF AtWork
    <3> QED
      BY <3>1, <3>2, <3>3
  <2>2. CASE b # a
    <3>1. b \in Threads \ closing /\ b \notin strays /\ parent'[b] = parent[b] /\ b \in Agents
      BY <1>1, <1>2, <2>2 DEF Threads
    <3>2. b \in registry /\ (parent[b] = Main \/
             (b \in children[parent[b]] /\ stage[parent[b]] \in {"loading", "running", "reaping"}))
      BY <3>1 DEF Reachable
    <3>3. CASE parent[b] = Main
      BY <1>1, <3>1, <3>2, <3>3
    <3>4. CASE parent[b] # Main
      <4>1. parent[b] \in Agents /\ parent[b] # a
        BY <1>1, <1>2, <3>1, <3>2, <3>4
      <4> QED
        BY <1>1, <1>2, <1>3, <3>1, <3>2, <3>4, <4>1
    <3> QED
      BY <3>3, <3>4
  <2> QED
    BY <2>1, <2>2
<1>7. ListsPruned'
  <2>1. ASSUME NEW q \in registry' PROVE children'[q] \subseteq registry'
    BY <1>1, <1>2, <1>3, <2>1 DEF ListsPruned
  <2> QED
    BY <2>1 DEF ListsPruned
<1>8. \A q, b \in Agents : b \in children'[q] => parent'[b] = q /\ stage'[b] # "none"
  <2> SUFFICES ASSUME NEW q \in Agents, NEW b \in Agents, b \in children'[q]
               PROVE  parent'[b] = q /\ stage'[b] # "none"
    OBVIOUS
  <2>1. CASE b = a
    <3>1. q = p /\ p \in registry
      BY <1>1, <1>3, <2>1
    <3> QED
      BY <1>1, <1>2, <2>1, <3>1
  <2>2. CASE b # a
    BY <1>1, <1>2, <1>3, <2>2
  <2> QED
    BY <2>1, <2>2
<1>9. \A b \in Agents : parent'[b] # b /\ (stage'[b] = "none" => children'[b] = {})
  <2>1. p \in Agents => stage[p] # "none"
    BY <1>1, <1>2 DEF AtWork
  <2> QED
    BY <1>1, <1>2, <1>3, <2>1
<1> QED
  BY <1>5, <1>6, <1>7, <1>8, <1>9

(* Agents leave the registry and the lists they are in: what is left is still pruned, *)
(* and reachable, when everybody who was reachable only through them is told to end.  *)
LEMMA LeaveKeeps ==
    ASSUME AgentInd, NEW A \in SUBSET Agents, NEW L \in SUBSET Agents,
           registry' = registry \ L, children' = Unhooked(A),
           \A p \in registry \ L : p \notin A /\ children[p] \cap L \subseteq A,
           \A b \in L : b \in Threads' => b \in closing',
           stage' \in [Agents -> Stages], closing \subseteq closing', closing' \subseteq Agents,
           killed' \subseteq closing', joins' \in [Agents -> SUBSET Agents],
           \A b \in Agents : stage'[b] = "none" <=> stage[b] = "none",
           \A b \in Agents : stage[b] = "none" => b \notin closing',
           \A b \in Agents : stage[b] = "over" => stage'[b] = "over",
           \A b \in registry \cap (Threads' \ closing') : b \notin A /\ (parent[b] \in Agents =>
                (stage[parent[b]] \in {"loading", "running", "reaping"}
                   /\ b \in children[parent[b]]
                 => stage'[parent[b]] \in {"loading", "running", "reaping"})),
           UNCHANGED <<parent, strays>>
    PROVE  AgentInd'
<1> USE DEF AgentInd, AgentInv
<1>1. /\ registry \subseteq Agents /\ children \in [Agents -> SUBSET Agents]
      /\ parent \in [Agents -> Agents \cup {Main}] /\ stage \in [Agents -> Stages]
      /\ strays \subseteq Agents
  BY DEF AgentTypeOK
<1>2. /\ children' \in [Agents -> SUBSET Agents]
      /\ \A p \in Agents : children'[p] \subseteq children[p] /\ children[p] \ A \subseteq children'[p]
      /\ \A p \in registry \ A : children'[p] = children[p] \ A
  BY <1>1 DEF Unhooked
<1>3. AgentTypeOK'
  <2>1. Cardinality(registry') <= MaxWorkers
    BY RegistryShrinks
  <2> QED
    BY <1>1, <1>2, <2>1 DEF AgentTypeOK
<1>4. Reachable'
  <2> SUFFICES ASSUME NEW b \in Threads' \ closing', b \notin strays
               PROVE  b \in registry' /\ (parent[b] = Main \/
                         (b \in children'[parent[b]]
                            /\ stage'[parent[b]] \in {"loading", "running", "reaping"}))
    BY DEF Reachable
  <2>1. b \in Threads \ closing /\ b \in Agents
    BY <1>1 DEF Threads
  <2>2. b \in registry /\ (parent[b] = Main \/
           (b \in children[parent[b]] /\ stage[parent[b]] \in {"loading", "running", "reaping"}))
    BY <2>1 DEF Reachable
  <2>3. b \in registry' /\ b \notin A /\ parent[b] \in Agents \cup {Main}
    BY <1>1, <2>1, <2>2
  <2> QED
    BY <1>1, <1>2, <2>2, <2>3
<1>5. ListsPruned'
  <2>1. ASSUME NEW p \in registry' PROVE children'[p] \subseteq registry'
    <3>1. p \in registry \ L /\ p \notin A /\ children[p] \subseteq registry
      BY <2>1 DEF ListsPruned
    <3> QED
      BY <1>1, <1>2, <3>1
  <2> QED
    BY <2>1 DEF ListsPruned
<1> QED
  BY <1>1, <1>2, <1>3, <1>4, <1>5

(* terminate: the agent and everyone below it leave the registry and are told. *)
LEMMA TerminateKeeps ==
    ASSUME AgentInd, NEW a \in Agents, Terminate(a) PROVE AgentInd'
<1> USE DEF AgentInd, AgentInv
<1> DEFINE L == Subtree(a)
<1>1. /\ a \in registry /\ registry' = registry \ L /\ children' = Unhooked({a})
      /\ closing' = closing \cup L /\ killed' = killed \cup {b \in L : stage[b] # "building"}
      /\ UNCHANGED <<parent, stage, joins, strays>>
  BY DEF Terminate, Stop
<1>2. a \in L /\ L \subseteq registry /\ registry \subseteq Agents
  BY <1>1, SubtreeIs DEF AgentTypeOK
<1>3. \A p \in registry \ L : p \notin {a} /\ children[p] \cap L \subseteq {a}
  <2>1. ASSUME NEW p \in registry \ L, NEW x \in children[p] \cap L, x # a PROVE FALSE
    BY <1>1, <2>1, SubtreeParents
  <2> QED
    BY <1>2, <2>1
<1> HIDE DEF L
<1>4. /\ closing' \subseteq Agents /\ killed' \subseteq closing'
      /\ \A b \in Agents : stage[b] = "none" => b \notin closing'
      /\ stage' \in [Agents -> Stages] /\ joins' \in [Agents -> SUBSET Agents]
  BY <1>1, <1>2 DEF AgentTypeOK
<1>5. /\ \A b \in Threads' \ closing' : b \notin {a}
      /\ \A b \in L : b \in Threads' => b \in closing'
      /\ closing \subseteq closing' /\ L \subseteq Agents /\ {a} \subseteq Agents
  BY <1>1, <1>2
<1>6. /\ \A b \in Agents : stage'[b] = "none" <=> stage[b] = "none"
      /\ \A b \in Agents : stage[b] = "over" => stage'[b] = "over"
      /\ \A b \in registry \cap (Threads' \ closing') : b \notin {a} /\ (parent[b] \in Agents =>
                (stage[parent[b]] \in {"loading", "running", "reaping"}
                   /\ b \in children[parent[b]]
                 => stage'[parent[b]] \in {"loading", "running", "reaping"}))
  BY <1>1, <1>5
<1> QED
  BY <1>1, <1>3, <1>4, <1>5, <1>6, LeaveKeeps

(* The parent hears that an agent has closed, and strikes it from the registry. *)
LEMMA RetireKeeps ==
    ASSUME AgentInd, NEW a \in Agents, Retire(a) PROVE AgentInd'
<1> USE DEF AgentInd, AgentInv
<1>1. /\ a \in registry /\ stage[a] = "over" /\ registry' = registry \ {a}
      /\ children' = Unhooked({a})
      /\ UNCHANGED <<parent, stage, closing, killed, joins, strays>>
  BY DEF Retire
<1>2. a \notin Threads'
  BY <1>1 DEF Threads
<1>3. /\ closing' \subseteq Agents /\ killed' \subseteq closing'
      /\ \A b \in Agents : stage[b] = "none" => b \notin closing'
      /\ stage' \in [Agents -> Stages] /\ joins' \in [Agents -> SUBSET Agents]
  BY <1>1 DEF AgentTypeOK
<1>4. /\ \A b \in {a} : b \in Threads' => b \in closing'
      /\ \A p \in registry \ {a} : p \notin {a} /\ children[p] \cap {a} \subseteq {a}
      /\ closing \subseteq closing' /\ {a} \subseteq Agents
      /\ \A b \in Agents : stage'[b] = "none" <=> stage[b] = "none"
      /\ \A b \in Agents : stage[b] = "over" => stage'[b] = "over"
      /\ \A b \in registry \cap (Threads' \ closing') : b \notin {a} /\ (parent[b] \in Agents =>
                (stage[parent[b]] \in {"loading", "running", "reaping"}
                   /\ b \in children[parent[b]]
                 => stage'[parent[b]] \in {"loading", "running", "reaping"}))
  BY <1>1, <1>2
<1> QED
  BY <1>1, <1>3, <1>4, LeaveKeeps

(* The end of run_worker: everyone below the agent leaves the registry and is told. *)
LEMMA ReapKeeps ==
    ASSUME AgentInd, NEW a \in Agents, Reap(a) PROVE AgentInd'
<1> USE DEF AgentInd, AgentInv
<1> DEFINE L == UNION {Subtree(c) : c \in children[a]}
           A == children[a] \cap registry
<1>1. /\ stage[a] = "reaping" /\ stage' = [stage EXCEPT ![a] = "joining"]
      /\ registry' = registry \ L /\ joins' = [joins EXCEPT ![a] = L]
      /\ children' = Unhooked(A) /\ closing' = closing \cup L \cup {a}
      /\ killed' = killed \cup {b \in L : stage[b] # "building"}
      /\ UNCHANGED <<parent, strays>>
  BY DEF Reap, To
<1>2. L \subseteq registry /\ registry \subseteq Agents /\ A \subseteq L /\ A \subseteq Agents
  <2>1. L \subseteq registry
    BY DEF Subtree
  <2>2. A \subseteq L
    BY SubtreeIs
  <2> QED
    BY <2>1, <2>2 DEF AgentTypeOK
<1>3. \A p \in registry \ L : p \notin A /\ children[p] \cap L \subseteq A
  <2> SUFFICES ASSUME NEW p \in registry \ L, NEW x \in children[p] \cap L, x \notin A
               PROVE  FALSE
    BY <1>2
  <2>1. PICK c \in children[a] : x \in Subtree(c)
    OBVIOUS
  <2>2. c \in registry /\ x # c
    BY <1>2, <2>1 DEF Subtree
  <2>3. p \in Subtree(c)
    BY <2>1, <2>2, SubtreeParents
  <2> QED
    BY <2>1, <2>3
<1>b. A = children[a] \cap registry
  OBVIOUS
<1> HIDE DEF L, A
<1>4. /\ closing' \subseteq Agents /\ killed' \subseteq closing'
      /\ \A b \in Agents : stage[b] = "none" => b \notin closing'
      /\ stage' \in [Agents -> Stages] /\ joins' \in [Agents -> SUBSET Agents]
      /\ \A b \in Agents : stage'[b] = "none" <=> stage[b] = "none"
      /\ \A b \in Agents : stage[b] = "over" => stage'[b] = "over"
  BY <1>1, <1>2 DEF AgentTypeOK, Stages
<1>5. ASSUME NEW b \in registry \cap (Threads' \ closing')
      PROVE  b \notin A /\ (parent[b] \in Agents =>
                (stage[parent[b]] \in {"loading", "running", "reaping"}
                   /\ b \in children[parent[b]]
                 => stage'[parent[b]] \in {"loading", "running", "reaping"}))
  <2>1. b \in Agents /\ stage[b] \notin {"none", "over"} /\ b \notin closing /\ b \notin L /\ b # a
    BY <1>1, <1>4, <1>5 DEF Threads
  <2>2. b \notin A /\ b \notin children[a]
    BY <1>2, <1>5, <1>b, <2>1
  <2> QED
    BY <1>1, <2>1, <2>2 DEF AgentTypeOK
<1>6. /\ \A b \in L : b \in Threads' => b \in closing'
      /\ closing \subseteq closing' /\ L \subseteq Agents
  BY <1>1, <1>2
<1> QED
  BY <1>1, <1>2, <1>3, <1>4, <1>5, <1>6, LeaveKeeps

(* Every step keeps the invariant. *)
LEMMA AgentStep == AgentInd /\ [AgentNext]_agentVars => AgentInd'
<1> SUFFICES ASSUME AgentInd, [AgentNext]_agentVars PROVE AgentInd'
  OBVIOUS
<1> USE DEF Stages
<1>1. ASSUME NEW a \in Agents, EntrySettles(a) \/ Finish(a) PROVE AgentInd'
  BY <1>1, StageKeeps DEF EntrySettles, Finish
<1>2. ASSUME NEW a \in Agents, SelfClose(a) PROVE AgentInd'
  <2>1. To(a, stage[a]) /\ stage[a] \in {"loading", "running"}
    BY <1>2 DEF SelfClose, To, AgentInd, AgentInv, AgentTypeOK
  <2> QED
    BY <1>2, <2>1, StageKeeps DEF SelfClose
<1>3. ASSUME NEW a \in Agents, Publish(a) \/ BuildFails(a) \/ Notice(a) \/ Joined(a)
      PROVE  AgentInd'
  BY <1>3, StageKeeps DEF Publish, BuildFails, Notice, Joined
<1>4. ASSUME NEW a \in Agents, Reap(a) \/ Terminate(a) \/ Retire(a) PROVE AgentInd'
  BY <1>4, ReapKeeps, TerminateKeeps, RetireKeeps
<1>5. ASSUME NEW a \in Agents, NEW p \in Agents \cup {Main}, Spawn(p, a) PROVE AgentInd'
  BY <1>5, SpawnKeeps
<1>6. CASE UNCHANGED agentVars
  BY <1>6 DEF agentVars, AgentInd, AgentInv, AgentTypeOK, Reachable, ListsPruned, Threads
<1> QED
  BY <1>1, <1>2, <1>3, <1>4, <1>5, <1>6 DEF AgentNext, Ending

(* For any agents, limit, and order of starts, ends and terminations: a thread that     *)
(* was not told to stop is in the registry and in its parent's list, which will tell    *)
(* it, unless its parent had left the registry when it started it; and no list keeps    *)
(* the ids of workers that are gone.                                                *)
THEOREM AgentsKeep == AgentSpec => []AgentInv
<1>1. AgentInd => AgentInv
  BY DEF AgentInd
<1> QED
  BY <1>1, AgentStarts, AgentStep, PTL DEF AgentSpec

-----------------------------------------------------------------------------
(* MessagePorts. *)

(* How many messages have left the queue. *)
Taken == posted - Len(inbox)

(* The objects that lost the port and whose pump has ended. *)
Left == {h \in Objects : h < holder /\ reader[h] = "over"}

(* The queue holds the last messages posted, in their order. *)
InboxIs == \A i \in DOMAIN inbox : inbox[i] = Taken + i

(* A message that a reader took and the events that were fired were in the queue       *)
(* before what is there now; the holder's is not behind an event.                     *)
TakenIs ==
    /\ Taken \in Nat
    /\ \A h \in Objects : carries[h] # 0 => reader[h] = "resolved" /\ carries[h] <= Taken
    /\ \A i \in DOMAIN delivered : delivered[i] <= Taken
    /\ carries[holder] # 0 => \A i \in DOMAIN delivered : delivered[i] < carries[holder]

(* What PortInv needs beside itself to be inductive; every lost message has a reader    *)
(* that was left behind and has ended.                                              *)
PortInd ==
    /\ PortInv /\ Once(line) /\ InboxIs /\ TakenIs
    /\ gone \/ Cardinality(Lost) <= Cardinality(Left)

(* The members of a line are its elements. *)
LEMMA MembersAre == \A s : Members(s) = Elements(s)
  BY DEF Members, Elements

(* One below a positive number. *)
LEMMA Below == \A n \in Nat \ {0} : n - 1 \in Nat
  OBVIOUS

(* A part of an interval has at most as many elements. *)
LEMMA PartOf ==
    ASSUME NEW n \in Nat, NEW T \in SUBSET (1 .. n)
    PROVE  IsFiniteSet(T) /\ Cardinality(T) \in Nat /\ Cardinality(T) <= n
<1>1. IsFiniteSet(1 .. n) /\ Cardinality(1 .. n) = n
  BY FS_Interval
<1> QED
  BY <1>1, FS_Subset, FS_CardinalityType

(* A step that loses nothing, and that no ended reader leaves. *)
LEMMA NoneMoreLost ==
    ASSUME PortInd, posted' \in Nat, holder' \in Objects, holder <= holder', Lost' \subseteq Lost,
           \A h \in Objects : reader[h] = "over" => reader'[h] = "over"
    PROVE  gone \/ Cardinality(Lost') <= Cardinality(Left')
<1>1. posted \in Nat /\ holder \in Objects /\ holder \in Nat /\ holder' \in Nat
  BY DEF PortInd, PortInv, PortTypeOK, Objects
<1>2. /\ Left \in SUBSET (Left') /\ Left \in SUBSET (1 .. holder) /\ Left' \in SUBSET (1 .. holder')
      /\ Lost \in SUBSET (1 .. posted) /\ Lost' \in SUBSET (1 .. posted')
  BY <1>1 DEF Left, Objects, Lost
<1>3. IsFiniteSet(Left') /\ Cardinality(Left') \in Nat /\ Cardinality(Left) \in Nat
  BY <1>1, <1>2, PartOf
<1>4. IsFiniteSet(Lost) /\ Cardinality(Lost') \in Nat /\ Cardinality(Lost) \in Nat
  BY <1>1, <1>2, PartOf
<1>5. Cardinality(Left) <= Cardinality(Left')
  BY <1>2, <1>3, FS_Subset
<1>6. Cardinality(Lost') <= Cardinality(Lost)
  BY <1>4, FS_Subset
<1>7. gone \/ Cardinality(Lost) <= Cardinality(Left)
  BY DEF PortInd
<1> HIDE DEF Lost, Left
<1> QED
  BY <1>3, <1>4, <1>5, <1>6, <1>7
-----------------------------------------------------------------------------
(* What of PortInd speaks of the types, the line and the readers. *)
LEMMA PortTypes ==
    ASSUME PortInd
    PROVE  /\ posted \in 0 .. MaxPosts /\ posted \in Nat /\ inbox \in Seq(Messages)
           /\ line \in Seq(Objects) /\ told \subseteq Objects /\ holder \in Objects
           /\ gone \in BOOLEAN /\ reader \in [Objects -> Pumps]
           /\ carries \in [Objects -> {0} \cup Messages] /\ delivered \in Seq(Messages)
           /\ Elements(line) = {h \in Objects : reader[h] \in {"queued", "parked"}}
           /\ \A h \in Objects : reader[h] = "parked" => h = Head(line)
           /\ \A h \in Objects : h > holder => reader[h] = "idle"
           /\ Once(line) /\ Taken \in Nat /\ Len(inbox) \in Nat
  BY PortAssumption, MembersAre DEF PortAssumption, PortInd, PortInv, PortTypeOK, TakenIs

(* The parts of PortInd, for a state to come. *)
LEMMA PortParts ==
    ASSUME posted' \in 0 .. MaxPosts, inbox' \in Seq(Messages),
           line' \in Seq(Objects), told' \subseteq Objects, holder' \in Objects,
           gone' \in BOOLEAN, reader' \in [Objects -> Pumps],
           carries' \in [Objects -> {0} \cup Messages], delivered' \in Seq(Messages),
           Elements(line') = {h \in Objects : reader'[h] \in {"queued", "parked"}},
           \A h \in Objects : reader'[h] = "parked" => h = Head(line'),
           \A h \in Objects : h > holder' => reader'[h] = "idle",
           Once(line'), InboxIs', TakenIs', InOrder',
           gone' \/ Cardinality(Lost') <= Cardinality(Left')
    PROVE  PortInd'
<1>1. PortTypeOK'
  BY MembersAre DEF PortTypeOK
<1>2. LostToTransfers'
  <2>1. ASSUME ~gone' PROVE Cardinality(Lost') <= holder' - 1
    <3>1. holder' \in Nat \ {0} /\ posted' \in Nat
      BY PortAssumption DEF Objects, PortAssumption
    <3>2. Left' \in SUBSET (1 .. holder' - 1) /\ holder' - 1 \in Nat
      <4>1. \A h \in Left' : h \in Nat /\ h >= 1 /\ h < holder'
        BY DEF Left, Objects
      <4>2. \A h \in Left' : h \in 1 .. holder' - 1
        BY <3>1, <4>1
      <4>3. holder' - 1 \in Nat
        BY <3>1, Below
      <4> QED
        BY <4>2, <4>3
    <3>3. Cardinality(Left') <= holder' - 1 /\ Cardinality(Left') \in Nat
      BY <3>2, PartOf
    <3>4. Lost' \in SUBSET (1 .. posted')
      BY DEF Lost
    <3>5. Cardinality(Lost') \in Nat
      BY <3>1, <3>4, PartOf
    <3> QED
      BY <2>1, <3>1, <3>3, <3>5
  <2> QED
    BY <2>1 DEF LostToTransfers
<1> QED
  BY <1>1, <1>2 DEF PortInd, PortInv

(* A message is posted, behind the others. *)
LEMMA PostKeeps == ASSUME PortInd, Post PROVE PortInd'
<1>t. /\ ~gone /\ posted < MaxPosts /\ posted' = posted + 1 /\ inbox' = Append(inbox, posted + 1)
      /\ UNCHANGED <<line, told, holder, gone, reader, carries, delivered>>
  BY DEF Post
<1>0. posted + 1 \in Messages /\ posted \in Nat /\ Taken \in Nat /\ Len(inbox) \in Nat
  BY <1>t, PortTypes, PortAssumption DEF Messages, PortAssumption
<1>1. inbox' \in Seq(Messages) /\ Elements(inbox') = Elements(inbox) \cup {posted + 1}
      /\ Len(inbox') = Len(inbox) + 1
  BY <1>t, <1>0, PortTypes, Appended
<1>2. Taken' = Taken
  BY <1>t, <1>0, <1>1 DEF Taken
<1>3. InboxIs'
  <2>1. ASSUME NEW i \in DOMAIN inbox' PROVE inbox'[i] = Taken + i
    <3>1. i \in 1 .. Len(inbox) + 1
      BY <1>1, <2>1
    <3>2. CASE i = Len(inbox) + 1
      BY <1>0, <1>t, <3>2, PortTypes DEF Taken
    <3>3. CASE i # Len(inbox) + 1
      BY <1>0, <1>t, <3>1, <3>3, PortTypes DEF PortInd, InboxIs
    <3> QED
      BY <3>2, <3>3
  <2> QED
    BY <1>2, <2>1 DEF InboxIs
<1>4. TakenIs' /\ InOrder'
  BY <1>t, <1>2 DEF TakenIs, PortInd, PortInv, InOrder
<1>5. Lost' \subseteq Lost
  BY <1>0, <1>t, <1>1, MembersAre DEF Lost
<1>6. gone \/ Cardinality(Lost') <= Cardinality(Left')
  BY <1>t, <1>0, <1>5, PortTypes, NoneMoreLost DEF Objects
<1>7. posted' \in 0 .. MaxPosts
  BY <1>0, <1>t, PortAssumption DEF PortAssumption
<1> QED
  BY <1>t, <1>1, <1>3, <1>4, <1>6, <1>7, PortTypes, PortParts

(* A reader goes on, and neither the line nor what it carries changes. *)
LEMMA PumpKeeps ==
    ASSUME PortInd, NEW h \in Objects, NEW p \in Pumps, Pump(h, p),
           h <= holder, reader[h] \notin {"queued", "parked", "over", "resolved"}, 
           p \notin {"queued", "parked"},
           UNCHANGED <<posted, inbox, line, told, holder, gone, carries, delivered>>
    PROVE  PortInd'
<1>1. reader' = [reader EXCEPT ![h] = p]
  BY DEF Pump
<1>2. /\ reader' \in [Objects -> Pumps] /\ \A g \in Objects \ {h} : reader'[g] = reader[g]
      /\ reader'[h] = p
  BY <1>1, PortTypes
<1>3. /\ Elements(line') = {g \in Objects : reader'[g] \in {"queued", "parked"}}
      /\ \A g \in Objects : reader'[g] = "parked" => g = Head(line')
  BY <1>2, PortTypes
<1>4. \A g \in Objects : g > holder' => reader'[g] = "idle"
  BY <1>2, PortTypes DEF Objects
<1>5. InboxIs' /\ InOrder'
  BY DEF PortInd, PortInv, InboxIs, InOrder, Taken
<1>6. TakenIs'
  BY <1>2 DEF PortInd, TakenIs, Taken
<1>7. gone' \/ Cardinality(Lost') <= Cardinality(Left')
  <2>1. Lost' \subseteq Lost
    BY DEF Lost
  <2>2. holder \in Nat
    BY PortTypes DEF Objects
  <2> QED
    BY <1>2, <2>1, <2>2, PortTypes, NoneMoreLost
<1> QED
  BY <1>2, <1>3, <1>4, <1>5, <1>6, <1>7, PortTypes, PortParts

(* A reader begins: it asks for the inbox's lock, at the end of the line. *)
LEMMA PollKeeps == ASSUME PortInd, NEW h \in Objects, Poll(h) PROVE PortInd'
<1>0. reader[h] = "called" /\ h <= holder /\ holder \in Nat
  BY PortTypes DEF Poll, Objects
<1>1. CASE gone
  BY <1>0, <1>1, PumpKeeps DEF Poll, Pumps
<1>2. CASE ~gone
  <2> DEFINE p == IF line = <<>> THEN "parked" ELSE "queued"
  <2>1. /\ reader' = [reader EXCEPT ![h] = p] /\ line' = Append(line, h)
        /\ UNCHANGED <<posted, inbox, told, holder, gone, carries, delivered>>
    BY <1>2 DEF Poll, Pump
  <2>2. /\ reader' \in [Objects -> Pumps] /\ \A g \in Objects \ {h} : reader'[g] = reader[g]
        /\ reader'[h] = p
    BY <2>1, PortTypes DEF Pumps
  <2>3. h \notin Elements(line)
    BY <1>0, PortTypes
  <2>4. line' \in Seq(Objects) /\ Elements(line') = Elements(line) \cup {h} /\ Once(line')
    BY <2>1, <2>3, PortTypes, Appended
  <2>5. Elements(line') = {g \in Objects : reader'[g] \in {"queued", "parked"}}
    BY <2>2, <2>4, PortTypes
  <2>6. Head(line') = IF line = <<>> THEN h ELSE Head(line)
    BY <2>1, PortTypes
  <2>7. \A g \in Objects : reader'[g] = "parked" => g = Head(line')
    <3>1. CASE line = <<>>
      <4>1. \A g \in Objects : reader[g] # "parked"
        BY <3>1, PortTypes DEF Elements
      <4> QED
        BY <2>2, <2>6, <3>1, <4>1
    <3>2. CASE line # <<>>
      BY <2>2, <2>6, <3>2, PortTypes
    <3> QED
      BY <3>1, <3>2
  <2>8. \A g \in Objects : g > holder' => reader'[g] = "idle"
    BY <1>0, <2>1, <2>2, PortTypes DEF Objects
  <2>9. InboxIs' /\ InOrder'
    BY <2>1 DEF PortInd, PortInv, InboxIs, InOrder, Taken
  <2>10. TakenIs'
    BY <1>0, <2>1, <2>2 DEF PortInd, TakenIs, Taken
  <2>11. gone' \/ Cardinality(Lost') <= Cardinality(Left')
    <3>1. Lost' \subseteq Lost
      BY <2>1 DEF Lost
    <3> QED
      BY <1>0, <2>1, <2>2, <3>1, PortTypes, NoneMoreLost
  <2> QED
    BY <2>1, <2>2, <2>4, <2>5, <2>7, <2>8, <2>9, <2>10, <2>11, PortTypes, PortParts
<1> QED
  BY <1>1, <1>2, PortTypes

(* The lock has come to the first in the line, which listens for the notify. *)
LEMMA LockKeeps == ASSUME PortInd, NEW h \in Objects, GetLock(h) PROVE PortInd'
<1>1. /\ reader[h] = "queued" /\ h = Head(line) /\ reader' = [reader EXCEPT ![h] = "parked"]
      /\ UNCHANGED <<posted, inbox, line, told, holder, gone, carries, delivered>>
  BY DEF GetLock, Pump
<1>2. /\ reader' \in [Objects -> Pumps] /\ \A g \in Objects \ {h} : reader'[g] = reader[g]
      /\ reader'[h] = "parked"
  BY <1>1, PortTypes DEF Pumps
<1>3. /\ Elements(line') = {g \in Objects : reader'[g] \in {"queued", "parked"}}
      /\ \A g \in Objects : reader'[g] = "parked" => g = Head(line')
      /\ \A g \in Objects : g > holder' => reader'[g] = "idle"
  BY <1>1, <1>2, PortTypes
<1>4. InboxIs' /\ InOrder'
  BY <1>1 DEF PortInd, PortInv, InboxIs, InOrder, Taken
<1>5. TakenIs'
  BY <1>1, <1>2 DEF PortInd, TakenIs, Taken
<1>6. gone' \/ Cardinality(Lost') <= Cardinality(Left')
  <2>1. Lost' \subseteq Lost /\ holder \in Nat
    BY <1>1, PortTypes DEF Lost, Objects
  <2> QED
    BY <1>1, <1>2, <2>1, PortTypes, NoneMoreLost
<1> QED
  BY <1>1, <1>2, <1>3, <1>4, <1>5, <1>6, PortTypes, PortParts

(* The first in the line leaves it. *)
LEMMA FirstLeaves ==
    ASSUME PortInd, NEW h \in Objects, reader[h] = "parked", line' = Tail(line),
           reader' = [reader EXCEPT ![h] = "resolved"]
    PROVE  /\ line' \in Seq(Objects) /\ Once(line') /\ reader' \in [Objects -> Pumps]
           /\ \A g \in Objects \ {h} : reader'[g] = reader[g]
           /\ Elements(line') = {g \in Objects : reader'[g] \in {"queued", "parked"}}
           /\ \A g \in Objects : reader'[g] # "parked"
           /\ reader'[h] = "resolved"
<1>1. line # <<>> /\ h = Head(line)
  <2>1. h \in Elements(line)
    BY PortTypes
  <2> QED
    BY <2>1, PortTypes DEF Elements
<1>2. line' \in Seq(Objects) /\ Once(line') /\ Elements(line') = Elements(line) \ {h}
  BY <1>1, PortTypes, Tails
<1>3. reader' \in [Objects -> Pumps] /\ reader'[h] = "resolved"
      /\ \A g \in Objects \ {h} : reader'[g] = reader[g]
  BY PortTypes DEF Pumps
<1> QED
  BY <1>1, <1>2, <1>3, PortTypes

(* A reader takes the oldest message. *)
LEMMA MessageKeeps == ASSUME PortInd, NEW h \in Objects, GetsMessage(h) PROVE PortInd'
<1>0. /\ reader[h] = "parked" /\ inbox # <<>> /\ reader' = [reader EXCEPT ![h] = "resolved"]
      /\ carries' = [carries EXCEPT ![h] = Head(inbox)] /\ inbox' = Tail(inbox)
      /\ line' = Tail(line) /\ told' = told \ {h} /\ UNCHANGED <<posted, holder, gone, delivered>>
  BY DEF GetsMessage, Pump, Carry
<1>1. /\ line' \in Seq(Objects) /\ Once(line') /\ reader' \in [Objects -> Pumps]
      /\ \A g \in Objects \ {h} : reader'[g] = reader[g]
      /\ Elements(line') = {g \in Objects : reader'[g] \in {"queued", "parked"}}
      /\ \A g \in Objects : reader'[g] # "parked"
      /\ reader'[h] = "resolved"
  BY <1>0, FirstLeaves
<1>2. /\ inbox' \in Seq(Messages) /\ Len(inbox') = Len(inbox) - 1 /\ Len(inbox) \in Nat \ {0}
      /\ Head(inbox) = inbox[1] /\ 1 \in DOMAIN inbox /\ Head(inbox) \in Messages
      /\ \A i \in DOMAIN inbox' : i \in Nat /\ i + 1 \in DOMAIN inbox /\ inbox'[i] = inbox[i + 1]
  BY <1>0, PortTypes
<1>3. Taken' = Taken + 1 /\ Taken \in Nat /\ Head(inbox) = Taken + 1
  BY <1>0, <1>2, PortTypes DEF Taken, PortInd, InboxIs
<1>4. InboxIs'
  BY <1>2, <1>3 DEF PortInd, InboxIs
<1>5. /\ carries' \in [Objects -> {0} \cup Messages] /\ carries'[h] = Taken + 1
      /\ \A g \in Objects \ {h} : carries'[g] = carries[g]
  BY <1>0, <1>2, <1>3, PortTypes
<1>6. TakenIs'
  <2>1. \A g \in Objects : carries'[g] # 0 => reader'[g] = "resolved" /\ carries'[g] <= Taken + 1
    <3>1. \A g \in Objects : carries[g] # 0 =>
             reader[g] = "resolved" /\ carries[g] \in Nat /\ carries[g] <= Taken
      BY PortTypes DEF PortInd, TakenIs, Messages
    <3> QED
      BY <1>1, <1>3, <1>5, <3>1
  <2>2. \A i \in DOMAIN delivered : delivered[i] \in Nat /\ delivered[i] <= Taken
    <3>1. \A i \in DOMAIN delivered : delivered[i] \in Messages
      BY PortTypes
    <3> QED
      BY <3>1 DEF PortInd, TakenIs, Messages
  <2>3. carries'[holder] # 0 => \A i \in DOMAIN delivered : delivered[i] < carries'[holder]
    BY <1>3, <1>5, <2>2, PortTypes DEF PortInd, TakenIs
  <2> QED
    BY <1>0, <1>3, <2>1, <2>2, <2>3 DEF TakenIs
<1>7. InOrder'
  BY <1>0 DEF PortInd, PortInv, InOrder
<1>8. Lost' \subseteq Lost
  <2>1. Elements(inbox) \subseteq Elements(inbox') \cup {Head(inbox)}
    <3>1. \A i \in DOMAIN inbox : i # 1 => i - 1 \in DOMAIN inbox' /\ inbox'[i - 1] = inbox[i]
      BY <1>0, <1>2, PortTypes
    <3> QED
      BY <1>2, <3>1 DEF Elements
  <2>2. carries[h] = 0
    BY <1>0 DEF PortInd, TakenIs
  <2>3. ASSUME NEW x \in Lost' PROVE x \in Lost
    <3>1. x \in 1 .. posted /\ x # 0 /\ x \notin Elements(inbox') /\ x \notin Elements(delivered)
      BY <1>0, <2>3, MembersAre DEF Lost
    <3>2. \A g \in Objects : x # carries'[g]
      BY <2>3 DEF Lost
    <3>3. x # Head(inbox) /\ \A g \in Objects : x # carries[g]
      BY <1>3, <1>5, <2>2, <3>1, <3>2
    <3> QED
      BY <2>1, <3>1, <3>3, MembersAre DEF Lost
  <2> QED
    BY <2>3
<1>9. gone' \/ Cardinality(Lost') <= Cardinality(Left')
  <2>1. holder \in Nat
    BY PortTypes DEF Objects
  <2> QED
    BY <1>0, <1>1, <1>8, <2>1, PortTypes, NoneMoreLost
<1> QED
  BY <1>0, <1>1, <1>2, <1>4, <1>5, <1>6, <1>7, <1>9, PortTypes, PortParts

(* A reader ends without a message: the port is gone, or it was told to end. *)
LEMMA NullKeeps == ASSUME PortInd, NEW h \in Objects, GetsNull(h) PROVE PortInd'
<1>0. /\ reader[h] = "parked" /\ reader' = [reader EXCEPT ![h] = "resolved"]
      /\ line' = Tail(line) /\ told' = told \ {h}
      /\ UNCHANGED <<posted, inbox, holder, gone, carries, delivered>>
  BY DEF GetsNull, Pump
<1>1. /\ line' \in Seq(Objects) /\ Once(line') /\ reader' \in [Objects -> Pumps]
      /\ \A g \in Objects \ {h} : reader'[g] = reader[g]
      /\ Elements(line') = {g \in Objects : reader'[g] \in {"queued", "parked"}}
      /\ \A g \in Objects : reader'[g] # "parked"
      /\ reader'[h] = "resolved"
  BY <1>0, FirstLeaves
<1>2. InboxIs' /\ InOrder'
  BY <1>0 DEF PortInd, PortInv, InboxIs, InOrder, Taken
<1>3. TakenIs'
  BY <1>0, <1>1 DEF PortInd, TakenIs, Taken
<1>4. gone' \/ Cardinality(Lost') <= Cardinality(Left')
  <2>1. Lost' \subseteq Lost /\ holder \in Nat
    BY <1>0, PortTypes DEF Lost, Objects
  <2> QED
    BY <1>0, <1>1, <2>1, PortTypes, NoneMoreLost
<1>5. \A g \in Objects : g > holder' => reader'[g] = "idle"
  BY <1>0, <1>1, PortTypes
<1> QED
  BY <1>0, <1>1, <1>2, <1>3, <1>4, <1>5, PortTypes, PortParts

(* A dropped message is one more that is lost, and its reader one more that has ended. *)
LEMMA DropKeeps ==
    ASSUME PortInd, NEW h \in Objects, reader[h] = "resolved", carries[h] # 0, h # holder,
           reader' = [reader EXCEPT ![h] = "over"], carries' = [carries EXCEPT ![h] = 0],
           UNCHANGED <<posted, inbox, line, told, holder, gone, delivered>>
    PROVE  gone' \/ Cardinality(Lost') <= Cardinality(Left')
<1>1. /\ h \in Nat /\ holder \in Nat /\ h < holder /\ posted \in Nat
  BY PortTypes DEF Objects
<1>2. Left \in SUBSET (1 .. holder) /\ Lost \in SUBSET (1 .. posted) /\ Lost' \in SUBSET (1 .. posted)
  BY <1>1 DEF Left, Lost, Objects
<1>3. /\ IsFiniteSet(Left) /\ IsFiniteSet(Lost) /\ IsFiniteSet(Lost \cup {carries[h]})
      /\ Cardinality(Left) \in Nat /\ Cardinality(Lost) \in Nat /\ Cardinality(Lost') \in Nat
  BY <1>1, <1>2, PartOf, FS_AddElement
<1>4. Left' = Left \cup {h} /\ h \notin Left
  BY <1>1, PortTypes DEF Left
<1>5. Cardinality(Left') = Cardinality(Left) + 1
  BY <1>3, <1>4, FS_AddElement
<1>6. Lost' \in SUBSET (Lost \cup {carries[h]})
  <2>1. \A g \in Objects \ {h} : carries'[g] = carries[g]
    BY PortTypes
  <2>2. ASSUME NEW x \in Lost', x # carries[h] PROVE x \in Lost
    BY <2>1, <2>2 DEF Lost
  <2> QED
    BY <2>2
<1>7. Cardinality(Lost') <= Cardinality(Lost) + 1
  <2>1. /\ Cardinality(Lost') <= Cardinality(Lost \cup {carries[h]})
        /\ Cardinality(Lost \cup {carries[h]}) \in {Cardinality(Lost), Cardinality(Lost) + 1}
    BY <1>3, <1>6, FS_Subset, FS_AddElement
  <2> QED
    BY <1>3, <2>1
<1>8. gone \/ Cardinality(Lost) <= Cardinality(Left)
  BY DEF PortInd
<1> HIDE DEF Lost, Left
<1> QED
  BY <1>3, <1>5, <1>7, <1>8

(* The pump goes on behind its await: it delivers what it carries, or drops it. *)
LEMMA ResumeKeeps == ASSUME PortInd, NEW h \in Objects, Resume(h) PROVE PortInd'
<1>0. /\ reader[h] = "resolved" /\ carries' = [carries EXCEPT ![h] = 0]
      /\ UNCHANGED <<posted, inbox, line, told, holder, gone>>
  BY DEF Resume, Carry
<1>d. CASE carries[h] # 0 /\ Stays(h)
  <2>1. /\ reader' = [reader EXCEPT ![h] = "fired"] /\ delivered' = Append(delivered, carries[h])
        /\ h = holder /\ carries[h] \in Messages
    BY <1>0, <1>d, PortTypes DEF Resume, Stays, Pump
  <2>2. /\ delivered' \in Seq(Messages) /\ Len(delivered') = Len(delivered) + 1
        /\ Len(delivered) \in Nat /\ DOMAIN delivered = 1 .. Len(delivered)
        /\ DOMAIN delivered' = 1 .. Len(delivered) + 1
        /\ \A i \in DOMAIN delivered : delivered'[i] = delivered[i]
        /\ delivered'[Len(delivered) + 1] = carries[h]
        /\ Elements(delivered') = Elements(delivered) \cup {carries[h]}
    BY <2>1, PortTypes, Appended
  <2>3. \A i \in DOMAIN delivered' : i \in DOMAIN delivered \/ i = Len(delivered) + 1
    BY <2>2
  <2>4. /\ reader' \in [Objects -> Pumps] /\ carries' \in [Objects -> {0} \cup Messages]
        /\ \A g \in Objects \ {h} : reader'[g] = reader[g] /\ carries'[g] = carries[g]
        /\ reader'[h] = "fired" /\ carries'[h] = 0
    BY <1>0, <2>1, PortTypes DEF Pumps
  <2>5. \A i \in DOMAIN delivered : delivered[i] < carries[h]
    BY <1>d, <2>1 DEF PortInd, TakenIs
  <2>6. InOrder'
    <3> SUFFICES ASSUME NEW i \in DOMAIN delivered', NEW j \in DOMAIN delivered', i < j
                 PROVE  delivered'[i] < delivered'[j]
      BY DEF InOrder
    <3>1. i \in DOMAIN delivered
      BY <2>2
    <3>2. CASE j \in DOMAIN delivered
      BY <2>2, <3>1, <3>2 DEF PortInd, PortInv, InOrder
    <3>3. CASE j = Len(delivered) + 1
      BY <2>2, <2>5, <3>1, <3>3
    <3> QED
      BY <2>3, <3>2, <3>3
  <2>7. TakenIs'
    <3>1. carries[h] <= Taken /\ Taken' = Taken
      BY <1>0, <1>d DEF PortInd, TakenIs, Taken
    <3>2. \A i \in DOMAIN delivered' : delivered'[i] <= Taken
      BY <2>2, <2>3, <3>1 DEF PortInd, TakenIs
    <3> QED
      BY <1>0, <2>1, <2>4, <3>1, <3>2 DEF PortInd, TakenIs
  <2>8. Lost' \subseteq Lost
    <3>1. ASSUME NEW x \in Lost' PROVE x \in Lost
      BY <1>0, <2>2, <2>4, <3>1, MembersAre DEF Lost
    <3> QED
      BY <3>1
  <2>9. gone' \/ Cardinality(Lost') <= Cardinality(Left')
    <3>1. holder \in Nat
      BY PortTypes DEF Objects
    <3> QED
      BY <1>0, <2>4, <2>8, <3>1, PortTypes, NoneMoreLost
  <2>10. InboxIs'
    BY <1>0 DEF PortInd, InboxIs, Taken
  <2>11. /\ Elements(line') = {g \in Objects : reader'[g] \in {"queued", "parked"}}
         /\ \A g \in Objects : reader'[g] = "parked" => g = Head(line')
         /\ \A g \in Objects : g > holder' => reader'[g] = "idle"
    BY <1>0, <2>4, PortTypes
  <2> QED
    BY <1>0, <2>2, <2>4, <2>6, <2>7, <2>9, <2>10, <2>11, PortTypes, PortParts
<1>n. CASE ~(carries[h] # 0 /\ Stays(h))
  <2>1. reader' = [reader EXCEPT ![h] = "over"] /\ delivered' = delivered
    BY <1>0, <1>n DEF Resume, Pump
  <2>2. /\ reader' \in [Objects -> Pumps] /\ carries' \in [Objects -> {0} \cup Messages]
        /\ \A g \in Objects \ {h} : reader'[g] = reader[g] /\ carries'[g] = carries[g]
        /\ reader'[h] = "over" /\ carries'[h] = 0
    BY <1>0, <2>1, PortTypes DEF Pumps
  <2>3. TakenIs' /\ InboxIs' /\ InOrder'
    BY <1>0, <2>1, <2>2 DEF PortInd, PortInv, TakenIs, InboxIs, InOrder, Taken
  <2>4. /\ Elements(line') = {g \in Objects : reader'[g] \in {"queued", "parked"}}
        /\ \A g \in Objects : reader'[g] = "parked" => g = Head(line')
        /\ \A g \in Objects : g > holder' => reader'[g] = "idle"
    BY <1>0, <2>2, PortTypes
  <2>5. gone' \/ Cardinality(Lost') <= Cardinality(Left')
    <3>1. CASE carries[h] = 0
      <4>1. Lost' \subseteq Lost /\ holder \in Nat
        BY <1>0, <2>1, <2>2, <3>1, PortTypes DEF Lost, Objects
      <4> QED
        BY <1>0, <2>2, <4>1, PortTypes, NoneMoreLost
    <3>2. CASE carries[h] # 0 /\ h # holder
      BY <1>0, <2>1, <3>2, DropKeeps
    <3>3. CASE gone
      BY <1>0, <3>3
    <3> QED
      BY <1>n, <3>1, <3>2, <3>3 DEF Stays
  <2> QED
    BY <1>0, <2>1, <2>2, <2>3, <2>4, <2>5, PortTypes, PortParts
<1> QED
  BY <1>d, <1>n

(* The port goes to the next holder, or is closed. *)
LEMMA TransferKeeps == ASSUME PortInd, Transfer \/ ClosePort PROVE PortInd'
<1>0. /\ holder' \in {holder, holder + 1} /\ holder' \in Objects /\ holder \in Nat
      /\ (gone => gone') /\ gone' \in BOOLEAN /\ told' \subseteq Objects
      /\ UNCHANGED <<posted, inbox, line, reader, carries, delivered>>
  <2>1. holder \in Objects /\ holder \in Nat /\ told \subseteq Objects
    BY PortTypes DEF Objects
  <2>2. CASE Transfer
    <3>1. holder' = holder + 1 /\ holder + 1 \in Objects
      BY <2>1, <2>2, PortAssumption DEF Transfer, Objects, PortAssumption
    <3> QED
      BY <2>1, <2>2, <3>1, PortTypes DEF Transfer, NotifyWaiters
  <2>3. CASE ClosePort
    BY <2>1, <2>3 DEF ClosePort, NotifyWaiters
  <2> QED
    BY <2>2, <2>3
<1>1. InboxIs' /\ InOrder'
  BY <1>0 DEF PortInd, PortInv, InboxIs, InOrder, Taken
<1>2. TakenIs'
  <2>1. CASE holder' = holder
    BY <1>0, <2>1 DEF PortInd, TakenIs, Taken
  <2>2. CASE holder' = holder + 1
    <3>1. reader[holder'] = "idle"
      BY <1>0, <2>2, PortTypes
    <3>2. carries[holder'] = 0
      BY <1>0, <3>1 DEF PortInd, TakenIs
    <3> QED
      BY <1>0, <3>2 DEF PortInd, TakenIs, Taken
  <2> QED
    BY <1>0, <2>1, <2>2
<1>3. gone' \/ Cardinality(Lost') <= Cardinality(Left')
  <2>1. /\ Lost' \subseteq Lost /\ holder <= holder' /\ posted' \in Nat
        /\ \A h \in Objects : reader[h] = "over" => reader'[h] = "over"
    BY <1>0, PortTypes DEF Lost
  <2>2. gone \/ Cardinality(Lost') <= Cardinality(Left')
    BY <1>0, <2>1, PortTypes, NoneMoreLost
  <2> QED
    BY <1>0, <2>2
<1>4. \A g \in Objects : g > holder' => reader'[g] = "idle"
  BY <1>0, PortTypes DEF Objects
<1> QED
  BY <1>0, <1>1, <1>2, <1>3, <1>4, PortTypes, PortParts

(* Every step keeps the invariant. *)
LEMMA PortStep == PortInd /\ [PortNext]_portVars => PortInd'
<1> SUFFICES ASSUME PortInd, [PortNext]_portVars PROVE PortInd'
  OBVIOUS
<1>1. ASSUME NEW h \in Objects, StartPort(h) PROVE PortInd'
  <2>1. h <= holder
    BY <1>1, PortTypes DEF StartPort, Objects
  <2> QED
    BY <1>1, <2>1, PumpKeeps DEF StartPort, Pumps
<1>2. ASSUME NEW h \in Objects, Again(h) PROVE PortInd'
  <2>1. h <= holder
    BY <1>2, PortTypes DEF Again, Objects
  <2> QED
    BY <1>2, <2>1, PumpKeeps DEF Again, Pumps
<1>3. CASE UNCHANGED portVars
  BY <1>3 DEF portVars, PortInd, PortInv, PortTypeOK, InOrder, LostToTransfers, Once, InboxIs,
              TakenIs, Taken, Lost, Left, Members
<1> QED
  BY <1>1, <1>2, <1>3, PostKeeps, PollKeeps, LockKeeps, MessageKeeps, NullKeeps, ResumeKeeps,
     TransferKeeps
  DEF PortNext, Pumping

(* At first nothing is posted and nobody reads. *)
LEMMA PortStarts == PortInit => PortInd
<1> SUFFICES ASSUME PortInit PROVE PortInd
  OBVIOUS
<1>1. 1 \in Objects /\ MaxPosts \in Nat
  BY PortAssumption DEF PortAssumption, Objects
<1>2. Lost = {} /\ Left = {}
  BY DEF PortInit, Lost, Left
<1>3. Cardinality(Lost) = 0 /\ Cardinality(Left) = 0
  BY <1>2, FS_EmptySet
<1>4. PortTypeOK
  <2>1. /\ reader \in [Objects -> Pumps] /\ carries \in [Objects -> {0} \cup Messages]
        /\ Members(line) = {} /\ posted \in 0 .. MaxPosts /\ holder \in Objects
    BY <1>1 DEF PortInit, Pumps, Members
  <2>2. inbox \in Seq(Messages) /\ line \in Seq(Objects) /\ delivered \in Seq(Messages)
    BY DEF PortInit
  <2>3. \A h \in Objects : reader[h] = "idle"
    BY DEF PortInit
  <2> QED
    BY <2>1, <2>2, <2>3 DEF PortInit, PortTypeOK
<1>5. InboxIs /\ TakenIs /\ Once(line)
  BY DEF PortInit, InboxIs, TakenIs, Taken, Once
<1> QED
  BY <1>3, <1>4, <1>5 DEF PortInit, PortInd, PortInv, InOrder, LostToTransfers

(* For any number of transfers and posts, with readers of several holders in flight:    *)
(* no event is fired twice or before an earlier message's, and every transfer loses     *)
(* one message at most.                                                             *)
THEOREM PortKeeps == PortSpec => []PortInv
<1>1. PortInd => PortInv
  BY DEF PortInd
<1> QED
  BY <1>1, PortStarts, PortStep, PTL DEF PortSpec
=============================================================================
