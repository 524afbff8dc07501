--------------------------- MODULE OutreachProofs ----------------------------
(***************************************************************************)
(* When a notification goes out and how often: the pool that paces the     *)
(* calls of a blast, drips, and schedules.                                 *)
(*                                                                         *)
(* Slots: nextAt is always the interval of the last slot beyond it         *)
(* (Ahead), and a task has no slot before it asks for one (Unslotted).     *)
(* Pool: the line holds queued tasks only, each once, and the workers hold *)
(* exactly the tasks on their way (Line), so that pump() adds as many      *)
(* workers as it takes tasks.                                              *)
(*                                                                         *)
(* Drips: only one of the requests of a lead enrols it (EnrolledOnce); a   *)
(* row that is queued has not been pushed and one that is sent has been,   *)
(* once (RowsTrue), which follows from what the worker has done with the   *)
(* job in hand (HandTrue); and the leads a tick has read were active then, *)
(* or left during the tick (SnapshotTrue).                                 *)
(*                                                                         *)
(* Schedule: one request, timer or fire is under way at a time             *)
(* (OneAtATime); a timer and what it starts are for the time on the row    *)
(* (RightTime); and what has been created is older than that time, until   *)
(* the time moves on (Past).                                               *)
(***************************************************************************)
EXTENDS PartsProofs, Integers, FunctionTheorems, SequenceTheorems

OnTheirWay == {"called", "asleep", "working"}

\* What pump() needs of its arguments.
Orderly(q, running, st) ==
  /\ q \in Seq(PoolParams.Tasks) /\ st \in [PoolParams.Tasks -> Pool!Stages]
  /\ \A i, j \in 1..Len(q) : q[i] = q[j] => i = j
  /\ \A i \in 1..Len(q) : st[q[i]] = "queued"
  /\ \A t \in PoolParams.Tasks : t \in running <=> st[t] \in OnTheirWay
  /\ running \subseteq PoolParams.Tasks /\ IsFiniteSet(running)
  /\ Cardinality(running) <= PoolParams.Concurrency

Line == Orderly(poolQueue, poolActive, stage) /\ Pool!PoolBusy

Timed ==
  /\ poolClock \in Nat /\ nextAt \in Nat /\ interval \in Nat
  /\ wake \in [PoolParams.Tasks -> Nat]
  /\ slots \in Seq([at : Nat, pace : Nat])

Ahead ==
  Len(slots) > 0 => slots[Len(slots)].at + slots[Len(slots)].pace <= nextAt

Unslotted ==
  \A t \in PoolParams.Tasks :
    stage[t] \in {"new", "queued", "called"} => wake[t] = 0

PoolInv == Line /\ Timed /\ Ahead /\ Unslotted /\ Pool!SlotsApart

\* Cardinality is the same operator wherever FiniteSets is instantiated.
LEMMA PoolCardinality == \A S : Pool!Cardinality(S) = Cardinality(S)
BY DEF Pool!Cardinality, Cardinality

LEMMA PoolInvInit == ASSUME Pool!PoolAssumption PROVE Pool!Init => PoolInv
<1> SUFFICES ASSUME Pool!Init PROVE PoolInv
  OBVIOUS
<1>1. Cardinality({}) = 0 /\ IsFiniteSet({})
  BY FS_EmptySet
<1>2. Line
  BY <1>1, PoolCardinality
     DEF Pool!Init, Line, Orderly, Pool!PoolBusy, Pool!Stages, OnTheirWay,
     Pool!PoolAssumption
<1>3. Timed
  BY DEF Pool!Init, Timed, Pool!PoolAssumption
<1>4. Ahead /\ Unslotted /\ Pool!SlotsApart
  BY DEF Pool!Init, Ahead, Unslotted, Pool!SlotsApart
<1> QED
  BY <1>2, <1>3, <1>4 DEF PoolInv

\* What is left of a line when its first n are gone.
LEMMA TailOfLine ==
  ASSUME NEW S, NEW q \in Seq(S), NEW n \in Nat, n <= Len(q)
  PROVE  /\ SubSeq(q, n + 1, Len(q)) \in Seq(S)
         /\ Len(SubSeq(q, n + 1, Len(q))) = Len(q) - n
         /\ \A i \in 1..(Len(q) - n) : SubSeq(q, n + 1, Len(q))[i] = q[n + i]
<1>1. /\ Len(q) \in Nat /\ n + 1 \in Int /\ Len(q) \in Int
      /\ \A i \in (n + 1)..Len(q) : q[i] \in S
  BY ElementOfSeq
<1>2. /\ SubSeq(q, n + 1, Len(q)) \in Seq(S)
      /\ Len(SubSeq(q, n + 1, Len(q))) = IF n + 1 <= Len(q)
           THEN Len(q) - (n + 1) + 1 ELSE 0
      /\ \A i \in 1..(Len(q) - (n + 1) + 1) :
           SubSeq(q, n + 1, Len(q))[i] = q[(n + 1) + i - 1]
  BY <1>1, SubSeqProperties
<1> QED
  BY <1>1, <1>2

\* The first n tasks of a line of tasks that differ are n tasks.
LEMMA FirstOnes ==
  ASSUME NEW q \in Seq(PoolParams.Tasks), \A i,
         j \in 1..Len(q) : q[i] = q[j] => i = j,
         NEW n \in 0..Len(q)
  PROVE  LET taken == {q[i] : i \in 1..n}
         IN  IsFiniteSet(taken) /\ Cardinality(taken) = n
<1> DEFINE taken == {q[i] : i \in 1..n}
           first == [i \in 1..n |-> q[i]]
<1>1. n \in Nat /\ Len(q) \in Nat /\ n <= Len(q)
  OBVIOUS
<1>2. first \in [1..n -> taken] /\ \A i,
          j \in 1..n : first[i] = first[j] => i = j
  BY <1>1
<1>3. \A t \in taken : \E i \in 1..n : first[i] = t
  OBVIOUS
<1>4. ExistsBijection(1..n, taken)
  <2> HIDE DEF first, taken
  <2>1. first \in Bijection(1..n, taken)
    BY <1>2, <1>3, Fun_IsBij
  <2> QED
    BY <2>1 DEF ExistsBijection
<1>5. IsFiniteSet(taken) /\ Cardinality(taken) = n
  <2> HIDE DEF taken
  <2>1. IsFiniteSet(1..n) /\ Cardinality(1..n) = IF 1 > n THEN 0 ELSE n - 1 + 1
    BY <1>1, FS_Interval
  <2> QED
    BY <1>1, <1>4, <2>1, FS_Bijection
<1> QED
  BY <1>5

\* pump() leaves a full pool or an empty line.
LEMMA PumpFills ==
  ASSUME Pool!PoolAssumption, NEW q, NEW running, NEW st,
         Orderly(q, running, st), Pool!Pump(q, running, st)
  PROVE  /\ Line'
         /\ \A t \in PoolParams.Tasks : stage'[t] = st[t]
            \/ (stage'[t] = "called" /\ st[t] = "queued")
<1> DEFINE n == Pool!Lower(PoolParams.Concurrency - Cardinality(running),
                           Len(q))
           taken == {q[i] : i \in 1..n}
<1>1. /\ Len(q) \in Nat /\ Cardinality(running) \in Nat
          /\ PoolParams.Concurrency \in Nat
      /\ Cardinality(running) <= PoolParams.Concurrency
         /\ q \in Seq(PoolParams.Tasks)
      /\ \A i \in 1..Len(q) : q[i] \in PoolParams.Tasks
      /\ IsFiniteSet(running) /\ running \subseteq PoolParams.Tasks
  BY FS_CardinalityType DEF Orderly, Pool!PoolAssumption
<1>2. /\ n \in Nat /\ n <= Len(q)
          /\ n + Cardinality(running) <= PoolParams.Concurrency
      /\ n = Len(q) \/ n + Cardinality(running) = PoolParams.Concurrency
  BY <1>1 DEF Pool!Lower
<1>3. /\ poolQueue' = SubSeq(q, n + 1, Len(q))
      /\ poolActive' = running \cup taken
      /\ stage'
           = [t \in PoolParams.Tasks |-> IF t \in taken THEN "called"
             ELSE st[t]]
  BY PoolCardinality DEF Pool!Pump
<1>4. IsFiniteSet(taken) /\ Cardinality(taken) = n
  <2>1. n \in 0..Len(q)
    BY <1>1, <1>2
  <2>2. \A i, j \in 1..Len(q) : q[i] = q[j] => i = j
    BY DEF Orderly
  <2> HIDE DEF n
  <2> QED
    BY <1>1, <2>1, <2>2, FirstOnes
<1>5. \A t \in taken : t \in PoolParams.Tasks /\ st[t] = "queued"
  <2> HIDE DEF n
  <2> QED
    BY <1>1, <1>2 DEF Orderly
<1> HIDE DEF n
<1>6. running \cap taken = {}
  <2> HIDE DEF taken
  <2> QED
    BY <1>5 DEF Orderly, OnTheirWay
<1>7. IsFiniteSet(poolActive')
          /\ Cardinality(poolActive') = Cardinality(running) + n
  <2> HIDE DEF taken
  <2>1. Cardinality({}) = 0
    BY FS_EmptySet
  <2>2. IsFiniteSet(running \cup taken)
        /\ Cardinality(running \cup taken)
             = Cardinality(running) + Cardinality(taken)
               - Cardinality(running \cap taken)
    BY <1>1, <1>4, FS_Union
  <2>3. Cardinality(running \cap taken) = 0
    BY <1>6, <2>1
  <2>4. Cardinality(running \cup taken) = Cardinality(running) + n
    BY <1>1, <1>2, <1>4, <2>2, <2>3
  <2> QED
    BY <1>3, <2>2, <2>4
<1>8. /\ poolQueue' \in Seq(PoolParams.Tasks)
      /\ Len(poolQueue') = Len(q) - n
      /\ \A i \in 1..(Len(q) - n) : poolQueue'[i] = q[n + i]
  <2> HIDE DEF taken
  <2> QED
    BY <1>1, <1>2, <1>3, TailOfLine
<1>9. Orderly(poolQueue', poolActive', stage')
  <2>1. stage' \in [PoolParams.Tasks -> Pool!Stages]
            /\ poolActive' \subseteq PoolParams.Tasks
    BY <1>1, <1>3, <1>5 DEF Orderly, Pool!Stages
  <2>2. \A i \in 1..Len(poolQueue') : n + i \in 1..Len(q)
            /\ poolQueue'[i] = q[n + i]
    BY <1>1, <1>2, <1>8
  <2>3. \A i, j \in 1..Len(poolQueue') : poolQueue'[i] = poolQueue'[j] => i = j
    <3> SUFFICES ASSUME NEW i \in 1..Len(poolQueue'),
            NEW j \in 1..Len(poolQueue'),
                        poolQueue'[i] = poolQueue'[j]
                 PROVE  i = j
      OBVIOUS
    <3>1. n + i = n + j
      BY <2>2 DEF Orderly
    <3> QED
      BY <1>2, <1>8, <3>1
  <2>4. \A i \in 1..Len(poolQueue') : stage'[poolQueue'[i]] = "queued"
    <3> SUFFICES ASSUME NEW i \in 1..Len(poolQueue')
            PROVE stage'[poolQueue'[i]] = "queued"
      OBVIOUS
    <3>1. n + i \in 1..Len(q) /\ poolQueue'[i] = q[n + i] /\ i > 0
      BY <1>1, <1>8, <2>2
    <3>2. q[n + i] \notin taken
      <4> SUFFICES ASSUME NEW j \in 1..n, q[n + i] = q[j] PROVE FALSE
        OBVIOUS
      <4>1. j \in 1..Len(q)
        BY <1>1, <1>2
      <4>2. n + i = j
        BY <3>1, <4>1 DEF Orderly
      <4> QED
        BY <1>2, <3>1, <4>2
    <3>3. q[n + i] \in PoolParams.Tasks /\ st[q[n + i]] = "queued"
      BY <1>1, <3>1 DEF Orderly
    <3> HIDE DEF taken
    <3> QED
      BY <1>3, <3>1, <3>2, <3>3
  <2>5. \A t \in PoolParams.Tasks : t \in poolActive'
          <=> stage'[t] \in OnTheirWay
    <3> HIDE DEF taken
    <3> QED
      BY <1>3 DEF Orderly, OnTheirWay
  <2>6. Cardinality(poolActive') <= PoolParams.Concurrency
    BY <1>1, <1>2, <1>7
  <2> QED
    BY <1>7, <1>8, <2>1, <2>3, <2>4, <2>5, <2>6 DEF Orderly
<1>10. Pool!PoolBusy'
  <2>1. poolQueue' # <<>> => n # Len(q)
    BY <1>1, <1>8
  <2> QED
    BY <1>1, <1>2, <1>7, <2>1, PoolCardinality DEF Pool!PoolBusy
<1>11. \A t \in PoolParams.Tasks : stage'[t] = st[t]
           \/ (stage'[t] = "called" /\ st[t] = "queued")
  <2> HIDE DEF taken
  <2> QED
    BY <1>3, <1>5
<1> QED
  BY <1>9, <1>10, <1>11 DEF Line

\* A step that gives no slot keeps them apart.
LEMMA NoNewSlot ==
  ASSUME PoolInv, UNCHANGED <<nextAt, slots, wake>>, poolClock' \in Nat,
         poolClock <= poolClock',
         interval' \in Nat,
         \A t \in PoolParams.Tasks : stage'[t] \in {"new", "queued", "called"}
                            => stage[t] \in {"new", "queued", "called"},
         \A t \in PoolParams.Tasks : stage'[t] \in {"working", "done"}
                            => \/ stage[t]
                                    \in {"working", "done", "new", "queued",
                                         "called"}
                               \/ poolClock >= wake[t]
  PROVE  (Timed /\ Ahead /\ Unslotted /\ Pool!SlotsApart)'
<1>1. Timed' /\ Ahead'
  BY DEF PoolInv, Timed, Ahead
<1>2. Unslotted'
  BY DEF PoolInv, Unslotted
<1>3. \A t \in PoolParams.Tasks : stage'[t] \in {"working", "done"}
          => poolClock' >= wake'[t]
  <2> SUFFICES ASSUME NEW t \in PoolParams.Tasks,
          stage'[t] \in {"working", "done"}
               PROVE  poolClock' >= wake[t]
    OBVIOUS
  <2>1. poolClock >= wake[t]
    <3>1. CASE stage[t] \in {"working", "done"}
      BY <3>1 DEF PoolInv, Pool!SlotsApart
    <3>2. CASE stage[t] \in {"new", "queued", "called"}
      BY <3>2 DEF PoolInv, Unslotted, Timed
    <3> QED
      BY <3>1, <3>2
  <2> QED
    BY <2>1 DEF PoolInv, Timed
<1>4. \A i \in 1..(Len(slots') - 1) :
        slots'[i + 1].at >= slots'[i].at + slots'[i].pace
  BY DEF PoolInv, Pool!SlotsApart
<1> QED
  BY <1>1, <1>2, <1>3, <1>4 DEF Pool!SlotsApart

\* wait() reserves a slot behind the last one.
LEMMA WaitPoolInv ==
  ASSUME Pool!PoolAssumption, PoolInv, NEW t \in PoolParams.Tasks, Pool!Wait(t)
  PROVE  PoolInv'
<1>1. /\ stage[t] = "called"
      /\ UNCHANGED <<poolClock, poolQueue, poolActive, interval>>
      /\ stage \in [PoolParams.Tasks -> Pool!Stages]
  BY DEF Pool!Wait, PoolInv, Line, Orderly
<1>2. \E s \in {"asleep", "working"} : stage' = [stage EXCEPT ![t] = s]
  BY DEF Pool!Wait
<1>3. Line'
  <2>1. PICK s \in {"asleep", "working"} : stage' = [stage EXCEPT ![t] = s]
    BY <1>2
  <2>2. \A i \in 1..Len(poolQueue) : poolQueue[i] # t
            /\ poolQueue[i] \in PoolParams.Tasks
    <3>1. \A i \in 1..Len(poolQueue) : poolQueue[i] \in PoolParams.Tasks
              /\ stage[poolQueue[i]] = "queued"
      BY DEF PoolInv, Line, Orderly
    <3> QED
      BY <1>1, <3>1
  <2>3. stage' \in [PoolParams.Tasks -> Pool!Stages]
    BY <1>1, <2>1 DEF Pool!Stages
  <2>4. \A i \in 1..Len(poolQueue) : stage'[poolQueue[i]] = "queued"
    BY <1>1, <2>1, <2>2 DEF PoolInv, Line, Orderly
  <2>5. \A u \in PoolParams.Tasks : u \in poolActive
          <=> stage'[u] \in OnTheirWay
    BY <1>1, <2>1 DEF PoolInv, Line, Orderly, OnTheirWay
  <2> QED
    BY <1>1, <2>3, <2>4, <2>5 DEF PoolInv, Line, Orderly, Pool!PoolBusy
<1>4. CASE interval = 0
  <2>1. stage' = [stage EXCEPT ![t] = "working"]
          /\ UNCHANGED <<wake, nextAt, slots>>
    BY <1>4 DEF Pool!Wait
  <2>2. (Timed /\ Ahead /\ Unslotted /\ Pool!SlotsApart)'
    BY <1>1, <2>1, NoNewSlot DEF PoolInv, Timed
  <2> QED
    BY <1>3, <2>2 DEF PoolInv
<1>5. CASE interval # 0
  <2>1. /\ nextAt' = Pool!Reserved + interval
        /\ slots' = Append(slots, [at |-> Pool!Reserved, pace |-> interval])
        /\ wake' = [wake EXCEPT ![t] = Pool!Reserved]
        /\ stage'
             = [stage EXCEPT ![t] = IF Pool!Reserved > poolClock
               THEN "asleep" ELSE "working"]
    BY <1>5 DEF Pool!Wait
  <2>2. /\ poolClock \in Nat /\ nextAt \in Nat /\ interval \in Nat
        /\ wake \in [PoolParams.Tasks -> Nat]
           /\ slots \in Seq([at : Nat, pace : Nat])
    BY DEF PoolInv, Timed
  <2>3. Pool!Reserved \in Nat /\ Pool!Reserved >= nextAt
    BY <2>2 DEF Pool!Reserved
  <2>4. [at |-> Pool!Reserved, pace |-> interval] \in [at : Nat, pace : Nat]
    BY <2>2, <2>3
  <2>5. /\ slots' \in Seq([at : Nat, pace : Nat])
        /\ Len(slots) \in Nat /\ Len(slots') = Len(slots) + 1
        /\ slots'[Len(slots) + 1] = [at |-> Pool!Reserved, pace |-> interval]
        /\ \A i \in 1..Len(slots) : slots'[i] = slots[i]
    BY <2>1, <2>2, <2>4, AppendProperties, LenProperties
  <2>6. Timed'
    BY <1>1, <2>1, <2>2, <2>3, <2>5 DEF Timed
  <2>7. Ahead'
    BY <2>1, <2>2, <2>3, <2>5 DEF Ahead
  <2>8. Unslotted'
    BY <1>1, <2>1, <2>2 DEF PoolInv, Unslotted
  <2>9. \A u \in PoolParams.Tasks : stage'[u] \in {"working", "done"}
            => poolClock' >= wake'[u]
    <3> SUFFICES ASSUME NEW u \in PoolParams.Tasks,
            stage'[u] \in {"working", "done"}
                 PROVE  poolClock >= wake'[u]
      BY <1>1
    <3>1. CASE u = t
      BY <1>1, <2>1, <2>2, <2>3, <3>1
    <3>2. CASE u # t
      BY <1>1, <2>1, <2>2, <3>2 DEF PoolInv, Pool!SlotsApart
    <3> QED
      BY <3>1, <3>2
  <2>10. \A i \in 1..(Len(slots') - 1) :
           slots'[i + 1].at >= slots'[i].at + slots'[i].pace
    <3>0. Len(slots') - 1 = Len(slots)
      BY <2>5
    <3> SUFFICES ASSUME NEW i \in 1..Len(slots)
                 PROVE  slots'[i + 1].at >= slots'[i].at + slots'[i].pace
      BY <3>0, Zenon
    <3>1. CASE i < Len(slots)
      <4>0. Len(slots) \in Nat
        BY <2>5
      <4>1. i \in 1..(Len(slots) - 1) /\ i + 1 \in 1..Len(slots)
        BY <3>1, <4>0
      <4>2. slots[i + 1].at >= slots[i].at + slots[i].pace
        BY <4>1 DEF PoolInv, Pool!SlotsApart
      <4> QED
        BY <2>5, <4>1, <4>2
    <3>2. CASE i = Len(slots)
      <4>1. /\ slots[i].at + slots[i].pace <= nextAt
            /\ slots[i].at \in Nat /\ slots[i].pace \in Nat
        <5>1. slots[i] \in [at : Nat, pace : Nat]
          BY <2>2, ElementOfSeq
        <5> QED
          BY <2>5, <3>2, <5>1 DEF PoolInv, Ahead
      <4>2. slots'[i + 1].at = Pool!Reserved /\ slots'[i] = slots[i]
        BY <2>5, <3>2
      <4>3. nextAt \in Nat /\ Pool!Reserved \in Nat /\ nextAt <= Pool!Reserved
        BY <2>2, <2>3
      <4> QED
        BY <4>1, <4>2, <4>3
    <3> QED
      BY <2>5, <3>1, <3>2
  <2> QED
    BY <1>3, <2>6, <2>7, <2>8, <2>9, <2>10 DEF PoolInv, Pool!SlotsApart
<1> QED
  BY <1>4, <1>5

LEMMA PoolInvStep == ASSUME Pool!PoolAssumption
  PROVE PoolInv /\ [Pool!Next]_(Pool!vars) => PoolInv'
<1> SUFFICES ASSUME PoolInv, [Pool!Next]_(Pool!vars) PROVE PoolInv'
  OBVIOUS
<1>0. /\ poolClock \in Nat /\ interval \in Nat
          /\ stage \in [PoolParams.Tasks -> Pool!Stages]
      /\ poolQueue \in Seq(PoolParams.Tasks)
  BY DEF PoolInv, Timed, Line, Orderly
<1>1. ASSUME NEW t \in PoolParams.Tasks, Pool!Add(t) PROVE PoolInv'
  <2> DEFINE q == Append(poolQueue, t)
             st == [stage EXCEPT ![t] = "queued"]
  <2>1. /\ stage[t] = "new" /\ Pool!Pump(q, poolActive, st)
        /\ UNCHANGED <<poolClock, wake, interval, nextAt, slots>>
    BY <1>1 DEF Pool!Add
  <2>2. /\ q \in Seq(PoolParams.Tasks) /\ Len(poolQueue) \in Nat
            /\ Len(q) = Len(poolQueue) + 1
        /\ q[Len(poolQueue) + 1] = t
           /\ \A i \in 1..Len(poolQueue) : q[i] = poolQueue[i]
    BY <1>0, AppendProperties, LenProperties
  <2>3. \A i \in 1..Len(poolQueue) : /\ poolQueue[i] # t
            /\ poolQueue[i] \in PoolParams.Tasks
                                 /\ stage[poolQueue[i]] = "queued"
    <3>1. \A i \in 1..Len(poolQueue) : poolQueue[i] \in PoolParams.Tasks
              /\ stage[poolQueue[i]] = "queued"
      BY DEF PoolInv, Line, Orderly
    <3> QED
      BY <2>1, <3>1
  <2>4. \A i, j \in 1..Len(q) : q[i] = q[j] => i = j
    <3> HIDE DEF q
    <3>1. \A i, j \in 1..Len(poolQueue) : poolQueue[i] = poolQueue[j] => i = j
      BY DEF PoolInv, Line, Orderly
    <3> QED
      BY <2>2, <2>3, <3>1
  <2>5. \A i \in 1..Len(q) : st[q[i]] = "queued"
    <3> HIDE DEF q
    <3> QED
      BY <1>0, <2>2, <2>3
  <2>6. /\ st \in [PoolParams.Tasks -> Pool!Stages]
        /\ \A u \in PoolParams.Tasks : u \in poolActive
             <=> st[u] \in OnTheirWay
    BY <1>0, <2>1 DEF PoolInv, Line, Orderly, OnTheirWay, Pool!Stages
  <2>7. Orderly(q, poolActive, st)
    <3> HIDE DEF q, st
    <3> QED
      BY <2>2, <2>4, <2>5, <2>6 DEF PoolInv, Line, Orderly
  <2>8. /\ Line'
        /\ \A u \in PoolParams.Tasks : stage'[u] = st[u]
           \/ (stage'[u] = "called" /\ st[u] = "queued")
    <3> HIDE DEF q, st
    <3> QED
      BY <2>1, <2>7, PumpFills
  <2>9. \A u \in PoolParams.Tasks : st[u] = stage[u]
            \/ (st[u] = "queued" /\ stage[u] = "new")
    BY <1>0, <2>1
  <2>10. (Timed /\ Ahead /\ Unslotted /\ Pool!SlotsApart)'
    <3> HIDE DEF q, st
    <3>1. \A u \in PoolParams.Tasks :
            \/ stage'[u] = stage[u]
            \/ stage'[u] \in {"queued", "called"}
                 /\ stage[u] \in {"new", "queued"}
      BY <2>8, <2>9
    <3> QED
      BY <1>0, <2>1, <3>1, NoNewSlot
  <2> QED
    BY <2>8, <2>10 DEF PoolInv
<1>2. ASSUME NEW t \in PoolParams.Tasks, Pool!End(t) PROVE PoolInv'
  <2> DEFINE st == [stage EXCEPT ![t] = "done"]
             running == poolActive \ {t}
  <2>1. /\ stage[t] = "working" /\ Pool!Pump(poolQueue, running, st)
        /\ UNCHANGED <<poolClock, wake, interval, nextAt, slots>>
    BY <1>2 DEF Pool!End
  <2>2. /\ st \in [PoolParams.Tasks -> Pool!Stages]
        /\ \A u \in PoolParams.Tasks : u \in running <=> st[u] \in OnTheirWay
    BY <1>0, <2>1 DEF PoolInv, Line, Orderly, OnTheirWay, Pool!Stages
  <2>3. \A i \in 1..Len(poolQueue) : st[poolQueue[i]] = "queued"
    <3>1. \A i \in 1..Len(poolQueue) : poolQueue[i] \in PoolParams.Tasks
              /\ stage[poolQueue[i]] = "queued"
      BY DEF PoolInv, Line, Orderly
    <3> QED
      BY <1>0, <2>1, <3>1
  <2>4. /\ IsFiniteSet(running) /\ running \subseteq PoolParams.Tasks
        /\ Cardinality(running) <= PoolParams.Concurrency
    <3>1. IsFiniteSet(poolActive) /\ poolActive \subseteq PoolParams.Tasks
              /\ Cardinality(poolActive) <= PoolParams.Concurrency
      BY DEF PoolInv, Line, Orderly
    <3>2. running \in SUBSET poolActive
      OBVIOUS
    <3> HIDE DEF running
    <3>3. IsFiniteSet(running)
              /\ Cardinality(running) <= Cardinality(poolActive)
      BY <3>1, <3>2, FS_Subset
    <3>4. Cardinality(running) \in Nat /\ Cardinality(poolActive) \in Nat
      BY <3>1, <3>3, FS_CardinalityType
    <3> QED
      BY <3>1, <3>2, <3>3, <3>4 DEF Pool!PoolAssumption
  <2>5. Orderly(poolQueue, running, st)
    <3> HIDE DEF running, st
    <3> QED
      BY <2>2, <2>3, <2>4 DEF PoolInv, Line, Orderly
  <2>6. /\ Line'
        /\ \A u \in PoolParams.Tasks : stage'[u] = st[u]
           \/ (stage'[u] = "called" /\ st[u] = "queued")
    <3> HIDE DEF running, st
    <3> QED
      BY <2>1, <2>5, PumpFills
  <2>7. \A u \in PoolParams.Tasks : st[u] = stage[u]
            \/ (st[u] = "done" /\ stage[u] = "working")
    BY <1>0, <2>1
  <2>8. (Timed /\ Ahead /\ Unslotted /\ Pool!SlotsApart)'
    <3> HIDE DEF st
    <3>1. \A u \in PoolParams.Tasks :
            \/ stage'[u] = stage[u]
            \/ stage'[u] = "called" /\ stage[u] = "queued"
            \/ stage'[u] = "done" /\ stage[u] = "working"
      BY <2>6, <2>7
    <3> QED
      BY <1>0, <2>1, <3>1, NoNewSlot
  <2> QED
    BY <2>6, <2>8 DEF PoolInv
<1>3. ASSUME NEW t \in PoolParams.Tasks, Pool!Wait(t) PROVE PoolInv'
  BY <1>3, WaitPoolInv
<1>4. ASSUME NEW t \in PoolParams.Tasks, Pool!Wake(t) PROVE PoolInv'
  <2>1. /\ stage[t] = "asleep" /\ poolClock >= wake[t]
        /\ stage' = [stage EXCEPT ![t] = "working"]
        /\ UNCHANGED <<poolClock, poolQueue, poolActive, wake, interval,
                       nextAt, slots>>
    BY <1>4 DEF Pool!Wake
  <2>2. \A i \in 1..Len(poolQueue) : poolQueue[i] \in PoolParams.Tasks
            /\ stage[poolQueue[i]] = "queued"
    BY DEF PoolInv, Line, Orderly
  <2>3. /\ stage' \in [PoolParams.Tasks -> Pool!Stages]
        /\ \A i \in 1..Len(poolQueue) : stage'[poolQueue[i]] = "queued"
        /\ \A u \in PoolParams.Tasks : u \in poolActive
             <=> stage'[u] \in OnTheirWay
    BY <1>0, <2>1, <2>2 DEF PoolInv, Line, Orderly, OnTheirWay, Pool!Stages
  <2>4. Line'
    BY <2>1, <2>3 DEF PoolInv, Line, Orderly, Pool!PoolBusy
  <2>5. (Timed /\ Ahead /\ Unslotted /\ Pool!SlotsApart)'
    BY <1>0, <2>1, NoNewSlot
  <2> QED
    BY <2>4, <2>5 DEF PoolInv
<1>5. ASSUME NEW i \in PoolParams.Intervals, Pool!SetPerMinute(i)
          PROVE PoolInv'
  <2>1. interval' = i
          /\ UNCHANGED <<poolClock, poolQueue, poolActive, stage, wake,
                         nextAt, slots>>
    BY <1>5 DEF Pool!SetPerMinute
  <2>2. i \in Nat
    BY DEF Pool!PoolAssumption
  <2>3. Line'
    BY <2>1 DEF PoolInv, Line, Orderly, Pool!PoolBusy
  <2>4. (Timed /\ Ahead /\ Unslotted /\ Pool!SlotsApart)'
    BY <1>0, <2>1, <2>2, NoNewSlot
  <2> QED
    BY <2>3, <2>4 DEF PoolInv
<1>6. CASE Pool!Tick
  <2>1. poolClock' = poolClock + 1
          /\ UNCHANGED <<poolQueue, poolActive, stage, wake, interval, nextAt,
                         slots>>
    BY <1>6 DEF Pool!Tick
  <2>2. Line'
    BY <2>1 DEF PoolInv, Line, Orderly, Pool!PoolBusy
  <2>3. (Timed /\ Ahead /\ Unslotted /\ Pool!SlotsApart)'
    BY <1>0, <2>1, NoNewSlot
  <2> QED
    BY <2>2, <2>3 DEF PoolInv
<1>7. CASE UNCHANGED Pool!vars
  BY <1>7
     DEF Pool!vars, PoolInv, Line, Orderly, Pool!PoolBusy, Timed, Ahead,
     Unslotted, Pool!SlotsApart
<1> QED
  BY <1>1, <1>2, <1>3, <1>4, <1>5, <1>6, <1>7 DEF Pool!Next

\* The pool leaves nobody waiting while a worker is free, and gives the slots
\* of a blast out at least an interval apart, however the pace is changed
\* meanwhile (task-pool.ts:21-32, 54-60).
THEOREM PoolIsPaced == Spec => []PacedPool
<1> DEFINE I == part = "pool" => PoolInv
<1>1. Init => I
  BY PartsAssumption, PoolInvInit DEF Init
<1>2. I /\ [Next]_vars => I'
  BY PartsAssumption, PartSteps, PoolInvStep
<1>3. I => PacedPool
  BY DEF PoolInv, Line, PacedPool, Pool!PacedPool
<1> QED
  BY <1>1, <1>2, <1>3, PTL DEF Spec

-----------------------------------------------------------------------------
Statuses == {"none", "queued", "sending", "sent", "failed", "cancelled"}

DripTypes ==
  /\ dripsLead
       \in [DripsParams.Leads -> {"none", "active", "unsubscribed", "expired"}]
  /\ dripsJob \in [Drips!Jobs -> Statuses]
  /\ send \in [Drips!Jobs -> {"none", "queued", "sent", "expired", "failed"}]
  /\ pushed \in [Drips!Jobs -> Nat]
  /\ of \in [DripsParams.Requests -> DripsParams.Leads
       \cup {DripsParams.NoLead}]
  /\ dripsRequest
       \in [DripsParams.Requests -> {"none", "upsert", "enqueue", "ended"}]
  /\ known \in [DripsParams.Requests -> BOOLEAN]
  /\ due \subseteq Drips!Jobs /\ batch \subseteq Drips!Jobs
  /\ \/ current = {}
     \/ \E j \in Drips!Jobs : current = {j}

\* What the rows of the jobs say.
RowsTrue ==
  \A j \in Drips!Jobs :
    /\ dripsJob[j] \in {"none", "queued"} => pushed[j] = 0
    /\ dripsJob[j] = "sent" => pushed[j] = 1 /\ send[j] = "sent"
    /\ pushed[j] <= 1

\* The job in hand, by where it is.
HandTrue ==
  /\ \A j \in batch : dripsJob[j] # "none"
  /\ \A j \in current :
       /\ dripsJob[j] # "none"
       /\ dripsPc \in {"check", "push"}
            => dripsJob[j] = "sending" /\ pushed[j] = 0
       /\ dripsPc
            \in {"sentSend", "goneSend", "failSend", "goneLead", "sentJob",
                 "failJob"}
            => dripsJob[j] = "sending"
       /\ dripsPc \in {"sentSend", "sentJob"} => pushed[j] = 1
       /\ dripsPc = "sentJob" => send[j] = "sent"

\* The request's lead is on the automation, or about to be.
Enrols(r) ==
  \/ dripsRequest[r] = "enqueue"
  \/ \E j \in Drips!Jobs : j[1] = r /\ dripsJob[j] # "none"

\* One request enrols a lead: it found no lead when it looked, and no other was
\* between its lookup and its upsert.
EnrolledOnce ==
  /\ \A j \in Drips!Jobs : dripsJob[j] # "none" => dripsRequest[j[1]] = "ended"
  /\ \A r \in DripsParams.Requests : dripsRequest[r] # "none"
       => of[r] \in DripsParams.Leads
  /\ \A r, q \in DripsParams.Requests :
       r # q /\ of[r] = of[q] => ~(Enrols(r) /\ Enrols(q))
  /\ \A r, q \in DripsParams.Requests :
       r # q /\ dripsRequest[r] = "upsert" /\ dripsRequest[q] = "upsert"
         => of[r] # of[q]
  /\ \A r \in DripsParams.Requests : Enrols(r) => dripsLead[of[r]] # "none"
  /\ \A r \in DripsParams.Requests :
       dripsRequest[r] = "upsert" /\ ~known[r] => dripsLead[of[r]] = "none"

\* The leads of the tick were active when it read its jobs.
SnapshotTrue ==
  /\ snapshot \subseteq DripsParams.Leads
  /\ \A l \in snapshot : dripsLead[l] # "unsubscribed" \/ l \in leftInTick
  /\ dripsPc = "push" => \A j \in current : of[j[1]] \in snapshot

DripInv == DripTypes /\ RowsTrue /\ HandTrue /\ EnrolledOnce /\ SnapshotTrue

LEMMA DripInit == Drips!AutomationsAssumption /\ Drips!Init => DripInv
<1> SUFFICES ASSUME Drips!AutomationsAssumption, Drips!Init PROVE DripInv
  OBVIOUS
<1>1. DripTypes
  BY DEF Drips!Init, DripTypes, Statuses
<1>2. RowsTrue /\ HandTrue
  BY DEF Drips!Init, RowsTrue, HandTrue
<1>3. \A j \in Drips!Jobs : dripsJob[j] = "none"
  BY DEF Drips!Init
<1>4. \A r \in DripsParams.Requests : ~Enrols(r) /\ dripsRequest[r] = "none"
  BY <1>3 DEF Drips!Init, Enrols
<1>5. EnrolledOnce
  BY <1>3, <1>4 DEF EnrolledOnce
<1>6. SnapshotTrue
  BY DEF Drips!Init, SnapshotTrue
<1> QED
  BY <1>1, <1>2, <1>5, <1>6 DEF DripInv

\* A step of the poller or of a cancellation that writes one row of a job which
\* was there enrols nobody.
LEMMA EnrolKept ==
  ASSUME DripTypes, DripTypes', EnrolledOnce,
         UNCHANGED <<of, dripsRequest, known>>,
         \A j \in Drips!Jobs : dripsJob'[j] # "none" => dripsJob[j] # "none",
         \A l \in DripsParams.Leads : (dripsLead'[l] = "none")
           <=> (dripsLead[l] = "none")
  PROVE  EnrolledOnce'
<1>1. \A r \in DripsParams.Requests : Enrols(r)' => Enrols(r)
  BY DEF Enrols
<1>2. \A r \in DripsParams.Requests : Enrols(r) => of[r] \in DripsParams.Leads
  BY DEF Enrols, EnrolledOnce, Drips!Jobs
<1> QED
  BY <1>1, <1>2 DEF EnrolledOnce

LEMMA DripLookup ==
  ASSUME Drips!AutomationsAssumption, DripInv, NEW r \in DripsParams.Requests,
         NEW l \in DripsParams.Leads,
         Drips!SubscribeLookup(r, l)
  PROVE  DripInv'
<1> USE DEF DripInv
<1>0. /\ dripsRequest[r] = "none" /\ of' = [of EXCEPT ![r] = l]
      /\ known' = [known EXCEPT ![r] = dripsLead[l] # "none"]
      /\ dripsRequest' = [dripsRequest EXCEPT ![r] = "upsert"]
      /\ UNCHANGED <<dripsLead, dripsActive, dripsJob, due, send, cancels,
                     dripsPc, batch, current, snapshot, pushed, leftInTick>>
      /\ \A q \in DripsParams.Requests : dripsRequest[q] = "upsert"
           => of[q] # l
  BY DEF Drips!SubscribeLookup, Drips!tickVars
<1>1. DripTypes'
  BY <1>0 DEF DripTypes
<1>2. RowsTrue' /\ HandTrue'
  BY <1>0 DEF RowsTrue, HandTrue
<1>3. \A j \in Drips!Jobs : dripsJob[j] # "none"
        => j[1] # r /\ j[1] \in DripsParams.Requests
  BY <1>0 DEF EnrolledOnce, Drips!Jobs
<1>4. \A q \in DripsParams.Requests : Enrols(q)'
        => Enrols(q) /\ q # r /\ of'[q] = of[q]
  BY <1>0, <1>3 DEF Enrols, DripTypes
<1>5. EnrolledOnce'
  <2>1. \A j \in Drips!Jobs : dripsJob'[j] # "none"
          => dripsRequest'[j[1]] = "ended"
    BY <1>0, <1>3 DEF EnrolledOnce, DripTypes
  <2>2. \A q \in DripsParams.Requests : dripsRequest'[q] # "none"
          => of'[q] \in DripsParams.Leads
    BY <1>0 DEF EnrolledOnce, DripTypes
  <2>3. \A q, p \in DripsParams.Requests :
          q # p /\ of'[q] = of'[p] => ~(Enrols(q)' /\ Enrols(p)')
    BY <1>4 DEF EnrolledOnce
  <2>4. \A q, p \in DripsParams.Requests :
          q # p /\ dripsRequest'[q] = "upsert" /\ dripsRequest'[p] = "upsert"
            => of'[q] # of'[p]
    BY <1>0 DEF EnrolledOnce, DripTypes
  <2>5. \A q \in DripsParams.Requests : Enrols(q)'
          => dripsLead'[of'[q]] # "none"
    BY <1>0, <1>4 DEF EnrolledOnce
  <2>6. \A q \in DripsParams.Requests :
          dripsRequest'[q] = "upsert" /\ ~known'[q]
            => dripsLead'[of'[q]] = "none"
    BY <1>0 DEF EnrolledOnce, DripTypes
  <2> QED
    BY <2>1, <2>2, <2>3, <2>4, <2>5, <2>6 DEF EnrolledOnce
<1>6. SnapshotTrue'
  <2>1. dripsPc' = "push" => \A j \in current' : of'[j[1]] \in snapshot'
    BY <1>0, <1>3 DEF SnapshotTrue, HandTrue, DripTypes
  <2> QED
    BY <1>0, <2>1 DEF SnapshotTrue
<1> QED
  BY <1>1, <1>2, <1>5, <1>6

LEMMA DripUpsert ==
  ASSUME Drips!AutomationsAssumption, DripInv, NEW r \in DripsParams.Requests,
         Drips!SubscribeUpsert(r)
  PROVE  DripInv'
<1> USE DEF DripInv
<1>0. /\ dripsRequest[r] = "upsert"
      /\ dripsLead' = [dripsLead EXCEPT ![of[r]] = "active"]
      /\ dripsRequest' = [dripsRequest EXCEPT
                       ![r] = IF known[r] THEN "ended" ELSE "enqueue"]
      /\ UNCHANGED <<dripsActive, dripsJob, due, send, of, known, cancels,
                     dripsPc, batch, current, snapshot, pushed, leftInTick>>
  BY DEF Drips!SubscribeUpsert, Drips!tickVars
<1>1. DripTypes'
  BY <1>0 DEF DripTypes
<1>2. RowsTrue' /\ HandTrue'
  BY <1>0 DEF RowsTrue, HandTrue
<1>3. of[r] \in DripsParams.Leads /\ dripsLead'[of[r]] = "active"
  BY <1>0 DEF EnrolledOnce, DripTypes
<1>4. \A j \in Drips!Jobs : dripsJob[j] # "none"
        => j[1] # r /\ j[1] \in DripsParams.Requests
  BY <1>0 DEF EnrolledOnce, Drips!Jobs
<1>5. \A q \in DripsParams.Requests :
        Enrols(q)' => \/ q # r /\ Enrols(q)
                      \/ q = r /\ ~known[r]
  BY <1>0, <1>4 DEF Enrols, DripTypes
<1>6. EnrolledOnce'
  <2>1. \A j \in Drips!Jobs : dripsJob'[j] # "none"
          => dripsRequest'[j[1]] = "ended"
    BY <1>0, <1>4 DEF EnrolledOnce, DripTypes
  <2>2. \A q \in DripsParams.Requests : dripsRequest'[q] # "none"
          => of'[q] \in DripsParams.Leads
    BY <1>0, <1>3 DEF EnrolledOnce, DripTypes
  <2>3. ~known[r] => \A q \in DripsParams.Requests :
                        q # r /\ of[q] = of[r] => ~Enrols(q)
    BY <1>0 DEF EnrolledOnce
  <2>4. \A q, p \in DripsParams.Requests :
          q # p /\ of'[q] = of'[p] => ~(Enrols(q)' /\ Enrols(p)')
    BY <1>0, <1>5, <2>3 DEF EnrolledOnce
  <2>5. \A q, p \in DripsParams.Requests :
          q # p /\ dripsRequest'[q] = "upsert" /\ dripsRequest'[p] = "upsert"
            => of'[q] # of'[p]
    BY <1>0 DEF EnrolledOnce, DripTypes
  <2>6. \A q \in DripsParams.Requests : Enrols(q)
          => of[q] \in DripsParams.Leads
    BY DEF Enrols, EnrolledOnce, Drips!Jobs
  <2>7. \A q \in DripsParams.Requests : Enrols(q)'
          => dripsLead'[of'[q]] # "none"
    BY <1>0, <1>3, <1>5, <2>6 DEF EnrolledOnce, DripTypes
  <2>8. \A q \in DripsParams.Requests :
          dripsRequest'[q] = "upsert" /\ ~known'[q]
            => q # r /\ dripsRequest[q] = "upsert" /\ of[q] # of[r]
                 /\ ~known[q]
    BY <1>0 DEF EnrolledOnce, DripTypes
  <2>9. \A q \in DripsParams.Requests :
          dripsRequest'[q] = "upsert" /\ ~known'[q]
            => dripsLead'[of'[q]] = "none"
    BY <1>0, <1>3, <2>8 DEF EnrolledOnce, DripTypes
  <2> QED
    BY <2>1, <2>2, <2>4, <2>5, <2>7, <2>9 DEF EnrolledOnce
<1>7. SnapshotTrue'
  BY <1>0, <1>3 DEF SnapshotTrue, DripTypes
<1> QED
  BY <1>1, <1>2, <1>6, <1>7

LEMMA DripEnqueue ==
  ASSUME Drips!AutomationsAssumption, DripInv, NEW r \in DripsParams.Requests,
         Drips!Enqueue(r)
  PROVE  DripInv'
<1> USE DEF DripInv
<1>0. /\ dripsRequest[r] = "enqueue"
      /\ dripsRequest' = [dripsRequest EXCEPT ![r] = "ended"]
      /\ dripsJob'
           = [j \in Drips!Jobs |-> IF dripsActive /\ j[1] = r THEN "queued"
             ELSE dripsJob[j]]
      /\ UNCHANGED <<dripsLead, dripsActive, due, send, of, known, cancels,
                     dripsPc, batch, current, snapshot, pushed, leftInTick>>
  BY DEF Drips!Enqueue, Drips!tickVars
<1>1. \A j \in Drips!Jobs : dripsJob[j] # "none"
        => j[1] # r /\ dripsJob'[j] = dripsJob[j]
  BY <1>0 DEF EnrolledOnce
<1>2. \A j \in Drips!Jobs : dripsJob'[j] # "none"
        => j[1] = r \/ dripsJob[j] # "none"
  BY <1>0
<1>3. \A j \in Drips!Jobs :
        dripsJob'[j] = dripsJob[j]
          \/ (dripsJob'[j] = "queued" /\ dripsJob[j] = "none")
  BY <1>0, <1>1
<1>4. DripTypes'
  BY <1>0 DEF DripTypes, Statuses
<1>5. RowsTrue'
  BY <1>0, <1>3 DEF RowsTrue
<1>6. HandTrue'
  BY <1>0, <1>1 DEF HandTrue, DripTypes
<1>7. \A q \in DripsParams.Requests : Enrols(q)' => Enrols(q)
  BY <1>0, <1>2 DEF Enrols, DripTypes
<1>8. EnrolledOnce'
  <2>1. \A j \in Drips!Jobs : dripsJob'[j] # "none"
          => dripsRequest'[j[1]] = "ended"
    BY <1>0, <1>2 DEF EnrolledOnce, DripTypes, Drips!Jobs
  <2>2. \A q \in DripsParams.Requests :
          dripsRequest'[q] # "none" => dripsRequest[q] # "none"
    BY <1>0 DEF DripTypes
  <2>3. \A q \in DripsParams.Requests : dripsRequest'[q] = "upsert"
          => dripsRequest[q] = "upsert"
    BY <1>0 DEF DripTypes
  <2> QED
    BY <1>0, <1>7, <2>1, <2>2, <2>3 DEF EnrolledOnce
<1>9. SnapshotTrue'
  BY <1>0 DEF SnapshotTrue
<1> QED
  BY <1>4, <1>5, <1>6, <1>8, <1>9

LEMMA DripLeave ==
  ASSUME Drips!AutomationsAssumption, DripInv, NEW l \in DripsParams.Leads,
         Drips!Unsubscribe(l) \/ Drips!Cancel(l)
  PROVE  DripInv'
<1> USE DEF DripInv
<1>1. CASE Drips!Unsubscribe(l)
  <2>0. /\ dripsLead[l] # "none"
        /\ dripsLead' = [dripsLead EXCEPT ![l] = "unsubscribed"]
        /\ leftInTick' = leftInTick \cup {l}
        /\ UNCHANGED <<dripsActive, dripsJob, due, send, of, dripsRequest,
                       known, dripsPc, batch, current, snapshot, pushed>>
    BY <1>1 DEF Drips!Unsubscribe, Drips!subVars, Drips!tickVars
  <2>1. DripTypes'
    BY <2>0 DEF DripTypes
  <2>2. RowsTrue' /\ HandTrue'
    BY <2>0 DEF RowsTrue, HandTrue
  <2>3. EnrolledOnce'
    <3>1. \A k \in DripsParams.Leads : (dripsLead'[k] = "none")
            <=> (dripsLead[k] = "none")
      BY <2>0 DEF DripTypes
    <3> QED
      BY <2>0, <2>1, <3>1, EnrolKept
  <2>4. SnapshotTrue'
    BY <2>0 DEF SnapshotTrue, DripTypes
  <2> QED
    BY <2>1, <2>2, <2>3, <2>4
<1>2. CASE Drips!Cancel(l)
  <2>0. /\ dripsJob'
             = [j \in Drips!Jobs |-> IF of[j[1]] = l /\ dripsJob[j] = "queued"
                                  THEN "cancelled" ELSE dripsJob[j]]
        /\ UNCHANGED <<dripsLead, dripsActive, due, send, of, dripsRequest,
                       known, dripsPc, batch, current, snapshot, pushed,
                       leftInTick>>
    BY <1>2 DEF Drips!Cancel, Drips!subVars, Drips!tickVars
  <2>1. \A j \in Drips!Jobs : \/ dripsJob'[j] = dripsJob[j]
                              \/ dripsJob'[j] = "cancelled"
                                   /\ dripsJob[j] = "queued"
    BY <2>0
  <2>2. DripTypes'
    BY <2>0 DEF DripTypes, Statuses
  <2>3. RowsTrue'
    BY <2>0, <2>1 DEF RowsTrue
  <2>4. HandTrue'
    BY <2>0, <2>1 DEF HandTrue, DripTypes
  <2>5. EnrolledOnce'
    BY <2>0, <2>1, <2>2, EnrolKept
  <2>6. SnapshotTrue'
    BY <2>0 DEF SnapshotTrue
  <2> QED
    BY <2>2, <2>3, <2>4, <2>5, <2>6
<1> QED
  BY <1>1, <1>2

LEMMA DripQuiet ==
  ASSUME Drips!AutomationsAssumption, DripInv,
         Drips!Toggle \/ (\E j \in Drips!Jobs : Drips!FallDue(j))
           \/ Drips!TickRead \/ Drips!NextJob
  PROVE  DripInv'
<1> USE DEF DripInv
<1>1. CASE Drips!Toggle
  <2>0. UNCHANGED <<dripsLead, dripsJob, due, send, of, dripsRequest, known,
                    cancels, dripsPc, batch, current, snapshot, pushed,
                    leftInTick>>
    BY <1>1 DEF Drips!Toggle, Drips!subVars, Drips!tickVars
  <2> QED
    BY <2>0, EnrolKept DEF DripTypes, RowsTrue, HandTrue, SnapshotTrue
<1>2. ASSUME NEW j \in Drips!Jobs, Drips!FallDue(j)
      PROVE  DripInv'
  <2>0. /\ due' = due \cup {j}
        /\ UNCHANGED <<dripsLead, dripsActive, dripsJob, send, of,
                       dripsRequest, known, cancels, dripsPc, batch, current,
                       snapshot, pushed, leftInTick>>
    BY <1>2 DEF Drips!FallDue, Drips!subVars, Drips!tickVars
  <2> QED
    BY <2>0, EnrolKept DEF DripTypes, RowsTrue, HandTrue, SnapshotTrue
<1>3. CASE Drips!TickRead
  <2>0. /\ dripsPc = "idle" /\ dripsPc' = "next"
        /\ batch' \subseteq Drips!Ready
        /\ snapshot' = IF dripsActive
             THEN {l \in DripsParams.Leads : dripsLead[l] = "active"} ELSE {}
        /\ leftInTick' = {}
        /\ UNCHANGED <<dripsLead, dripsActive, dripsJob, due, send, of,
                       dripsRequest, known, cancels, current, pushed>>
    BY <1>3 DEF Drips!TickRead, Drips!Taken, Drips!subVars, Drips!tickVars
  <2>1. DripTypes'
    BY <2>0 DEF DripTypes, Drips!Ready
  <2>2. RowsTrue' /\ HandTrue'
    BY <2>0 DEF RowsTrue, HandTrue, Drips!Ready
  <2>3. EnrolledOnce'
    BY <2>0, <2>1, EnrolKept
  <2>4. SnapshotTrue'
    BY <2>0 DEF SnapshotTrue
  <2> QED
    BY <2>1, <2>2, <2>3, <2>4
<1>4. CASE Drips!NextJob
  <2>0. /\ dripsPc = "next"
        /\ UNCHANGED <<dripsLead, dripsActive, dripsJob, due, send, of,
                       dripsRequest, known, cancels, snapshot, pushed,
                       leftInTick>>
    BY <1>4 DEF Drips!NextJob, Drips!subVars
  <2>1. \/ dripsPc' = "idle" /\ current' = {} /\ batch' = batch
        \/ \E j \in batch : /\ current' = {j} /\ batch' = batch \ {j}
                            /\ dripsPc' = "claim"
    BY <1>4 DEF Drips!NextJob
  <2>2. DripTypes'
    BY <2>0, <2>1 DEF DripTypes
  <2>3. HandTrue'
    BY <2>0, <2>1 DEF HandTrue
  <2>4. RowsTrue'
    BY <2>0 DEF RowsTrue
  <2>5. EnrolledOnce'
    BY <2>0, <2>2, EnrolKept
  <2>6. SnapshotTrue'
    BY <2>0, <2>1 DEF SnapshotTrue
  <2> QED
    BY <2>2, <2>3, <2>4, <2>5, <2>6
<1> QED
  BY <1>1, <1>2, <1>3, <1>4

\* Where a job may go from where it is.
LEMMA DripHand ==
  ASSUME Drips!AutomationsAssumption, DripInv, NEW j \in Drips!Jobs,
         Drips!JobStep(j)
  PROVE  DripInv'
<1> USE DEF DripInv
<1>1. CASE Drips!Claim(j)
  <2>0. /\ dripsPc = "claim" /\ current = {j}
        /\ UNCHANGED <<dripsLead, dripsActive, due, send, of, dripsRequest,
                       known, cancels, batch, current, snapshot, pushed,
                       leftInTick>>
    BY <1>1 DEF Drips!Claim, Drips!subVars
  <2>1. \/ /\ dripsJob[j] = "queued"
           /\ dripsJob' = [dripsJob EXCEPT ![j] = "sending"]
           /\ dripsPc' = "check"
        \/ dripsJob' = dripsJob /\ dripsPc' = "next"
    BY <1>1 DEF Drips!Claim
  <2>2. DripTypes'
    BY <2>0, <2>1 DEF DripTypes, Statuses
  <2>3. RowsTrue'
    BY <2>0, <2>1 DEF RowsTrue, DripTypes
  <2>4. HandTrue'
    BY <2>0, <2>1 DEF HandTrue, RowsTrue, DripTypes
  <2>5. \A i \in Drips!Jobs : dripsJob'[i] # "none" => dripsJob[i] # "none"
    BY <2>1 DEF DripTypes
  <2>6. EnrolledOnce'
    BY <2>0, <2>2, <2>5, EnrolKept
  <2>7. SnapshotTrue'
    BY <2>0, <2>1 DEF SnapshotTrue
  <2> QED
    BY <2>2, <2>3, <2>4, <2>6, <2>7
<1>2. CASE Drips!CreateSend(j)
  <2>0. /\ dripsPc = "check" /\ current = {j} /\ dripsJob[j] = "sending"
        /\ pushed[j] = 0
        /\ UNCHANGED <<dripsLead, dripsActive, due, of, dripsRequest, known,
                       cancels, batch, current, snapshot, pushed, leftInTick>>
    BY <1>2 DEF Drips!CreateSend, Drips!subVars, HandTrue
  <2>1. \/ /\ of[j[1]] \in snapshot /\ send' = [send EXCEPT ![j] = "queued"]
           /\ dripsJob' = dripsJob /\ dripsPc' = "push"
        \/ /\ dripsJob' = [dripsJob EXCEPT ![j] = "cancelled"] /\ send' = send
           /\ dripsPc' = "next"
    BY <1>2 DEF Drips!CreateSend, Drips!MaySend
  <2>2. DripTypes'
    BY <2>0, <2>1 DEF DripTypes, Statuses
  <2>3. RowsTrue'
    BY <2>0, <2>1 DEF RowsTrue, DripTypes
  <2>4. HandTrue'
    BY <2>0, <2>1 DEF HandTrue, DripTypes
  <2>5. \A i \in Drips!Jobs : dripsJob'[i] # "none" => dripsJob[i] # "none"
    BY <2>0, <2>1 DEF DripTypes
  <2>6. EnrolledOnce'
    BY <2>0, <2>2, <2>5, EnrolKept
  <2>7. SnapshotTrue'
    BY <2>0, <2>1 DEF SnapshotTrue
  <2> QED
    BY <2>2, <2>3, <2>4, <2>6, <2>7
<1>3. CASE Drips!PushDelivered(j)
  <2>0. /\ dripsPc = "push" /\ current = {j} /\ dripsJob[j] = "sending"
        /\ pushed[j] = 0 /\ pushed' = [pushed EXCEPT ![j] = @ + 1]
        /\ dripsPc' = "sentSend"
        /\ UNCHANGED <<dripsLead, dripsActive, dripsJob, due, send, of,
                       dripsRequest, known, cancels, batch, current, snapshot,
                       leftInTick>>
    BY <1>3 DEF Drips!PushDelivered, Drips!subVars, HandTrue
  <2>1. pushed'[j] = 1 /\ \A i \in Drips!Jobs : i # j => pushed'[i] = pushed[i]
    BY <2>0 DEF DripTypes
  <2>2. DripTypes'
    BY <2>0 DEF DripTypes
  <2>3. RowsTrue'
    BY <2>0, <2>1 DEF RowsTrue
  <2>4. HandTrue'
    BY <2>0, <2>1 DEF HandTrue
  <2>5. EnrolledOnce'
    BY <2>0, <2>2, EnrolKept
  <2>6. SnapshotTrue'
    BY <2>0 DEF SnapshotTrue
  <2> QED
    BY <2>2, <2>3, <2>4, <2>5, <2>6
<1>4. CASE Drips!PushFails(j)
  <2>0. /\ dripsPc = "push" /\ current = {j} /\ dripsJob[j] = "sending"
        /\ dripsPc' \in {"goneSend", "failSend"}
        /\ UNCHANGED <<dripsLead, dripsActive, dripsJob, due, send, of,
                       dripsRequest, known, cancels, batch, current, snapshot,
                       pushed, leftInTick>>
    BY <1>4 DEF Drips!PushFails, Drips!subVars, HandTrue
  <2>1. DripTypes'
    BY <2>0 DEF DripTypes
  <2>2. RowsTrue' /\ SnapshotTrue'
    BY <2>0 DEF RowsTrue, SnapshotTrue
  <2>3. HandTrue'
    BY <2>0 DEF HandTrue
  <2>4. EnrolledOnce'
    BY <2>0, <2>1, EnrolKept
  <2> QED
    BY <2>1, <2>2, <2>3, <2>4
<1>5. CASE Drips!RecordSend(j)
  <2>0. /\ dripsPc \in {"sentSend", "goneSend", "failSend"} /\ current = {j}
        /\ dripsJob[j] = "sending"
        /\ UNCHANGED <<dripsLead, dripsActive, dripsJob, due, of,
                       dripsRequest, known, cancels, batch, current, snapshot,
                       pushed, leftInTick>>
    BY <1>5 DEF Drips!RecordSend, Drips!subVars, HandTrue
  <2>1. \/ /\ dripsPc = "sentSend" /\ dripsPc' = "sentJob"
           /\ send' = [send EXCEPT ![j] = "sent"]
        \/ /\ dripsPc = "goneSend" /\ dripsPc' = "goneLead"
           /\ send' = [send EXCEPT ![j] = "expired"]
        \/ /\ dripsPc = "failSend" /\ dripsPc' = "failJob"
           /\ send' = [send EXCEPT ![j] = "failed"]
    BY <1>5 DEF Drips!RecordSend
  <2>2. DripTypes'
    BY <2>0, <2>1 DEF DripTypes
  <2>3. RowsTrue'
    BY <2>0, <2>1 DEF RowsTrue, DripTypes
  <2>4. HandTrue'
    BY <2>0, <2>1 DEF HandTrue, DripTypes
  <2>5. EnrolledOnce'
    BY <2>0, <2>2, EnrolKept
  <2>6. SnapshotTrue'
    BY <2>0, <2>1 DEF SnapshotTrue
  <2> QED
    BY <2>2, <2>3, <2>4, <2>5, <2>6
<1>6. CASE Drips!RecordGone(j)
  <2>0. /\ dripsPc = "goneLead" /\ current = {j} /\ dripsJob[j] = "sending"
        /\ dripsLead' = [dripsLead EXCEPT ![of[j[1]]] = "expired"]
        /\ dripsPc' = "failJob"
        /\ UNCHANGED <<dripsActive, dripsJob, due, send, of, dripsRequest,
                       known, cancels, batch, current, snapshot, pushed,
                       leftInTick>>
    BY <1>6 DEF Drips!RecordGone, Drips!subVars, HandTrue
  <2>1. j[1] \in DripsParams.Requests /\ Enrols(j[1])
          /\ dripsRequest[j[1]] = "ended"
    BY <2>0 DEF Drips!Jobs, Enrols, EnrolledOnce
  <2>2. of[j[1]] \in DripsParams.Leads /\ dripsLead[of[j[1]]] # "none"
    BY <2>1 DEF EnrolledOnce
  <2>3. DripTypes'
    BY <2>0 DEF DripTypes
  <2>4. RowsTrue' /\ HandTrue'
    BY <2>0 DEF RowsTrue, HandTrue
  <2>5. \A l \in DripsParams.Leads : (dripsLead'[l] = "none")
          <=> (dripsLead[l] = "none")
    BY <2>0, <2>2 DEF DripTypes
  <2>6. EnrolledOnce'
    BY <2>0, <2>3, <2>5, EnrolKept
  <2>7. SnapshotTrue'
    BY <2>0, <2>2 DEF SnapshotTrue, DripTypes
  <2> QED
    BY <2>3, <2>4, <2>6, <2>7
<1>7. CASE Drips!RecordJob(j)
  <2>0. /\ dripsPc \in {"sentJob", "failJob"} /\ current = {j}
        /\ dripsJob[j] = "sending" /\ dripsPc' = "next"
        /\ dripsJob'
             = [dripsJob EXCEPT ![j] = IF dripsPc = "sentJob" THEN "sent"
               ELSE "failed"]
        /\ UNCHANGED <<dripsLead, dripsActive, due, send, of, dripsRequest,
                       known, cancels, batch, current, snapshot, pushed,
                       leftInTick>>
    BY <1>7 DEF Drips!RecordJob, Drips!subVars, HandTrue
  <2>1. dripsPc = "sentJob" => pushed[j] = 1 /\ send[j] = "sent"
    BY <2>0 DEF HandTrue
  <2>2. DripTypes'
    BY <2>0 DEF DripTypes, Statuses
  <2>3. RowsTrue'
    BY <2>0, <2>1 DEF RowsTrue, DripTypes
  <2>4. HandTrue'
    BY <2>0 DEF HandTrue, DripTypes
  <2>5. \A i \in Drips!Jobs : dripsJob'[i] # "none" => dripsJob[i] # "none"
    BY <2>0 DEF DripTypes
  <2>6. EnrolledOnce'
    BY <2>0, <2>2, <2>5, EnrolKept
  <2>7. SnapshotTrue'
    BY <2>0 DEF SnapshotTrue
  <2> QED
    BY <2>2, <2>3, <2>4, <2>6, <2>7
<1>8. CASE Drips!Rescue(j)
  <2>0. /\ dripsPc = "rescue" /\ current = {j} /\ dripsJob[j] # "none"
        /\ dripsPc' = "next"
        /\ dripsJob' = [dripsJob EXCEPT ![j] = "failed"]
        /\ UNCHANGED <<dripsLead, dripsActive, due, send, of, dripsRequest,
                       known, cancels, batch, current, snapshot, pushed,
                       leftInTick>>
    BY <1>8 DEF Drips!Rescue, Drips!subVars, HandTrue
  <2>1. DripTypes'
    BY <2>0 DEF DripTypes, Statuses
  <2>2. RowsTrue'
    BY <2>0 DEF RowsTrue, DripTypes
  <2>3. HandTrue'
    BY <2>0 DEF HandTrue, DripTypes
  <2>4. \A i \in Drips!Jobs : dripsJob'[i] # "none" => dripsJob[i] # "none"
    BY <2>0 DEF DripTypes
  <2>5. EnrolledOnce'
    BY <2>0, <2>1, <2>4, EnrolKept
  <2>6. SnapshotTrue'
    BY <2>0 DEF SnapshotTrue
  <2> QED
    BY <2>1, <2>2, <2>3, <2>5, <2>6
<1> QED
  BY <1>1, <1>2, <1>3, <1>4, <1>5, <1>6, <1>7, <1>8 DEF Drips!JobStep

LEMMA DripFaults ==
  ASSUME Drips!AutomationsAssumption, DripInv, Drips!Crash
         \/ \E j \in Drips!Jobs : Drips!JobFault(j)
  PROVE  DripInv'
<1> USE DEF DripInv
<1>1. ASSUME NEW j \in Drips!Jobs, Drips!JobFault(j)
      PROVE  DripInv'
  <2>0. /\ current = {j} /\ dripsPc \notin {"idle", "next", "push"}
        /\ dripsPc' = CASE dripsPc \in {"sentSend", "sentJob"} -> "failSend"
                   [] dripsPc = "rescue" -> "next"
                   [] OTHER -> "rescue"
        /\ UNCHANGED <<dripsLead, dripsActive, dripsJob, due, send, of,
                       dripsRequest, known, cancels, batch, current, snapshot,
                       pushed, leftInTick>>
    BY <1>1 DEF Drips!JobFault, Drips!subVars
  <2>1. \/ dripsPc \in {"sentSend", "sentJob"} /\ dripsPc' = "failSend"
        \/ dripsPc' \in {"next", "rescue"}
    BY <2>0
  <2>2. DripTypes'
    BY <2>0 DEF DripTypes
  <2>3. RowsTrue'
    BY <2>0 DEF RowsTrue
  <2>4. HandTrue'
    BY <2>0, <2>1 DEF HandTrue
  <2>5. SnapshotTrue'
    BY <2>0, <2>1 DEF SnapshotTrue
  <2>6. EnrolledOnce'
    BY <2>0, <2>2, EnrolKept
  <2> QED
    BY <2>2, <2>3, <2>4, <2>5, <2>6
<1>2. CASE Drips!Crash
  <2>0. /\ dripsPc' = "idle" /\ batch' = {} /\ current' = {} /\ snapshot' = {}
        /\ dripsRequest'
             = [r \in DripsParams.Requests |-> IF dripsRequest[r] = "none"
               THEN "none"
                                                                 ELSE "ended"]
        /\ UNCHANGED <<dripsLead, dripsActive, dripsJob, due, send, of, known,
                       pushed, leftInTick>>
    BY <1>2 DEF Drips!Crash
  <2>1. DripTypes'
    BY <2>0 DEF DripTypes
  <2>2. RowsTrue' /\ HandTrue' /\ SnapshotTrue'
    BY <2>0 DEF RowsTrue, HandTrue, SnapshotTrue
  <2>3. \A r \in DripsParams.Requests : Enrols(r)' => Enrols(r)
    BY <2>0 DEF Enrols
  <2>4. \A j \in Drips!Jobs : dripsJob'[j] # "none"
          => dripsRequest'[j[1]] = "ended"
    BY <2>0 DEF EnrolledOnce, Drips!Jobs
  <2>5. EnrolledOnce'
    BY <2>0, <2>3, <2>4 DEF EnrolledOnce
  <2> QED
    BY <2>1, <2>2, <2>5
<1> QED
  BY <1>1, <1>2

LEMMA DripStep == Drips!AutomationsAssumption /\ DripInv
                    /\ [Drips!Next]_(Drips!vars) => DripInv'
<1> SUFFICES ASSUME Drips!AutomationsAssumption, DripInv,
                    [Drips!Next]_(Drips!vars) PROVE DripInv'
  OBVIOUS
<1>1. CASE UNCHANGED Drips!vars
  <2>1. UNCHANGED <<dripsLead, dripsActive, dripsJob, due, send, of,
                    dripsRequest, known, cancels, dripsPc, batch, current,
                    snapshot, dripsUsed, pushed, leftInTick>>
    BY <1>1 DEF Drips!vars, Drips!subVars, Drips!tickVars
  <2> QED
    BY <2>1, EnrolKept
    DEF DripInv, DripTypes, RowsTrue, HandTrue, SnapshotTrue
<1>2. CASE Drips!Next
  BY <1>2, DripLookup, DripUpsert, DripEnqueue, DripLeave, DripQuiet,
     DripHand, DripFaults DEF Drips!Next, Drips!TickStep
<1> QED
  BY <1>1, <1>2

LEMMA DripHolds == Drips!AutomationsAssumption /\ DripInv => Drips!DripsSound
<1> SUFFICES ASSUME Drips!AutomationsAssumption, DripInv PROVE Drips!DripsSound
  OBVIOUS
<1>1. Drips!OncePerJob /\ Drips!JobHonest
  BY DEF DripInv, RowsTrue, Drips!OncePerJob, Drips!JobHonest
<1>2. ASSUME NEW i \in Drips!Jobs, NEW j \in Drips!Jobs, i # j, i[2] = j[2],
             of[i[1]] = of[j[1]]
      PROVE  pushed[i] + pushed[j] <= 1
  <2>1. i[1] \in DripsParams.Requests /\ j[1] \in DripsParams.Requests
          /\ i[1] # j[1]
    BY <1>2 DEF Drips!Jobs
  <2>2. dripsJob[i] = "none" \/ dripsJob[j] = "none"
    BY <1>2, <2>1 DEF DripInv, EnrolledOnce, Enrols
  <2>3. pushed[i] = 0 \/ pushed[j] = 0
    BY <2>2 DEF DripInv, RowsTrue
  <2> QED
    BY <2>3 DEF DripInv, RowsTrue, DripTypes
<1> QED
  BY <1>1, <1>2 DEF Drips!DripsSound, Drips!OncePerStep

\* A step that pushes.
LEMMA QuietKept ==
  Drips!AutomationsAssumption /\ DripInv /\ [Drips!Next]_(Drips!vars) =>
    [Drips!PushesWhoStayed]_pushed
<1> SUFFICES ASSUME Drips!AutomationsAssumption, DripInv,
                    [Drips!Next]_(Drips!vars),
                    pushed' # pushed, NEW j \in Drips!Jobs,
                    pushed'[j] # pushed[j]
             PROVE  dripsLead[of[j[1]]] # "unsubscribed"
                      \/ of[j[1]] \in leftInTick
  BY DEF Drips!PushesWhoStayed
<1>1. \E i \in Drips!Jobs : Drips!PushDelivered(i)
  BY DEF Drips!Next, Drips!vars, Drips!SubscribeLookup, Drips!SubscribeUpsert,
     Drips!Enqueue, Drips!Unsubscribe, Drips!Cancel, Drips!Toggle,
     Drips!FallDue, Drips!JobFault, Drips!TickStep, Drips!TickRead,
     Drips!NextJob, Drips!JobStep, Drips!Claim, Drips!CreateSend,
     Drips!PushFails, Drips!RecordSend, Drips!RecordGone, Drips!RecordJob,
     Drips!Rescue, Drips!Crash
<1>2. PICK i \in Drips!Jobs : Drips!PushDelivered(i)
  BY <1>1
<1>3. i = j
  BY <1>2 DEF Drips!PushDelivered, DripInv, DripTypes
<1>4. of[j[1]] \in snapshot
  BY <1>2, <1>3 DEF Drips!PushDelivered, DripInv, SnapshotTrue
<1> QED
  BY <1>4 DEF DripInv, SnapshotTrue

\* A drip step goes out once to a lead that is subscribed, its row says so, and
\* an enrolment is not repeated, through ticks that overlap requests, leads
\* that leave and return, faults and restarts (automations.service.ts:62-183).
THEOREM DripsHold == Spec => []DripsSound
<1> DEFINE I == part = "drips" => DripInv
<1>1. Init => I
  BY PartsAssumption, DripInit DEF Init
<1>2. I /\ [Next]_vars => I'
  BY PartsAssumption, PartSteps, DripStep
<1>3. I => DripsSound
  BY PartsAssumption, DripHolds DEF DripsSound
<1> QED
  BY <1>1, <1>2, <1>3, PTL DEF Spec

\* A lead that has left is pushed no more, except by the tick that had read its
\* jobs before, also when its cancellation was lost or overtaken
\* (automations.service.ts:117-124).
THEOREM LeaversAreLeft == Spec => QuietAfterLeave
<1> DEFINE I == part = "drips" => DripInv
<1>1. Init => I
  BY PartsAssumption, DripInit DEF Init
<1>2. I /\ [Next]_vars => I'
  BY PartsAssumption, PartSteps, DripStep
<1>3. I /\ [Next]_vars => [part = "drips" => Drips!PushesWhoStayed]_pushed
  BY PartsAssumption, PartSteps, QuietKept
<1> QED
  BY <1>1, <1>2, <1>3, PTL DEF Spec, QuietAfterLeave

Occurrence == [due : Schedule!Times, claimed : BOOLEAN,
               when : 0..ScheduleParams.MaxTime,
               life : 0..ScheduleParams.MaxCrashes, series : Nat]

Counted == scheduleUsed
             \in [requests : Nat, crashes : 0..ScheduleParams.MaxCrashes,
                  refusals : Nat]

\* The memory is the process's, and only one thing is under way in it.
OneAtATime ==
  /\ ~up => timer = Schedule!NoTimer /\ fire = Schedule!Idle
       /\ scheduleRequest = Schedule!Idle /\ dispatches = 0
  /\ scheduleRequest.pc # "idle"
       => /\ fire = Schedule!Idle /\ dispatches = 0
          /\ scheduleStatus \in {"draft", "scheduled"}
  /\ fire.pc # "idle" => timer = Schedule!NoTimer
  /\ fire.pc = "idle" => fire = Schedule!Idle
  /\ scheduleRequest.pc = "idle" => scheduleRequest = Schedule!Idle

\* What the row says of the claims, and what a cancelled one leaves behind.
RowSays ==
  /\ claims = IF scheduleStatus = "sending" THEN 1 ELSE 0
  /\ scheduleStatus = "scheduled" => at # Schedule!Never
  /\ scheduleStatus = "cancelled"
       => timer = Schedule!NoTimer /\ fire = Schedule!Idle
            /\ scheduleRequest = Schedule!Idle /\ at = Schedule!Never

\* What a request has done so far.
RequestSays ==
  /\ scheduleRequest.pc \in {"write", "arm"}
       => scheduleRequest.at # Schedule!Never
  /\ scheduleRequest.pc = "arm"
       => scheduleRequest.at = at /\ scheduleStatus = "scheduled"
  /\ scheduleRequest.pc \in {"clear", "cancel"} => scheduleStatus = "scheduled"
  /\ scheduleRequest.pc = "cancel" => timer = Schedule!NoTimer

\* The timer and what it has started are for the time on the row.
RightTime ==
  /\ timer # Schedule!NoTimer => timer.at # Schedule!Never
  /\ timer # Schedule!NoTimer /\ scheduleStatus = "scheduled"
       /\ scheduleRequest.pc # "arm"
       => timer.at = at
  /\ fire.pc = "read" /\ scheduleStatus = "scheduled" => at <= scheduleNow
  /\ fire.pc \in {"dispatch", "create", "advance"}
       => fire.at = at /\ at <= scheduleNow /\ at # Schedule!Never
  /\ fire.pc = "arm" => fire.at = at /\ at # Schedule!Never
  /\ ~early

\* An occurrence that is created is for the time on the row.  What has been
\* created is older than that time, unless the time has yet to move on.
Past ==
  \A i \in 1..Len(occurrences) :
    LET o == occurrences[i]
    IN  /\ o.series <= series /\ o.life <= scheduleUsed.crashes
        /\ o.when <= scheduleNow
        /\ o.series = series /\ scheduleStatus # "cancelled"
             => \/ at > o.when
                \/ at = o.due
                     /\ (o.life < scheduleUsed.crashes \/ fire.pc = "advance")

ScheduleInv ==
  /\ Schedule!TypeOK /\ Counted
  /\ OneAtATime /\ RowSays /\ RequestSays /\ RightTime
  /\ Past /\ Schedule!OneCatchUp /\ Schedule!ArmedWhenScheduled

LEMMA Occurred ==
  ASSUME Schedule!TypeOK, Counted, Schedule!ScheduleAssumption
  PROVE  /\ occurrences \in Seq(Occurrence) /\ Len(occurrences) \in Nat
         /\ \A i \in 1..Len(occurrences) :
              /\ occurrences[i] \in Occurrence
              /\ occurrences[i].due \in Nat /\ occurrences[i].when \in Nat
              /\ occurrences[i].life \in Nat /\ occurrences[i].series \in Nat
         /\ scheduleNow \in Nat /\ series \in Nat
         /\ scheduleUsed.crashes \in Nat /\ at \in Nat
<1>1. occurrences \in Seq(Occurrence)
  BY DEF Schedule!TypeOK, Occurrence
<1>2. Len(occurrences) \in Nat
      /\ \A i \in 1..Len(occurrences) : occurrences[i] \in Occurrence
  BY <1>1, ElementOfSeq
<1>3. \A o \in Occurrence : /\ o.due \in Nat /\ o.when \in Nat
                           /\ o.life \in Nat /\ o.series \in Nat
  BY DEF Occurrence, Schedule!ScheduleAssumption, Schedule!Times,
     Schedule!Never
<1>4. scheduleNow \in Nat /\ series \in Nat /\ at \in Nat
  BY DEF Schedule!ScheduleAssumption, Schedule!TypeOK, Schedule!Times,
     Schedule!Never
<1>5. scheduleUsed.crashes \in Nat
  BY DEF Schedule!ScheduleAssumption, Counted
<1> QED
  BY <1>1, <1>2, <1>3, <1>4, <1>5

LEMMA ScheduleInit == Schedule!ScheduleAssumption /\ Schedule!Init
                        => ScheduleInv
<1> SUFFICES ASSUME Schedule!ScheduleAssumption, Schedule!Init
                    PROVE ScheduleInv
  OBVIOUS
<1>1. Len(occurrences) = 0 /\ occurrences \in Seq(Occurrence)
  BY DEF Schedule!Init
<1>2. Schedule!TypeOK /\ Counted
  <2>1. timer \in [at : {Schedule!Never} \cup Schedule!Times,
                   fire : 0..(ScheduleParams.MaxTime + ScheduleParams.Period)]
    BY DEF Schedule!Init, Schedule!NoTimer, Schedule!Never,
       Schedule!ScheduleAssumption
  <2>2. scheduleNow \in 0..ScheduleParams.MaxTime /\ Counted
    BY DEF Schedule!Init, Counted, Schedule!ScheduleAssumption
  <2> QED
    BY <1>1, <2>1, <2>2
       DEF Schedule!Init, Schedule!TypeOK, Schedule!Never, Schedule!Idle,
       Occurrence
<1>3. OneAtATime /\ RowSays /\ RequestSays /\ RightTime
  BY DEF Schedule!Init, OneAtATime, RowSays, RequestSays, RightTime,
     Schedule!NoTimer, Schedule!Never, Schedule!Idle
<1>4. Past /\ Schedule!OneCatchUp
  BY <1>1 DEF Past, Schedule!OneCatchUp
<1>5. Schedule!ArmedWhenScheduled
  BY DEF Schedule!Init, Schedule!ArmedWhenScheduled
<1> QED
  BY <1>2, <1>3, <1>4, <1>5 DEF ScheduleInv

\* A timer armed for a time on the row.
LEMMA ArmedFor ==
  ASSUME Schedule!ScheduleAssumption, Schedule!TypeOK,
         NEW time \in Schedule!Times
  PROVE  /\ Schedule!Armed(time)
              \in [at : {Schedule!Never} \cup Schedule!Times,
                                      fire : 0..(ScheduleParams.MaxTime
                                        + ScheduleParams.Period)]
         /\ Schedule!Armed(time).at = time
         /\ Schedule!Armed(time) # Schedule!NoTimer
<1>1. /\ scheduleNow \in 0..ScheduleParams.MaxTime
      /\ ScheduleParams.MaxTime \in Nat /\ ScheduleParams.Period \in Nat
      /\ ScheduleParams.MaxHop \in Nat
      /\ time \in 1..(ScheduleParams.MaxTime + ScheduleParams.Period)
  BY DEF Schedule!ScheduleAssumption, Schedule!TypeOK, Schedule!Times
<1>2. Schedule!Armed(time).fire
        \in 0..(ScheduleParams.MaxTime + ScheduleParams.Period)
  BY <1>1 DEF Schedule!Armed
<1> QED
  BY <1>1, <1>2
     DEF Schedule!Armed, Schedule!NoTimer, Schedule!Never, Schedule!Times

\* The next time of a recurring campaign lies within the next period.
LEMMA NextTimeAhead ==
  ASSUME Schedule!ScheduleAssumption, Schedule!TypeOK,
         NEW time \in Schedule!Times, time <= scheduleNow
  PROVE  Schedule!NextTime(time) \in Schedule!Times
           /\ Schedule!NextTime(time) > scheduleNow
<1> DEFINE missed == (scheduleNow - time) \div ScheduleParams.Period
<1>1. /\ scheduleNow \in 0..ScheduleParams.MaxTime
      /\ ScheduleParams.MaxTime \in Nat /\ ScheduleParams.Period \in Nat \ {0}
      /\ time \in 1..(ScheduleParams.MaxTime + ScheduleParams.Period)
      /\ scheduleNow - time \in Nat
  BY DEF Schedule!ScheduleAssumption, Schedule!TypeOK, Schedule!Times
<1>2. /\ missed \in Nat /\ ScheduleParams.Period * missed <= scheduleNow - time
      /\ scheduleNow - time < ScheduleParams.Period * missed
           + ScheduleParams.Period
  BY <1>1
<1>3. ScheduleParams.Period * (missed + 1)
        = ScheduleParams.Period * missed + ScheduleParams.Period
      /\ ScheduleParams.Period * missed \in Int
  BY <1>1, <1>2
<1>4. Schedule!NextTime(time)
        = time + (ScheduleParams.Period * missed + ScheduleParams.Period)
  BY <1>1, <1>3 DEF Schedule!NextTime
<1> HIDE DEF missed
<1>5. Schedule!NextTime(time) > scheduleNow
        /\ Schedule!NextTime(time) <= scheduleNow + ScheduleParams.Period
  BY <1>1, <1>2, <1>3, <1>4
<1> QED
  BY <1>1, <1>2, <1>3, <1>4, <1>5 DEF Schedule!Times

\* A step that leaves the occurrences alone and keeps what they are compared
\* to.
LEMMA PastKept ==
  ASSUME Schedule!ScheduleAssumption, ScheduleInv, Schedule!TypeOK',
         UNCHANGED <<occurrences, series>>,
         Counted', scheduleUsed.crashes <= scheduleUsed'.crashes,
           scheduleNow <= scheduleNow',
         scheduleStatus' # "cancelled"
           => /\ scheduleStatus # "cancelled" /\ at' = at
              /\ fire.pc = "advance"
                   => \/ fire'.pc = "advance"
                      \/ scheduleUsed.crashes < scheduleUsed'.crashes
  PROVE  Past' /\ Schedule!OneCatchUp'
<1>1. scheduleNow' \in Nat /\ scheduleUsed'.crashes \in Nat
  BY DEF Schedule!TypeOK, Counted, Schedule!ScheduleAssumption
<1>2. Past'
  BY <1>1, Occurred DEF ScheduleInv, Past
<1> QED
  BY <1>2 DEF ScheduleInv, Schedule!OneCatchUp

\* Schedule and cancel requests, and send-now.
LEMMA ScheduleRequest ==
  ASSUME Schedule!ScheduleAssumption, ScheduleInv,
         \/ \E time \in 1..ScheduleParams.MaxTime : Schedule!ScheduleRead(time)
         \/ Schedule!CancelRead \/ Schedule!SendNow \/ Schedule!CancelClear
  PROVE  ScheduleInv'
<1>0. /\ UNCHANGED <<scheduleStatus, at, recurring, occurrences, up, fire,
                     scheduleNow, series, claims, early>>
      /\ up
  BY DEF Schedule!ScheduleRead, Schedule!CancelRead, Schedule!SendNow,
     Schedule!CancelClear, Schedule!dbVars, ScheduleInv, OneAtATime,
     Schedule!Idle
<1>1. \/ \E time \in 1..ScheduleParams.MaxTime :
           /\ Schedule!Calm /\ scheduleStatus \in {"draft", "scheduled"}
           /\ scheduleRequest' = [pc |-> "write", at |-> time]
           /\ UNCHANGED <<timer, dispatches>>
      \/ /\ Schedule!Calm /\ scheduleStatus = "scheduled"
         /\ scheduleRequest' = [pc |-> "clear", at |-> Schedule!Never]
         /\ UNCHANGED <<timer, dispatches>>
      \/ /\ scheduleRequest.pc = "idle"
         /\ scheduleStatus \in {"draft", "scheduled"}
         /\ dispatches' = dispatches + 1
         /\ UNCHANGED <<timer, scheduleRequest>>
      \/ /\ scheduleRequest.pc = "clear" /\ timer' = Schedule!NoTimer
         /\ scheduleRequest' = [scheduleRequest EXCEPT !.pc = "cancel"]
         /\ UNCHANGED dispatches
  BY DEF Schedule!ScheduleRead, Schedule!CancelRead, Schedule!SendNow,
     Schedule!CancelClear
<1>2. Counted' /\ scheduleUsed'.crashes = scheduleUsed.crashes
        /\ scheduleUsed'.refusals = scheduleUsed.refusals
  BY DEF Schedule!ScheduleRead, Schedule!CancelRead, Schedule!SendNow,
     Schedule!CancelClear, Schedule!Spend, ScheduleInv, Counted
<1>3. Schedule!TypeOK'
  <2>1. scheduleRequest' \in [pc : {"idle", "write", "arm", "clear", "cancel"},
                              at : {Schedule!Never} \cup Schedule!Times]
    BY <1>1
       DEF ScheduleInv, Schedule!TypeOK, Schedule!Times,
       Schedule!ScheduleAssumption
  <2>2. timer' \in [at : {Schedule!Never} \cup Schedule!Times,
                    fire : 0..(ScheduleParams.MaxTime + ScheduleParams.Period)]
    BY <1>1
       DEF ScheduleInv, Schedule!TypeOK, Schedule!NoTimer, Schedule!Never,
       Schedule!ScheduleAssumption
  <2>3. dispatches' \in Nat
    BY <1>1 DEF ScheduleInv, Schedule!TypeOK
  <2> QED
    BY <1>0, <2>1, <2>2, <2>3 DEF ScheduleInv, Schedule!TypeOK
<1>4. OneAtATime'
  BY <1>0, <1>1 DEF ScheduleInv, OneAtATime, Schedule!Calm, Schedule!TypeOK
<1>5. RowSays'
  BY <1>0, <1>1 DEF ScheduleInv, RowSays, OneAtATime, Schedule!Idle
<1>6. RequestSays'
  BY <1>0, <1>1 DEF ScheduleInv, RequestSays, Schedule!TypeOK, Schedule!Never
<1>7. RightTime'
  <2>1. scheduleRequest'.pc = "arm" => scheduleRequest.pc = "arm"
    BY <1>1 DEF ScheduleInv, Schedule!TypeOK
  <2>2. timer' # Schedule!NoTimer
          => timer' = timer /\ scheduleRequest.pc # "arm"
    BY <1>1 DEF Schedule!Calm
  <2> QED
    BY <1>0, <2>1, <2>2 DEF ScheduleInv, RightTime
<1>8. Past' /\ Schedule!OneCatchUp'
  BY <1>0, <1>2, <1>3, PastKept DEF ScheduleInv, Counted, Schedule!TypeOK
<1>9. Schedule!ArmedWhenScheduled'
  BY <1>0, <1>1, <1>2
     DEF ScheduleInv, Schedule!ArmedWhenScheduled, Schedule!Calm,
     Schedule!TypeOK
<1> QED
  BY <1>2, <1>3, <1>4, <1>5, <1>6, <1>7, <1>8, <1>9 DEF ScheduleInv

LEMMA ScheduleIsWritten ==
  ASSUME Schedule!ScheduleAssumption, ScheduleInv, NEW rec \in BOOLEAN,
         Schedule!ScheduleWrite(rec)
  PROVE  ScheduleInv'
<1>0. /\ scheduleRequest.pc = "write" /\ scheduleStatus' = "scheduled"
      /\ at' = scheduleRequest.at
      /\ recurring' = rec /\ series' = series + 1
      /\ scheduleRequest' = [scheduleRequest EXCEPT !.pc = "arm"]
      /\ UNCHANGED <<occurrences, up, timer, fire, dispatches, scheduleNow,
                     scheduleUsed, claims, early>>
  BY DEF Schedule!ScheduleWrite
<1>1. /\ scheduleRequest.at \in Schedule!Times /\ fire = Schedule!Idle
      /\ dispatches = 0
      /\ scheduleStatus # "sending" /\ up
  BY <1>0
     DEF ScheduleInv, RequestSays, OneAtATime, Schedule!TypeOK, Schedule!Idle,
     Schedule!Never
<1>2. Schedule!TypeOK' /\ Counted'
  <2>1. scheduleRequest' \in [pc : {"idle", "write", "arm", "clear", "cancel"},
                              at : {Schedule!Never} \cup Schedule!Times]
    BY <1>0 DEF ScheduleInv, Schedule!TypeOK
  <2>2. series' \in Nat
    BY <1>0 DEF ScheduleInv, Schedule!TypeOK
  <2> QED
    BY <1>0, <1>1, <2>1, <2>2 DEF ScheduleInv, Schedule!TypeOK, Counted
<1>3. OneAtATime'
  BY <1>0, <1>1 DEF ScheduleInv, OneAtATime, Schedule!TypeOK, Schedule!Idle
<1>4. RowSays' /\ RequestSays'
  BY <1>0, <1>1
     DEF ScheduleInv, RowSays, RequestSays, Schedule!TypeOK, Schedule!Never,
     Schedule!Times
<1>5. RightTime'
  BY <1>0, <1>1 DEF ScheduleInv, RightTime, Schedule!TypeOK, Schedule!Idle
<1>6. Past'
  <2>1. \A i \in 1..Len(occurrences) :
          LET o == occurrences[i]
          IN  /\ o.series <= series /\ o.life <= scheduleUsed.crashes
              /\ o.when <= scheduleNow
              /\ o.series \in Nat
    BY Occurred DEF ScheduleInv, Past
  <2>2. series \in Nat /\ series' = series + 1
    BY <1>0 DEF ScheduleInv, Schedule!TypeOK
  <2> QED
    BY <1>0, <2>1, <2>2 DEF Past
<1>7. Schedule!OneCatchUp' /\ Schedule!ArmedWhenScheduled'
  BY <1>0, <1>1
     DEF ScheduleInv, Schedule!OneCatchUp, Schedule!ArmedWhenScheduled,
     Schedule!Calm, Schedule!TypeOK
<1> QED
  BY <1>2, <1>3, <1>4, <1>5, <1>6, <1>7 DEF ScheduleInv

LEMMA ScheduleArms ==
  ASSUME Schedule!ScheduleAssumption, ScheduleInv, Schedule!ScheduleArm
  PROVE  ScheduleInv'
<1>0. /\ scheduleRequest.pc = "arm"
      /\ timer' = Schedule!Armed(scheduleRequest.at)
      /\ scheduleRequest' = Schedule!Idle
      /\ UNCHANGED <<scheduleStatus, at, recurring, occurrences, up, fire,
                     dispatches, scheduleNow, scheduleUsed, series, claims,
                     early>>
  BY DEF Schedule!ScheduleArm, Schedule!dbVars
<1>1. /\ scheduleRequest.at = at /\ at \in Schedule!Times
      /\ scheduleStatus = "scheduled"
      /\ fire = Schedule!Idle /\ dispatches = 0 /\ up
  BY <1>0
     DEF ScheduleInv, RequestSays, OneAtATime, Schedule!TypeOK, Schedule!Idle,
     Schedule!Never
<1>2. /\ timer'
           \in [at : {Schedule!Never} \cup Schedule!Times,
                fire : 0..(ScheduleParams.MaxTime + ScheduleParams.Period)]
      /\ timer'.at = at /\ timer' # Schedule!NoTimer
  BY <1>0, <1>1, ArmedFor DEF ScheduleInv
<1>3. Schedule!TypeOK' /\ Counted'
  BY <1>0, <1>2 DEF ScheduleInv, Schedule!TypeOK, Counted, Schedule!Idle
<1>4. OneAtATime' /\ RowSays' /\ RequestSays'
  BY <1>0, <1>1
     DEF ScheduleInv, OneAtATime, RowSays, RequestSays, Schedule!Idle
<1>5. RightTime'
  BY <1>0, <1>1, <1>2
     DEF ScheduleInv, RightTime, Schedule!Times, Schedule!Never
<1>6. Past' /\ Schedule!OneCatchUp'
  BY <1>0, <1>1, <1>3, PastKept DEF ScheduleInv, Counted, Schedule!TypeOK
<1>7. Schedule!ArmedWhenScheduled'
  BY <1>0, <1>2 DEF Schedule!ArmedWhenScheduled
<1> QED
  BY <1>3, <1>4, <1>5, <1>6, <1>7 DEF ScheduleInv

LEMMA ScheduleCancelled ==
  ASSUME Schedule!ScheduleAssumption, ScheduleInv, Schedule!CancelWrite
  PROVE  ScheduleInv'
<1>0. /\ scheduleRequest.pc = "cancel" /\ scheduleStatus' = "cancelled"
      /\ at' = Schedule!Never
      /\ scheduleRequest' = Schedule!Idle
      /\ UNCHANGED <<recurring, occurrences, up, timer, fire, dispatches,
                     scheduleNow, scheduleUsed, series, claims, early>>
  BY DEF Schedule!CancelWrite
<1>1. scheduleStatus = "scheduled" /\ timer = Schedule!NoTimer
        /\ fire = Schedule!Idle /\ dispatches = 0
  BY <1>0 DEF ScheduleInv, RequestSays, OneAtATime
<1>2. Schedule!TypeOK' /\ Counted'
  BY <1>0 DEF ScheduleInv, Schedule!TypeOK, Counted, Schedule!Idle
<1>3. OneAtATime' /\ RowSays' /\ RequestSays' /\ Schedule!ArmedWhenScheduled'
  BY <1>0, <1>1
     DEF ScheduleInv, OneAtATime, RowSays, RequestSays, Schedule!Idle,
     Schedule!ArmedWhenScheduled
<1>4. RightTime'
  BY <1>0, <1>1 DEF ScheduleInv, RightTime, Schedule!Idle
<1>5. Past' /\ Schedule!OneCatchUp'
  BY <1>0, <1>2, PastKept DEF ScheduleInv, Counted, Schedule!TypeOK
<1> QED
  BY <1>2, <1>3, <1>4, <1>5 DEF ScheduleInv

LEMMA ScheduleClaimed ==
  ASSUME Schedule!ScheduleAssumption, ScheduleInv, Schedule!Claim
  PROVE  ScheduleInv'
<1>0. /\ dispatches > 0 /\ dispatches' = dispatches - 1
      /\ UNCHANGED <<at, recurring, occurrences, up, timer, fire,
                     scheduleRequest, scheduleNow, scheduleUsed, series,
                     early>>
  BY DEF Schedule!Claim
<1>1. \/ /\ scheduleStatus \in {"draft", "scheduled"}
         /\ scheduleStatus' = "sending"
         /\ claims' = claims + 1
      \/ /\ scheduleStatus \in {"sending", "cancelled"}
         /\ scheduleStatus' = scheduleStatus
         /\ claims' = claims
  BY DEF Schedule!Claim, ScheduleInv, Schedule!TypeOK
<1>2. scheduleRequest = Schedule!Idle /\ scheduleRequest.pc = "idle" /\ up
  BY <1>0 DEF ScheduleInv, OneAtATime, Schedule!TypeOK
<1>3. Schedule!TypeOK' /\ Counted'
  BY <1>0, <1>1 DEF ScheduleInv, Schedule!TypeOK, Counted
<1>4. OneAtATime' /\ RowSays' /\ RequestSays' /\ Schedule!ArmedWhenScheduled'
  BY <1>0, <1>1, <1>2
     DEF ScheduleInv, OneAtATime, RowSays, RequestSays,
     Schedule!ArmedWhenScheduled
<1>5. RightTime'
  BY <1>0, <1>1 DEF ScheduleInv, RightTime
<1>6. Past' /\ Schedule!OneCatchUp'
  BY <1>0, <1>1, <1>3, PastKept DEF ScheduleInv, Counted, Schedule!TypeOK
<1> QED
  BY <1>3, <1>4, <1>5, <1>6 DEF ScheduleInv

LEMMA OccurrenceStep ==
  ASSUME Schedule!ScheduleAssumption, ScheduleInv,
         NEW i \in 1..Len(occurrences),
         Schedule!OccurrenceClaim(i)
  PROVE  ScheduleInv'
<1>0. /\ occurrences' = [occurrences EXCEPT ![i].claimed = TRUE]
      /\ UNCHANGED <<scheduleStatus, at, recurring, up, timer, fire,
                     scheduleRequest, dispatches, scheduleNow, scheduleUsed,
                     series, claims, early>>
  BY DEF Schedule!OccurrenceClaim, Schedule!memVars
<1>1. occurrences \in Seq(Occurrence) /\ Len(occurrences) \in Nat
  BY Occurred DEF ScheduleInv
<1>2. occurrences[i] \in Occurrence
  BY Occurred DEF ScheduleInv
<1>3. /\ occurrences' \in Seq(Occurrence)
      /\ Len(occurrences') = Len(occurrences)
      /\ \A k \in 1..Len(occurrences) :
           /\ occurrences'[k].due = occurrences[k].due
           /\ occurrences'[k].when = occurrences[k].when
           /\ occurrences'[k].life = occurrences[k].life
           /\ occurrences'[k].series = occurrences[k].series
  <2>1. occurrences' = [occurrences EXCEPT
                          ![i] = [occurrences[i] EXCEPT !.claimed = TRUE]]
    BY <1>0
  <2>2. [occurrences[i] EXCEPT !.claimed = TRUE] \in Occurrence
    BY <1>2 DEF Occurrence
  <2>3. occurrences' \in Seq(Occurrence)
          /\ Len(occurrences') = Len(occurrences)
    BY <1>1, <2>1, <2>2, ExceptSeq
  <2>4. \A k \in 1..Len(occurrences) :
          occurrences'[k] = IF k = i
                            THEN [occurrences[i] EXCEPT !.claimed = TRUE]
                            ELSE occurrences[k]
    BY <1>1, <2>1
  <2> QED
    BY <1>2, <2>3, <2>4 DEF Occurrence
<1>4. Schedule!TypeOK' /\ Counted'
  BY <1>0, <1>3 DEF ScheduleInv, Schedule!TypeOK, Counted, Occurrence
<1>5. OneAtATime' /\ RowSays' /\ RequestSays' /\ RightTime'
      /\ Schedule!ArmedWhenScheduled'
  BY <1>0
     DEF ScheduleInv, OneAtATime, RowSays, RequestSays, RightTime,
     Schedule!ArmedWhenScheduled, Schedule!Calm
<1>6. Past'
  BY <1>0, <1>3 DEF ScheduleInv, Past
<1>7. Schedule!OneCatchUp'
  BY <1>3 DEF ScheduleInv, Schedule!OneCatchUp
<1> QED
  BY <1>4, <1>5, <1>6, <1>7 DEF ScheduleInv

\* The timer, up to the work it starts.
LEMMA TimerFires ==
  ASSUME Schedule!ScheduleAssumption, ScheduleInv, Schedule!TimerFires
  PROVE  ScheduleInv'
<1>0. /\ up /\ timer # Schedule!NoTimer /\ scheduleRequest.pc = "idle"
      /\ UNCHANGED <<scheduleStatus, at, recurring, occurrences, up,
                     scheduleRequest, dispatches, scheduleNow, scheduleUsed,
                     series, claims, early>>
  BY DEF Schedule!TimerFires, Schedule!dbVars
<1>1. \/ /\ timer.at > scheduleNow /\ timer' = Schedule!Armed(timer.at)
         /\ fire' = fire
      \/ /\ timer.at <= scheduleNow /\ timer' = Schedule!NoTimer
         /\ fire' = [pc |-> "read", at |-> timer.at]
  BY DEF Schedule!TimerFires, ScheduleInv, Schedule!TypeOK, Schedule!Times,
     Schedule!ScheduleAssumption, Schedule!Never
<1>2. /\ timer.at \in Schedule!Times /\ fire = Schedule!Idle
      /\ scheduleStatus # "cancelled"
      /\ scheduleStatus = "scheduled" => timer.at = at
  BY <1>0 DEF ScheduleInv, Schedule!TypeOK, OneAtATime, RightTime, RowSays
<1>3. Schedule!Armed(timer.at) \in [at : {Schedule!Never} \cup Schedule!Times,
                                    fire : 0..(ScheduleParams.MaxTime
                                      + ScheduleParams.Period)]
      /\ Schedule!Armed(timer.at).at = timer.at
      /\ Schedule!Armed(timer.at) # Schedule!NoTimer
  BY <1>2, ArmedFor DEF ScheduleInv
<1>4. Schedule!TypeOK' /\ Counted'
  BY <1>0, <1>1, <1>2, <1>3
     DEF ScheduleInv, Schedule!TypeOK, Counted, Schedule!NoTimer,
     Schedule!Never, Schedule!ScheduleAssumption
<1>5. OneAtATime'
  BY <1>0, <1>1, <1>2 DEF ScheduleInv, OneAtATime, Schedule!Idle
<1>6. RowSays' /\ RequestSays'
  BY <1>0, <1>2 DEF ScheduleInv, RowSays, RequestSays
<1>7. RightTime'
  BY <1>0, <1>1, <1>2, <1>3
     DEF ScheduleInv, RightTime, Schedule!Idle, Schedule!Times, Schedule!Never
<1>8. Past' /\ Schedule!OneCatchUp'
  BY <1>0, <1>1, <1>2, <1>4, PastKept
     DEF ScheduleInv, Counted, Schedule!TypeOK, Schedule!Idle
<1>9. Schedule!ArmedWhenScheduled'
  BY <1>0, <1>1, <1>2, <1>3
     DEF Schedule!ArmedWhenScheduled, Schedule!Calm, Schedule!Idle
<1> QED
  BY <1>4, <1>5, <1>6, <1>7, <1>8, <1>9 DEF ScheduleInv

\* fireScheduled() up to a dispatch.
LEMMA FireStart ==
  ASSUME Schedule!ScheduleAssumption, ScheduleInv,
         Schedule!FireRead \/ Schedule!FireDispatch \/ Schedule!FireRefused
  PROVE  ScheduleInv'
<1>0. /\ fire.pc # "idle" /\ fire.pc # "advance"
      /\ UNCHANGED <<scheduleStatus, at, recurring, occurrences, up, timer,
                     scheduleRequest, scheduleNow, series, claims>>
  BY DEF Schedule!FireRead, Schedule!FireDispatch, Schedule!FireRefused,
     Schedule!dbVars
<1>1. \/ /\ fire.pc = "read" /\ scheduleStatus # "scheduled"
         /\ fire' = Schedule!Idle
         /\ UNCHANGED <<dispatches, scheduleUsed, early>>
      \/ /\ fire.pc = "read" /\ scheduleStatus = "scheduled"
         /\ fire' = [pc |-> IF recurring THEN "create" ELSE "dispatch",
                     at |-> at]
         /\ UNCHANGED <<dispatches, scheduleUsed, early>>
      \/ /\ fire.pc = "dispatch" /\ fire' = Schedule!Idle
         /\ dispatches' = IF scheduleStatus \in {"draft", "scheduled"}
                          THEN dispatches + 1 ELSE dispatches
         /\ early' = (early \/ fire.at > scheduleNow)
         /\ UNCHANGED scheduleUsed
      \/ /\ fire.pc = "dispatch" /\ fire' = Schedule!Idle
         /\ scheduleUsed' = [scheduleUsed EXCEPT !["refusals"] = @ + 1]
         /\ UNCHANGED <<dispatches, early>>
  BY DEF Schedule!FireRead, Schedule!FireDispatch, Schedule!FireRefused,
     Schedule!Spend
<1>2. /\ timer = Schedule!NoTimer /\ scheduleStatus # "cancelled"
      /\ scheduleRequest.pc = "idle"
      /\ up /\ scheduleRequest = Schedule!Idle
  BY <1>0 DEF ScheduleInv, OneAtATime, RowSays, Schedule!Idle
<1>3. fire.pc = "dispatch" => fire.at <= scheduleNow
  BY DEF ScheduleInv, RightTime
<1>4. ~early' /\ (early' \in BOOLEAN)
  BY <1>1, <1>3
     DEF ScheduleInv, RightTime, Schedule!TypeOK, Schedule!Times,
     Schedule!Never, Schedule!ScheduleAssumption
<1>5. Schedule!TypeOK'
  <2>1. fire' \in [pc : {"idle", "read", "dispatch", "create", "advance",
                         "arm"},
                   at : {Schedule!Never} \cup Schedule!Times]
    BY <1>1 DEF ScheduleInv, Schedule!TypeOK, Schedule!Idle
  <2>2. dispatches' \in Nat
    BY <1>1 DEF ScheduleInv, Schedule!TypeOK
  <2> QED
    BY <1>0, <1>4, <2>1, <2>2 DEF ScheduleInv, Schedule!TypeOK
<1>6. /\ Counted' /\ scheduleUsed'.crashes = scheduleUsed.crashes
      /\ scheduleUsed'.refusals # 0 \/ scheduleUsed' = scheduleUsed
  BY <1>1 DEF ScheduleInv, Counted
<1>7. OneAtATime' /\ RowSays' /\ RequestSays'
  BY <1>0, <1>1, <1>2
     DEF ScheduleInv, OneAtATime, RowSays, RequestSays, Schedule!Idle
<1>8. RightTime'
  <2>1. fire'.pc \in {"idle", "create", "dispatch"}
        /\ (fire'.pc # "idle"
             => fire.pc = "read" /\ scheduleStatus = "scheduled"
                                 /\ fire'.at = at)
    BY <1>1 DEF Schedule!Idle
  <2>2. fire'.pc # "idle" => at <= scheduleNow /\ at # Schedule!Never
    BY <2>1 DEF ScheduleInv, RightTime, RowSays
  <2> QED
    BY <1>0, <1>2, <1>4, <2>1, <2>2 DEF RightTime
<1>9. Past' /\ Schedule!OneCatchUp'
  BY <1>0, <1>2, <1>5, <1>6, PastKept DEF ScheduleInv, Counted, Schedule!TypeOK
<1>10. Schedule!ArmedWhenScheduled'
  BY <1>0, <1>1, <1>6
     DEF ScheduleInv, Schedule!ArmedWhenScheduled, Schedule!Calm,
     Schedule!Idle, Schedule!TypeOK, Counted
<1> QED
  BY <1>5, <1>6, <1>7, <1>8, <1>9, <1>10 DEF ScheduleInv

LEMMA OccurrenceCreated ==
  ASSUME Schedule!ScheduleAssumption, ScheduleInv, Schedule!FireCreate
  PROVE  ScheduleInv'
<1> DEFINE new == [due |-> fire.at, claimed |-> FALSE, when |-> scheduleNow,
                   life |-> scheduleUsed.crashes, series |-> series]
           n   == Len(occurrences)
<1>0. /\ fire.pc = "create" /\ occurrences' = Append(occurrences, new)
      /\ fire' = [fire EXCEPT !.pc = "advance"]
      /\ early' = (early \/ fire.at > scheduleNow)
      /\ UNCHANGED <<scheduleStatus, at, recurring, up, timer,
                     scheduleRequest, dispatches, scheduleNow, scheduleUsed,
                     series, claims>>
  BY DEF Schedule!FireCreate
<1>1. /\ fire.at = at /\ at \in Schedule!Times /\ at <= scheduleNow
      /\ timer = Schedule!NoTimer
      /\ scheduleStatus # "cancelled" /\ scheduleRequest.pc = "idle" /\ up
  BY <1>0
     DEF ScheduleInv, OneAtATime, RowSays, RightTime, Schedule!TypeOK,
     Schedule!Idle, Schedule!Never
<1>2. ~early' /\ early' \in BOOLEAN
  BY <1>0, <1>1
     DEF ScheduleInv, RightTime, Schedule!TypeOK, Schedule!Times,
     Schedule!ScheduleAssumption
<1>3. occurrences \in Seq(Occurrence) /\ new \in Occurrence /\ n \in Nat
  BY <1>1, Occurred DEF ScheduleInv, Schedule!TypeOK, Counted, Occurrence
<1>4. /\ occurrences' \in Seq(Occurrence) /\ Len(occurrences') = n + 1
      /\ occurrences'[n + 1] = new
      /\ \A i \in 1..n : occurrences'[i] = occurrences[i]
  <2> HIDE DEF new, n
  <2> QED
    BY <1>0, <1>3, AppendProperties DEF n
<1>5. Schedule!TypeOK' /\ Counted'
  BY <1>0, <1>2, <1>4 DEF ScheduleInv, Schedule!TypeOK, Counted, Occurrence
<1>6. OneAtATime' /\ RowSays' /\ RequestSays' /\ Schedule!ArmedWhenScheduled'
  BY <1>0, <1>1
     DEF ScheduleInv, OneAtATime, RowSays, RequestSays, Schedule!Idle,
     Schedule!ArmedWhenScheduled, Schedule!Calm, Schedule!TypeOK
<1>7. RightTime'
  BY <1>0, <1>1, <1>2
     DEF ScheduleInv, RightTime, Schedule!TypeOK, Schedule!Times,
     Schedule!Never
<1>8. Past'
  <2>1. \A i \in 1..(n + 1) : i \in 1..n \/ i = n + 1
    BY <1>3
  <2>2. new.series = series /\ new.life = scheduleUsed.crashes
          /\ new.when = scheduleNow
        /\ new.due = at
    BY <1>1
  <2>3. \A i \in 1..n :
          LET o == occurrences'[i]
          IN  /\ o.series <= series' /\ o.life <= scheduleUsed'.crashes
              /\ o.when <= scheduleNow'
              /\ o.series = series' /\ scheduleStatus' # "cancelled"
                   => \/ at' > o.when
                      \/ at' = o.due /\ o.life < scheduleUsed'.crashes
    BY <1>0, <1>1, <1>4 DEF ScheduleInv, Past
  <2>4. fire'.pc = "advance" /\ scheduleUsed.crashes \in Nat /\ series \in Nat
        /\ scheduleNow \in Nat
    BY <1>0 DEF ScheduleInv, Schedule!TypeOK, Counted
  <2> HIDE DEF new, n
  <2> QED
    BY <1>0, <1>4, <2>1, <2>2, <2>3, <2>4 DEF Past
<1>9. Schedule!OneCatchUp'
  <2>1. \A i \in 1..n :
          occurrences[i].series = new.series
            => \/ new.due > occurrences[i].when
               \/ new.due = occurrences[i].due
                  /\ new.life # occurrences[i].life
    BY <1>0, <1>1, Occurred DEF ScheduleInv, Past
  <2>2. \A i, j \in 1..(n + 1) :
          i < j => i \in 1..n /\ (j \in 1..n \/ j = n + 1)
    BY <1>3
  <2> HIDE DEF new, n
  <2> QED
    BY <1>4, <2>1, <2>2 DEF ScheduleInv, Schedule!OneCatchUp, n
<1> QED
  BY <1>5, <1>6, <1>7, <1>8, <1>9 DEF ScheduleInv

\* The template moves on to a time that lies after all that it has created.
LEMMA ScheduleAdvances ==
  ASSUME Schedule!ScheduleAssumption, ScheduleInv, Schedule!FireAdvance
  PROVE  ScheduleInv'
<1>0. /\ fire.pc = "advance" /\ at' = Schedule!NextTime(fire.at)
      /\ fire' = [pc |-> "arm", at |-> Schedule!NextTime(fire.at)]
      /\ UNCHANGED <<scheduleStatus, recurring, occurrences, up, timer,
                     scheduleRequest, dispatches, scheduleNow, scheduleUsed,
                     series, claims, early>>
  BY DEF Schedule!FireAdvance
<1>1. /\ fire.at \in Schedule!Times /\ fire.at <= scheduleNow
      /\ timer = Schedule!NoTimer
      /\ scheduleStatus # "cancelled" /\ scheduleRequest.pc = "idle" /\ up
  BY <1>0
     DEF ScheduleInv, OneAtATime, RowSays, RightTime, Schedule!TypeOK,
     Schedule!Idle, Schedule!Never
<1>2. at' \in Schedule!Times /\ at' > scheduleNow /\ at' # Schedule!Never
  BY <1>0, <1>1, NextTimeAhead DEF ScheduleInv, Schedule!Times, Schedule!Never
<1>3. Schedule!TypeOK' /\ Counted'
  BY <1>0, <1>2 DEF ScheduleInv, Schedule!TypeOK, Counted
<1>4. OneAtATime' /\ RowSays' /\ RequestSays' /\ Schedule!ArmedWhenScheduled'
  BY <1>0, <1>1, <1>2
     DEF ScheduleInv, OneAtATime, RowSays, RequestSays, Schedule!Idle,
     Schedule!ArmedWhenScheduled, Schedule!Calm
<1>5. RightTime'
  BY <1>0, <1>1, <1>2 DEF ScheduleInv, RightTime
<1>6. Past'
  <2>1. \A i \in 1..Len(occurrences) : /\ occurrences[i].when \in Nat
                                       /\ occurrences[i].when <= scheduleNow
    BY Occurred DEF ScheduleInv, Past
  <2>2. \A i \in 1..Len(occurrences) : at' > occurrences[i].when
    BY <1>2, <2>1, Occurred DEF ScheduleInv, Schedule!Times
  <2> QED
    BY <1>0, <2>2 DEF ScheduleInv, Past
<1>7. Schedule!OneCatchUp'
  BY <1>0 DEF ScheduleInv, Schedule!OneCatchUp
<1> QED
  BY <1>3, <1>4, <1>5, <1>6, <1>7 DEF ScheduleInv

LEMMA FireArmStep ==
  ASSUME Schedule!ScheduleAssumption, ScheduleInv, Schedule!FireArm
  PROVE  ScheduleInv'
<1>0. /\ fire.pc = "arm" /\ timer' = Schedule!Armed(fire.at)
      /\ fire' = Schedule!Idle
      /\ UNCHANGED <<scheduleStatus, at, recurring, occurrences, up,
                     scheduleRequest, dispatches, scheduleNow, scheduleUsed,
                     series, claims, early>>
  BY DEF Schedule!FireArm, Schedule!dbVars
<1>1. /\ fire.at = at /\ at \in Schedule!Times /\ scheduleStatus # "cancelled"
      /\ scheduleRequest.pc = "idle" /\ up
  BY <1>0
     DEF ScheduleInv, OneAtATime, RowSays, RightTime, Schedule!TypeOK,
     Schedule!Idle, Schedule!Never
<1>2. /\ timer'
           \in [at : {Schedule!Never} \cup Schedule!Times,
                fire : 0..(ScheduleParams.MaxTime + ScheduleParams.Period)]
      /\ timer'.at = at /\ timer' # Schedule!NoTimer
  BY <1>0, <1>1, ArmedFor DEF ScheduleInv
<1>3. Schedule!TypeOK' /\ Counted'
  BY <1>0, <1>2 DEF ScheduleInv, Schedule!TypeOK, Counted, Schedule!Idle
<1>4. OneAtATime' /\ RowSays' /\ RequestSays'
  BY <1>0, <1>1
     DEF ScheduleInv, OneAtATime, RowSays, RequestSays, Schedule!Idle
<1>5. RightTime' /\ Schedule!ArmedWhenScheduled'
  BY <1>0, <1>1, <1>2
     DEF ScheduleInv, RightTime, Schedule!Times, Schedule!Never,
     Schedule!Idle, Schedule!ArmedWhenScheduled
<1>6. Past' /\ Schedule!OneCatchUp'
  BY <1>0, <1>1, <1>3, PastKept DEF ScheduleInv, Counted, Schedule!TypeOK
<1> QED
  BY <1>3, <1>4, <1>5, <1>6 DEF ScheduleInv

LEMMA ScheduleProcess ==
  ASSUME Schedule!ScheduleAssumption, ScheduleInv, Schedule!Crash
         \/ Schedule!Boot \/ Schedule!Tick
  PROVE  ScheduleInv'
<1>1. CASE Schedule!Crash
  <2>0. /\ up' = FALSE /\ timer' = Schedule!NoTimer /\ fire' = Schedule!Idle
        /\ scheduleRequest' = Schedule!Idle
        /\ dispatches' = 0
        /\ scheduleUsed' = [scheduleUsed EXCEPT !["crashes"] = @ + 1]
        /\ scheduleUsed.crashes < ScheduleParams.MaxCrashes
        /\ UNCHANGED <<scheduleStatus, at, recurring, occurrences,
                       scheduleNow, series, claims, early>>
    BY <1>1 DEF Schedule!Crash, Schedule!Spend, Schedule!dbVars
  <2>1. Counted' /\ scheduleUsed'.crashes = scheduleUsed.crashes + 1
    BY <2>0 DEF ScheduleInv, Counted, Schedule!ScheduleAssumption
  <2>2. Schedule!TypeOK'
    <3>1. timer' \in [at : {Schedule!Never} \cup Schedule!Times,
                      fire : 0..(ScheduleParams.MaxTime
                        + ScheduleParams.Period)]
      BY <2>0 DEF Schedule!NoTimer, Schedule!Never, Schedule!ScheduleAssumption
    <3> QED
      BY <2>0, <3>1 DEF ScheduleInv, Schedule!TypeOK, Schedule!Idle
  <2>3. OneAtATime' /\ RowSays' /\ RequestSays' /\ Schedule!ArmedWhenScheduled'
    BY <2>0
       DEF ScheduleInv, OneAtATime, RowSays, RequestSays, Schedule!Idle,
       Schedule!ArmedWhenScheduled
  <2>4. RightTime'
    BY <2>0 DEF ScheduleInv, RightTime, Schedule!Idle
  <2>5. Past' /\ Schedule!OneCatchUp'
    BY <2>0, <2>1, <2>2, PastKept DEF ScheduleInv, Counted, Schedule!TypeOK
  <2> QED
    BY <2>1, <2>2, <2>3, <2>4, <2>5 DEF ScheduleInv
<1>2. CASE Schedule!Boot
  <2>0. /\ ~up /\ up' = TRUE
        /\ timer' = IF scheduleStatus = "scheduled" /\ at # Schedule!Never
             THEN Schedule!Armed(at)
                                                          ELSE Schedule!NoTimer
        /\ UNCHANGED <<scheduleStatus, at, recurring, occurrences, fire,
                       scheduleRequest, dispatches, scheduleNow, scheduleUsed,
                       series, claims, early>>
    BY <1>2 DEF Schedule!Boot, Schedule!dbVars
  <2>1. fire = Schedule!Idle /\ scheduleRequest = Schedule!Idle
          /\ dispatches = 0
    BY <2>0 DEF ScheduleInv, OneAtATime
  <2>2. \/ /\ scheduleStatus = "scheduled" /\ timer'.at = at
           /\ timer' # Schedule!NoTimer
           /\ timer'
                \in [at : {Schedule!Never} \cup Schedule!Times,
                     fire : 0..(ScheduleParams.MaxTime
                       + ScheduleParams.Period)]
           /\ at # Schedule!Never
        \/ scheduleStatus # "scheduled" /\ timer' = Schedule!NoTimer
    BY <2>0, ArmedFor DEF ScheduleInv, Schedule!TypeOK, RowSays
  <2>3. Schedule!TypeOK' /\ Counted'
    BY <2>0, <2>2
       DEF ScheduleInv, Schedule!TypeOK, Counted, Schedule!NoTimer,
       Schedule!Never, Schedule!ScheduleAssumption
  <2>4. OneAtATime' /\ RowSays' /\ RequestSays' /\ Schedule!ArmedWhenScheduled'
    BY <2>0, <2>1, <2>2
       DEF ScheduleInv, OneAtATime, RowSays, RequestSays,
       Schedule!ArmedWhenScheduled, Schedule!Idle
  <2>5. RightTime'
    BY <2>0, <2>1, <2>2 DEF ScheduleInv, RightTime, Schedule!Idle
  <2>6. Past' /\ Schedule!OneCatchUp'
    BY <2>0, <2>3, PastKept DEF ScheduleInv, Counted, Schedule!TypeOK, RowSays
  <2> QED
    BY <2>3, <2>4, <2>5, <2>6 DEF ScheduleInv
<1>3. CASE Schedule!Tick
  <2>0. /\ scheduleNow < ScheduleParams.MaxTime
        /\ scheduleNow' = scheduleNow + 1
        /\ UNCHANGED <<scheduleStatus, at, recurring, occurrences, up, timer,
                       fire, scheduleRequest, dispatches, scheduleUsed,
                       series, claims, early>>
    BY <1>3 DEF Schedule!Tick, Schedule!dbVars, Schedule!memVars
  <2>1. scheduleNow \in Nat /\ scheduleNow' \in 0..ScheduleParams.MaxTime
          /\ scheduleNow <= scheduleNow'
    BY <2>0 DEF ScheduleInv, Schedule!TypeOK, Schedule!ScheduleAssumption
  <2>2. Schedule!TypeOK' /\ Counted'
    BY <2>0, <2>1 DEF ScheduleInv, Schedule!TypeOK, Counted
  <2>3. OneAtATime' /\ RowSays' /\ RequestSays' /\ Schedule!ArmedWhenScheduled'
    BY <2>0
       DEF ScheduleInv, OneAtATime, RowSays, RequestSays,
       Schedule!ArmedWhenScheduled, Schedule!Calm
  <2>4. RightTime'
    BY <2>0, <2>1
       DEF ScheduleInv, RightTime, Schedule!TypeOK, Schedule!Times,
       Schedule!Never, Schedule!ScheduleAssumption
  <2>5. Past' /\ Schedule!OneCatchUp'
    BY <2>0, <2>1, <2>2, PastKept DEF ScheduleInv, Counted, Schedule!TypeOK
  <2> QED
    BY <2>2, <2>3, <2>4, <2>5 DEF ScheduleInv
<1> QED
  BY <1>1, <1>2, <1>3

LEMMA ScheduleStep ==
  Schedule!ScheduleAssumption /\ ScheduleInv
    /\ [Schedule!Next]_(Schedule!vars) => ScheduleInv'
<1> SUFFICES ASSUME Schedule!ScheduleAssumption, ScheduleInv,
                    [Schedule!Next]_(Schedule!vars)
             PROVE  ScheduleInv'
  OBVIOUS
<1>1. CASE UNCHANGED Schedule!vars
  BY <1>1
     DEF Schedule!vars, Schedule!dbVars, Schedule!memVars, ScheduleInv,
     Schedule!TypeOK, Counted, OneAtATime, RowSays, RequestSays, RightTime,
     Past, Schedule!OneCatchUp, Schedule!ArmedWhenScheduled, Schedule!Calm
<1>2. CASE Schedule!Next
  BY <1>2, ScheduleRequest, ScheduleIsWritten, ScheduleArms,
     ScheduleCancelled, ScheduleClaimed, OccurrenceStep, TimerFires,
     FireStart, OccurrenceCreated, ScheduleAdvances, FireArmStep,
     ScheduleProcess
  DEF Schedule!Next, Schedule!CallStep, Schedule!FireStep
<1> QED
  BY <1>1, <1>2

LEMMA ScheduleHolds == Schedule!ScheduleAssumption /\ ScheduleInv
                         => Schedule!OnTime
BY DEF ScheduleInv, Schedule!OnTime, RowSays, Schedule!DispatchedOnce,
   RightTime, Schedule!NeverEarly

\* Nothing goes out twice, before its time, or again for the periods that were
\* missed while the process was down, and a scheduled row has its timer,
\* through any requests, refusals and restarts
\* (campaign-runner.service.ts:88-194).
THEOREM SchedulesHold == Spec => []OnTime
<1> DEFINE I == part = "schedule" => ScheduleInv
<1>1. Init => I
  BY PartsAssumption, ScheduleInit DEF Init
<1>2. I /\ [Next]_vars => I'
  BY PartsAssumption, PartSteps, ScheduleStep
<1>3. I => OnTime
  BY PartsAssumption, ScheduleHolds DEF OnTime
<1> QED
  BY <1>1, <1>2, <1>3, PTL DEF Spec
=============================================================================
