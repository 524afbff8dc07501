------------------------------- MODULE TaskPool -------------------------------
(***************************************************************************)
(* The promise pool of a tenant and the pacing of a blast                  *)
(* (queue/task-pool.ts).  A task of the pool first takes a slot of its     *)
(* campaign's RateLimiter, sleeps until the slot, and then works.  The     *)
(* pace may be changed while tasks sleep: a slot that is reserved stays    *)
(* where it is.  pump() runs without an await, so add() and the end of a   *)
(* task leave the pool filled.                                             *)
(***************************************************************************)
EXTENDS Naturals, Sequences, FiniteSets

CONSTANTS
  Tasks,         \* the tasks that are added, each once
  Concurrency,
  Intervals,     \* intervalMs for the paces the operator may choose; 0 = full speed
  MaxClock,      \* bound: the clock
  MaxChanges     \* bound: changes of pace

PoolAssumption ==
  /\ Concurrency \in Nat \ {0} /\ MaxClock \in Nat /\ MaxChanges \in Nat
  /\ Intervals \subseteq Nat

VARIABLES
  clock,
  queue,       \* tasks in the order they were added
  active,      \* tasks taken by the pool
  stage,       \* per task: "new", "queued", "called", "asleep", "working", "done"
  wake,        \* per task: the slot it sleeps for
  interval,    \* RateLimiter.intervalMs
  nextAt,      \* RateLimiter.nextAt
  slots,       \* every slot given so far, and the interval it was given under
  changes

vars == <<clock, queue, active, stage, wake, interval, nextAt, slots, changes>>

Stages == {"new", "queued", "called", "asleep", "working", "done"}

TypeOK ==
  /\ clock \in 0..MaxClock
  /\ queue \in Seq(Tasks) /\ active \subseteq Tasks
  /\ stage \in [Tasks -> Stages] /\ wake \in [Tasks -> Nat]
  /\ interval \in Intervals /\ nextAt \in Nat
  /\ slots \in Seq([at : Nat, pace : Intervals])
  /\ changes \in 0..MaxChanges

Init ==
  /\ clock = 0 /\ queue = <<>> /\ active = {}
  /\ stage = [t \in Tasks |-> "new"] /\ wake = [t \in Tasks |-> 0]
  /\ interval \in Intervals /\ nextAt = 0
  /\ slots = <<>> /\ changes = 0

Lower(a, b) == IF a < b THEN a ELSE b

\* Mutant: the end of a task does not take the next one.
NoPump(q, running, st) == /\ queue' = q /\ active' = running /\ stage' = st

\* pump(): take tasks from the front while a worker is free.
Pump(q, running, st) ==
  LET n     == Lower(Concurrency - Cardinality(running), Len(q))
      taken == {q[i] : i \in 1..n}
  IN  /\ queue' = SubSeq(q, n + 1, Len(q))
      /\ active' = running \cup taken
      /\ stage' = [t \in Tasks |-> IF t \in taken THEN "called" ELSE st[t]]

Add(t) ==
  /\ stage[t] = "new"
  /\ Pump(Append(queue, t), active, [stage EXCEPT ![t] = "queued"])
  /\ UNCHANGED <<clock, wake, interval, nextAt, slots, changes>>

\* Mutant: the next slot counts from now, so that sleepers share slots.
SlotFromNow == clock

Reserved == IF nextAt > clock THEN nextAt ELSE clock

\* RateLimiter.wait()
Wait(t) ==
  /\ stage[t] = "called"
  /\ IF interval = 0
     THEN /\ stage' = [stage EXCEPT ![t] = "working"]
          /\ UNCHANGED <<wake, nextAt, slots>>
     ELSE /\ nextAt' = Reserved + interval
          /\ slots' = Append(slots, [at |-> Reserved, pace |-> interval])
          /\ wake' = [wake EXCEPT ![t] = Reserved]
          /\ stage' = [stage EXCEPT ![t] = IF Reserved > clock THEN "asleep" ELSE "working"]
  /\ UNCHANGED <<clock, queue, active, interval, changes>>

Wake(t) ==
  /\ stage[t] = "asleep" /\ clock >= wake[t]
  /\ stage' = [stage EXCEPT ![t] = "working"]
  /\ UNCHANGED <<clock, queue, active, wake, interval, nextAt, slots, changes>>

\* The task ends, or throws: catch() and finally() run in either case.
End(t) ==
  /\ stage[t] = "working"
  /\ Pump(queue, active \ {t}, [stage EXCEPT ![t] = "done"])
  /\ UNCHANGED <<clock, wake, interval, nextAt, slots, changes>>

\* setPerMinute()
SetPerMinute(i) ==
  /\ changes < MaxChanges /\ i # interval
  /\ interval' = i
  /\ changes' = changes + 1
  /\ UNCHANGED <<clock, queue, active, stage, wake, nextAt, slots>>

\* Time passes: a sleeper may be woken late, never early.
Tick ==
  /\ clock < MaxClock
  /\ clock' = clock + 1
  /\ UNCHANGED <<queue, active, stage, wake, interval, nextAt, slots, changes>>

Next ==
  \/ Tick
  \/ \E i \in Intervals : SetPerMinute(i)
  \/ \E t \in Tasks : Add(t) \/ Wait(t) \/ Wake(t) \/ End(t)

Spec == Init /\ [][Next]_vars

\* A task waits in the queue only while every worker is taken
\* (task-pool.ts:21-32): a task that throws must give its place back.
PoolBusy ==
  /\ Cardinality(active) <= Concurrency
  /\ queue # <<>> => Cardinality(active) = Concurrency

\* Slots are given out in order, each at least the interval of the one
\* before away from it, whatever number of tasks ask at once and however the
\* pace is changed in between (task-pool.ts:54-60); and nobody works before
\* its slot.
SlotsApart ==
  /\ \A i \in 1..(Len(slots) - 1) : slots[i + 1].at >= slots[i].at + slots[i].pace
  /\ \A t \in Tasks : stage[t] \in {"working", "done"} => clock >= wake[t]

\* The pool and the limiter together.
PacedPool == PoolBusy /\ SlotsApart
=============================================================================
