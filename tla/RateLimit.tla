------------------------------ MODULE RateLimit ------------------------------
(***************************************************************************)
(* The rate-limit guard in front of the public routes                     *)
(* (rate-limit.guard.ts): one list of times per bucket, a bucket being the *)
(* handler, the client's address and, on some routes, the property.  A     *)
(* refused request is not recorded.  The sweep of idle buckets looks at    *)
(* one horizon for all routes, whatever their own windows are.             *)
(*                                                                         *)
(* canActivate() awaits nothing, so a call of it is one action.  A hit is  *)
(* named by its place in `admitted`, all the requests the bucket has let   *)
(* through since the process started; the bucket itself is the set of the  *)
(* hits it still holds.                                                    *)
(***************************************************************************)
EXTENDS Naturals, Sequences, FiniteSets

CONSTANTS
  Keys,          \* buckets
  Limit,         \* per bucket: config.limit of its route
  Window,        \* per bucket: config.windowSec of its route
  SweepEvery,    \* the sweep runs with the first request after so long
  Horizon,       \* what the sweep keeps
  MaxClock,      \* bound: the clock
  MaxAdmitted    \* bound: requests a bucket lets through

RateAssumption ==
  /\ Limit \in [Keys -> Nat \ {0}] /\ Window \in [Keys -> Nat \ {0}]
  /\ SweepEvery \in Nat /\ Horizon \in Nat
  /\ MaxClock \in Nat /\ MaxAdmitted \in Nat
  \* every @RateLimit of the controllers has a window of 60 s; the sweep
  \* keeps ten minutes
  /\ \A k \in Keys : Window[k] <= Horizon

VARIABLES
  clock,
  admitted,     \* per bucket: when each request was let through (a record)
  kept,         \* buckets: the hits that are remembered
  lastSweep

vars == <<clock, admitted, kept, lastSweep>>

TypeOK ==
  /\ clock \in 0..MaxClock /\ lastSweep \in 0..MaxClock
  /\ admitted \in [Keys -> Seq(0..MaxClock)]
  /\ kept \in [Keys -> SUBSET Nat]
  /\ \A k \in Keys : kept[k] \subseteq DOMAIN admitted[k]

Init ==
  /\ clock = 0 /\ lastSweep = 0
  /\ admitted = [k \in Keys |-> <<>>]
  /\ kept = [k \in Keys |-> {}]

\* Mutant: a hit counts one tick less than the window.
ShortHits(k) == {i \in kept[k] : clock - admitted[k][i] < Window[k] - 1}

\* buckets.get(key).filter(...)
Hits(k) == {i \in kept[k] : clock - admitted[k][i] < Window[k]}

\* What is left of a bucket when the sweep has passed.
Alive(times, held) == {i \in held : clock - times[i] < Horizon}

Tick ==
  /\ clock < MaxClock
  /\ clock' = clock + 1
  /\ UNCHANGED <<admitted, kept, lastSweep>>

Admit(k) ==
  /\ Cardinality(Hits(k)) < Limit[k]
  /\ Len(admitted[k]) < MaxAdmitted
  /\ admitted' = [admitted EXCEPT ![k] = Append(@, clock)]
  /\ LET held == [kept EXCEPT ![k] = Hits(k) \cup {Len(admitted[k]) + 1}]
     IN  IF clock - lastSweep > SweepEvery
         THEN /\ lastSweep' = clock
              /\ kept' = [j \in Keys |-> Alive(admitted'[j], held[j])]
         ELSE /\ kept' = held
              /\ UNCHANGED lastSweep
  /\ UNCHANGED clock

\* "Too many requests": the bucket keeps its old list.
Refuse(k) ==
  /\ Cardinality(Hits(k)) >= Limit[k]
  /\ UNCHANGED vars

\* The buckets are memory of the process.
Restart ==
  /\ admitted' = [k \in Keys |-> <<>>]
  /\ kept' = [k \in Keys |-> {}]
  /\ lastSweep' = clock
  /\ UNCHANGED clock

Next == Tick \/ Restart \/ \E k \in Keys : Admit(k) \/ Refuse(k)

Spec == Init /\ [][Next]_vars

\* Every window of a route, wherever it starts, holds at most `limit`
\* requests of a bucket: a request and the limit-th one after it are a
\* window apart.  The pruning of the bucket and the sweep between them
\* (rate-limit.guard.ts:51-66) must not lose a hit that still counts.
AtMostLimit ==
  \A k \in Keys : \A i \in 1..Len(admitted[k]) :
    i + Limit[k] <= Len(admitted[k])
      => admitted[k][i + Limit[k]] - admitted[k][i] >= Window[k]
=============================================================================
