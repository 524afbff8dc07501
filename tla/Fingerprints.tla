----------------------------- MODULE Fingerprints -----------------------------
(***************************************************************************)
(* The canvas-fingerprint farm check (public.service.ts, recordFingerprint):*)
(* one fingerprint that is presented from many addresses within a window   *)
(* is a farm.  The map is memory, bounded, and forgets the fingerprint     *)
(* that was inserted first when it is full.  All of it runs after the one  *)
(* await on the property, so a call is one action.                         *)
(***************************************************************************)
EXTENDS Integers, Sequences, FiniteSets

CONSTANTS
  Prints,       \* fingerprints
  Addresses,    \* hashed client addresses
  FpWindow,     \* FP_WINDOW_MS
  FarmIps,      \* FP_FARM_IPS
  MaxEntries,   \* FP_MAX_ENTRIES
  MaxClock      \* bound: the clock

FingerprintAssumption ==
  FpWindow \in Nat /\ FarmIps \in Nat \ {0} /\ MaxEntries \in Nat \ {0}
    /\ MaxClock \in Nat

VARIABLES
  clock,
  order,     \* keys of fpMap in the order of insertion
  ips,       \* fpMap: per fingerprint, the time each address was last seen
  last,      \* when each address really presented each fingerprint last
  verdict    \* the answer given last

vars == <<clock, order, ips, last, verdict>>

Never == -1
Times == 0..MaxClock
Tracked == {order[i] : i \in 1..Len(order)}
NoneSeen == [a \in Addresses |-> Never]

TypeOK ==
  /\ clock \in Times
  /\ order \in Seq(Prints) /\ Len(order) = Cardinality(Tracked)
  /\ ips \in [Prints -> [Addresses -> Times \cup {Never}]]
  /\ last \in [Prints -> [Addresses -> Times \cup {Never}]]
  /\ verdict \in [fp : Prints, farm : BOOLEAN, at : Times]

Init ==
  /\ clock = 0 /\ order = <<>>
  /\ ips = [p \in Prints |-> NoneSeen] /\ last = ips
  /\ verdict \in [fp : Prints, farm : {FALSE}, at : {0}]

Tick ==
  /\ clock < MaxClock
  /\ clock' = clock + 1
  /\ UNCHANGED <<order, ips, last, verdict>>

\* Mutant: addresses are never forgotten.
NoExpiry(seen) == seen

Expire(seen) ==
  [a \in Addresses |-> IF clock - seen[a] > FpWindow THEN Never ELSE seen[a]]

Record(fp, a) ==
  LET full == fp \notin Tracked /\ Len(order) >= MaxEntries
      old  == IF full THEN [ips EXCEPT ![Head(order)] = NoneSeen] ELSE ips
      seen == Expire([old[fp] EXCEPT ![a] = clock])
  IN  /\ order' = IF fp \in Tracked THEN order
                  ELSE Append(IF full THEN Tail(order) ELSE order, fp)
      /\ ips' = [old EXCEPT ![fp] = seen]
      /\ last' = [last EXCEPT ![fp][a] = clock]
      /\ verdict' = [fp |-> fp, at |-> clock,
                     farm |-> Cardinality({b \in Addresses : seen[b] # Never}) >= FarmIps]
      /\ UNCHANGED clock

Next == Tick \/ \E fp \in Prints, a \in Addresses : Record(fp, a)

Spec == Init /\ [][Next]_vars

\* A visitor is called part of a farm only if that many addresses really
\* presented the fingerprint within the window (public.service.ts:180-184:
\* expiry before the count, eviction, reuse of a bucket after eviction), and
\* the map never outgrows its bound.
FarmIsReal ==
  /\ Len(order) <= MaxEntries
  /\ verdict.farm =>
       Cardinality({a \in Addresses :
         /\ last[verdict.fp][a] # Never
         /\ verdict.at - last[verdict.fp][a] <= FpWindow}) >= FarmIps
=============================================================================
