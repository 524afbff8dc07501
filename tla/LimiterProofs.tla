--------------------------- MODULE LimiterProofs ----------------------------
(***************************************************************************)
(* The limits of the platform: the windows of the public routes, the       *)
(* plan's quota, the frequency caps and the spread of calls over the       *)
(* numbers, for any limits, windows, sweeps, bounds, batches and numbers   *)
(* of addresses, leads and campaigns.                                      *)
(*                                                                         *)
(* Rate limit: the guard counts what the bucket still holds, the property  *)
(* what was let through. The two agree on a window because neither the     *)
(* pruning nor a sweep drops a hit that is younger than the window         *)
(* (Remembered); for that the sweep must keep what the windows look at     *)
(* (RateAssumption).                                                       *)
(*                                                                         *)
(* Fingerprints: the map forgets, by age and by eviction, but what it      *)
(* still says is when an address came last (FarmInv), so it counts no      *)
(* address that did not come within the window. That only finitely many    *)
(* addresses have come is part of the invariant, not an assumption.        *)
(*                                                                         *)
(* Quota, caps and routing: rows are counted before a batch is created,    *)
(* not while, so what bounds the count is what is counted plus what the    *)
(* dispatches hold (QuotaKept, CapsKept): at most MaxParallel - 1 others   *)
(* hold a batch each, or a lead each. A row's number is the rank of its    *)
(* lead among those of its campaign (Placed), because a campaign takes     *)
(* leads in their order and creates all the rows of a batch at once.       *)
(***************************************************************************)
EXTENDS PartsProofs, Integers

\* Time does not run backwards along a bucket.
Ordered ==
  \A k \in RateParams.Keys : \A i, j \in 1..Len(admitted[k]) :
    i <= j => admitted[k][i] <= admitted[k][j] /\ admitted[k][j] <= rateClock

\* A hit that still counts is in the bucket.
Remembered ==
  \A k \in RateParams.Keys : \A i \in 1..Len(admitted[k]) :
    rateClock - admitted[k][i] < RateParams.Window[k] => i \in kept[k]

RateInv == Rate!TypeOK /\ Ordered /\ Remembered /\ Rate!AtMostLimit

\* Cardinality is the same operator wherever FiniteSets is instantiated.
LEMMA RateCardinality == \A S : Rate!Cardinality(S) = Cardinality(S)
BY DEF Rate!Cardinality, Cardinality

LEMMA ElementsIn ==
  ASSUME NEW S, NEW s \in Seq(S)
  PROVE  Len(s) \in Nat /\ \A i \in 1..Len(s) : s[i] \in S
OBVIOUS

LEMMA TimesAreNat ==
  ASSUME RateInv, NEW k \in RateParams.Keys
  PROVE  /\ Len(admitted[k]) \in Nat
         /\ \A i \in 1..Len(admitted[k]) : admitted[k][i] \in Nat
<1>1. admitted[k] \in Seq(0..RateParams.MaxClock)
  BY DEF RateInv, Rate!TypeOK
<1>2. /\ Len(admitted[k]) \in Nat
      /\ \A i \in 1..Len(admitted[k]) : admitted[k][i] \in 0..RateParams.MaxClock
  BY <1>1, ElementsIn
<1> QED
  BY <1>2

LEMMA EntryAppended ==
  ASSUME NEW S, NEW s \in Seq(S), NEW e \in S
  PROVE  /\ Append(s, e) \in Seq(S)
         /\ Len(Append(s, e)) = Len(s) + 1
         /\ Append(s, e)[Len(s) + 1] = e
         /\ \A i \in 1..Len(s) : Append(s, e)[i] = s[i]
OBVIOUS

LEMMA RateInvInit == ASSUME Rate!RateAssumption PROVE Rate!Init => RateInv
<1> SUFFICES ASSUME Rate!Init PROVE RateInv
  OBVIOUS
<1>1. \A k \in RateParams.Keys : admitted[k] = <<>> /\ Len(admitted[k]) = 0
  BY DEF Rate!Init
<1>2. Rate!TypeOK
  BY <1>1 DEF Rate!Init, Rate!TypeOK, Rate!RateAssumption
<1> QED
  BY <1>1, <1>2 DEF RateInv, Ordered, Remembered, Rate!AtMostLimit

\* The last l of n.
LEMMA LastOnes ==
  ASSUME NEW n \in Nat, NEW l \in Nat \ {0}, NEW i \in 1..n, i + l = n + 1
  PROVE  IsFiniteSet(i..n) /\ Cardinality(i..n) = l
<1>1. i \in Int /\ n \in Int /\ i <= n /\ n - i + 1 = l
  OBVIOUS
<1>2. /\ IsFiniteSet(i..n)
      /\ Cardinality(i..n) = IF i > n THEN 0 ELSE n - i + 1
  BY <1>1, FS_Interval
<1> QED
  BY <1>1, <1>2

LEMMA Younger ==
  ASSUME NEW c \in Nat, NEW w \in Nat, NEW x \in Nat, NEW y \in Nat,
         c - x < w, x <= y
  PROVE  c - y < w
  OBVIOUS

\* Limit hits of one window would all be in the bucket, and refuse the next.
LEMMA LimitthIsOld ==
  ASSUME Rate!RateAssumption, RateInv, NEW k \in RateParams.Keys,
         Cardinality(Rate!Hits(k)) < RateParams.Limit[k],
         NEW i \in 1..Len(admitted[k]),
         i + RateParams.Limit[k] = Len(admitted[k]) + 1
  PROVE  rateClock - admitted[k][i] >= RateParams.Window[k]
<1> DEFINE n == Len(admitted[k])
           recent == i..n
<1>0. /\ n \in Nat /\ rateClock \in Nat /\ RateParams.Limit[k] \in Nat \ {0}
          /\ RateParams.Window[k] \in Nat
      /\ \A j \in 1..n : admitted[k][j] \in Nat
  <2>1. rateClock \in Nat
    BY DEF RateInv, Rate!TypeOK
  <2> QED
    BY <2>1, TimesAreNat DEF Rate!RateAssumption
<1>1. SUFFICES ASSUME rateClock - admitted[k][i] < RateParams.Window[k]
               PROVE  FALSE
  <2>1. admitted[k][i] \in Nat
    BY <1>0
  <2>2. rateClock - admitted[k][i] \in Int /\ RateParams.Window[k] \in Int
    BY <1>0, <2>1
  <2> QED
    BY <2>2
<1>2. \A j \in recent : /\ admitted[k][i] <= admitted[k][j]
                      /\ rateClock - admitted[k][j] < RateParams.Window[k]
  <2> TAKE j \in recent
  <2>1. j \in 1..n /\ i <= j
    BY <1>0
  <2>2. admitted[k][i] <= admitted[k][j]
    BY <2>1 DEF RateInv, Ordered
  <2>3. admitted[k][i] \in Nat /\ admitted[k][j] \in Nat
    BY <1>0, <2>1
  <2>4. rateClock \in Nat /\ RateParams.Window[k] \in Nat
    BY <1>0
  <2> QED
    BY <1>1, <2>2, <2>3, <2>4, Younger
<1>3. recent \subseteq Rate!Hits(k)
  BY <1>0, <1>2 DEF RateInv, Remembered, Rate!Hits
<1>4. IsFiniteSet(recent) /\ Cardinality(recent) = RateParams.Limit[k]
  BY <1>0, LastOnes
<1>5. IsFiniteSet(Rate!Hits(k))
  <2>1. IsFiniteSet(1..n)
    <3>1. n \in Int /\ 1 \in Int
      BY <1>0
    <3> HIDE DEF n
    <3> QED
      BY <3>1, FS_Interval
  <2>2. Rate!Hits(k) \in SUBSET (1..n)
    BY <1>0 DEF Rate!Hits, RateInv, Rate!TypeOK
  <2> QED
    BY <2>1, <2>2, FS_Subset
<1>6. Cardinality(recent) <= Cardinality(Rate!Hits(k))
          /\ Cardinality(Rate!Hits(k)) \in Nat
  BY <1>3, <1>5, FS_Subset, FS_CardinalityType
<1> QED
  BY <1>0, <1>4, <1>6

LEMMA AdmitRateInv ==
  ASSUME Rate!RateAssumption, RateInv, NEW k \in RateParams.Keys, Rate!Admit(k)
  PROVE  RateInv'
<1> DEFINE n == Len(admitted[k])
           more == [kept EXCEPT ![k] = Rate!Hits(k) \cup {n + 1}]
<1>1. /\ rateClock' = rateClock /\ rateClock \in Nat
          /\ rateClock \in 0..RateParams.MaxClock
      /\ admitted' = [admitted EXCEPT ![k] = Append(@, rateClock)]
      /\ \/ lastSweep' = rateClock
            /\ kept' = [j \in RateParams.Keys |-> Rate!Alive(admitted'[j], more[j])]
         \/ lastSweep' = lastSweep /\ kept' = more
  <2>1. rateClock \in Nat /\ rateClock \in 0..RateParams.MaxClock
    BY DEF RateInv, Rate!TypeOK
  <2>2. rateClock' = rateClock
            /\ admitted' = [admitted EXCEPT ![k] = Append(@, rateClock)]
    BY DEF Rate!Admit
  <2>3. \/ lastSweep' = rateClock
            /\ kept' = [j \in RateParams.Keys |-> Rate!Alive(admitted'[j], more[j])]
        \/ lastSweep' = lastSweep /\ kept' = more
    BY DEF Rate!Admit
  <2> QED
    BY <2>1, <2>2, <2>3
<1>2. /\ admitted' \in [RateParams.Keys -> Seq(0..RateParams.MaxClock)]
      /\ n \in Nat /\ Len(admitted'[k]) = n + 1
      /\ admitted'[k][n + 1] = rateClock
      /\ \A i \in 1..n : admitted'[k][i] = admitted[k][i]
      /\ \A j \in RateParams.Keys \ {k} : admitted'[j] = admitted[j]
  <2>1. admitted \in [RateParams.Keys -> Seq(0..RateParams.MaxClock)]
            /\ admitted[k] \in Seq(0..RateParams.MaxClock)
    BY DEF RateInv, Rate!TypeOK
  <2>2. n \in Nat
    BY TimesAreNat
  <2>3. /\ Append(admitted[k], rateClock) \in Seq(0..RateParams.MaxClock)
        /\ Len(Append(admitted[k], rateClock)) = n + 1
        /\ Append(admitted[k], rateClock)[n + 1] = rateClock
        /\ \A i \in 1..n : Append(admitted[k], rateClock)[i] = admitted[k][i]
    BY <1>1, <2>1, EntryAppended
  <2>4. admitted'[k] = Append(admitted[k], rateClock)
    BY <1>1, <2>1
  <2> HIDE DEF n
  <2> QED
    BY <1>1, <2>1, <2>2, <2>3, <2>4
<1>3. \A j \in RateParams.Keys : /\ Len(admitted[j]) \in Nat
                      /\ \A i \in 1..Len(admitted[j]) : admitted[j][i] \in Nat
  BY TimesAreNat
<1>4. \A j \in RateParams.Keys : RateParams.Window[j] \in Nat
          /\ RateParams.Limit[j] \in Nat \ {0} /\ RateParams.Horizon \in Nat
                      /\ RateParams.Window[j] <= RateParams.Horizon
  BY DEF Rate!RateAssumption
<1>5. more \in [RateParams.Keys -> SUBSET Nat]
          /\ \A j \in RateParams.Keys : more[j] \subseteq 1..Len(admitted'[j])
  <2>1. Rate!Hits(k) \subseteq 1..n
    BY <1>3 DEF Rate!Hits, RateInv, Rate!TypeOK
  <2>2. more[k] \subseteq 1..(n + 1)
    BY <1>2, <2>1 DEF RateInv, Rate!TypeOK
  <2>3. \A j \in RateParams.Keys \ {k} : more[j] = kept[j]
            /\ kept[j] \subseteq 1..Len(admitted[j])
    BY <1>3 DEF RateInv, Rate!TypeOK
  <2>4. \A j \in RateParams.Keys : more[j] \subseteq 1..Len(admitted'[j])
    BY <1>2, <2>2, <2>3
  <2>5. kept \in [RateParams.Keys -> SUBSET Nat]
            /\ Rate!Hits(k) \cup {n + 1} \in SUBSET Nat
    BY <1>2, <2>1 DEF RateInv, Rate!TypeOK
  <2> QED
    BY <2>4, <2>5
<1>6. Rate!TypeOK'
  <2>1. /\ kept' \in [RateParams.Keys -> SUBSET Nat]
        /\ \A j \in RateParams.Keys : kept'[j] \subseteq 1..Len(admitted'[j])
    BY <1>1, <1>5 DEF Rate!Alive
  <2>2. \A j \in RateParams.Keys : DOMAIN admitted'[j] = 1..Len(admitted'[j])
    BY <1>2
  <2>3. lastSweep' \in 0..RateParams.MaxClock
    BY <1>1 DEF RateInv, Rate!TypeOK
  <2> QED
    BY <1>1, <1>2, <2>1, <2>2, <2>3 DEF Rate!TypeOK
<1>7. Ordered'
  <2> SUFFICES ASSUME NEW j \in RateParams.Keys,
          NEW x \in 1..Len(admitted'[j]),
                      NEW y \in 1..Len(admitted'[j]), x <= y
               PROVE  admitted'[j][x] <= admitted'[j][y]
                      /\ admitted'[j][y] <= rateClock
    <3>1. rateClock' = rateClock
      BY <1>1
    <3> QED
      BY <3>1 DEF Ordered
  <2>1. CASE j # k
    BY <1>2, <2>1 DEF RateInv, Ordered
  <2>2. CASE j = k /\ y \in 1..n
    <3>1. x \in 1..n
      BY <1>2, <2>2
    <3> QED
      BY <1>2, <2>2, <3>1 DEF RateInv, Ordered
  <2>3. CASE j = k /\ y = n + 1
    <3>1. CASE x \in 1..n
      <4>1. admitted[k][x] <= rateClock
        BY <3>1 DEF RateInv, Ordered
      <4> QED
        BY <1>1, <1>2, <2>3, <3>1, <4>1
    <3>2. CASE x = n + 1
      BY <1>1, <1>2, <2>3, <3>2
    <3> QED
      BY <1>2, <2>3, <3>1, <3>2
  <2> QED
    BY <1>2, <2>1, <2>2, <2>3
<1>8. Remembered'
  <2> SUFFICES ASSUME NEW j \in RateParams.Keys,
          NEW i \in 1..Len(admitted'[j]),
                      rateClock - admitted'[j][i] < RateParams.Window[j]
               PROVE  i \in kept'[j]
    BY <1>1 DEF Remembered
  <2>1. i \in more[j]
    <3>1. CASE j # k
      BY <1>2, <3>1 DEF RateInv, Remembered, Rate!TypeOK
    <3>2. CASE j = k /\ i \in 1..n
      <4>1. i \in Rate!Hits(k)
        BY <1>2, <3>2 DEF RateInv, Remembered, Rate!Hits
      <4> QED
        BY <3>2, <4>1 DEF RateInv, Rate!TypeOK
    <3>3. CASE j = k /\ i = n + 1
      BY <3>3 DEF RateInv, Rate!TypeOK
    <3> QED
      BY <1>2, <3>1, <3>2, <3>3
  <2>2. admitted'[j][i] \in Nat
    <3>1. CASE j # k
      BY <1>2, <1>3, <3>1
    <3>2. CASE j = k
      BY <1>1, <1>2, <1>3, <3>2
    <3> QED
      BY <3>1, <3>2
  <2>3. rateClock - admitted'[j][i] < RateParams.Horizon
    <3>1. /\ rateClock \in Nat /\ RateParams.Window[j] \in Nat
          /\ RateParams.Horizon \in Nat
          /\ RateParams.Window[j] <= RateParams.Horizon
      BY <1>1, <1>4
    <3> QED
      BY <2>2, <3>1
  <2> QED
    BY <1>1, <2>1, <2>3 DEF Rate!Alive
<1>9. Rate!AtMostLimit'
  <2> SUFFICES ASSUME NEW j \in RateParams.Keys,
          NEW i \in 1..Len(admitted'[j]),
                      i + RateParams.Limit[j] <= Len(admitted'[j])
               PROVE  admitted'[j][i + RateParams.Limit[j]] - admitted'[j][i] >= RateParams.Window[j]
    BY DEF Rate!AtMostLimit
  <2>1. CASE j # k
    BY <1>2, <2>1 DEF RateInv, Rate!AtMostLimit
  <2>2. CASE j = k /\ i + RateParams.Limit[k] <= n
    <3>1. i \in 1..n /\ i + RateParams.Limit[k] \in 1..n
      BY <1>2, <1>4, <2>2
    <3>2. admitted[k][i + RateParams.Limit[k]] - admitted[k][i] >= RateParams.Window[k]
      BY <2>2, <3>1 DEF RateInv, Rate!AtMostLimit
    <3> QED
      BY <1>2, <2>2, <3>1, <3>2
  <2>3. CASE j = k /\ i + RateParams.Limit[k] = n + 1
    <3>1. i \in 1..n
      BY <1>2, <1>4, <2>3
    <3>2. Cardinality(Rate!Hits(k)) < RateParams.Limit[k]
      BY RateCardinality DEF Rate!Admit
    <3>3. rateClock - admitted[k][i] >= RateParams.Window[k]
      BY <2>3, <3>1, <3>2, LimitthIsOld
    <3> QED
      BY <1>2, <2>3, <3>1, <3>3
  <2> QED
    BY <1>2, <1>4, <2>1, <2>2, <2>3
<1> QED
  BY <1>6, <1>7, <1>8, <1>9 DEF RateInv

LEMMA RateInvStep == ASSUME Rate!RateAssumption
  PROVE RateInv /\ [Rate!Next]_(Rate!vars) => RateInv'
<1> SUFFICES ASSUME RateInv, [Rate!Next]_(Rate!vars) PROVE RateInv'
  OBVIOUS
<1>1. CASE Rate!Tick
  <2>1. /\ rateClock \in Nat /\ rateClock' = rateClock + 1
            /\ rateClock' \in 0..RateParams.MaxClock
        /\ UNCHANGED <<admitted, kept, lastSweep>>
    BY <1>1 DEF Rate!Tick, RateInv, Rate!TypeOK, Rate!RateAssumption
  <2>2. \A k \in RateParams.Keys : \A i \in 1..Len(admitted[k]) : admitted[k][i] \in Nat
    BY TimesAreNat
  <2>3. Rate!TypeOK' /\ Rate!AtMostLimit'
    BY <2>1 DEF RateInv, Rate!TypeOK, Rate!AtMostLimit
  <2>4. Ordered'
    BY <2>1, <2>2 DEF RateInv, Ordered
  <2>5. Remembered'
    <3> SUFFICES ASSUME NEW k \in RateParams.Keys,
            NEW i \in 1..Len(admitted[k]),
                        rateClock' - admitted[k][i] < RateParams.Window[k]
                 PROVE  i \in kept[k]
      BY <2>1 DEF Remembered
    <3>1. RateParams.Window[k] \in Nat
      BY DEF Rate!RateAssumption
    <3>2. rateClock - admitted[k][i] < RateParams.Window[k]
      BY <2>1, <2>2, <3>1
    <3> QED
      BY <3>2 DEF RateInv, Remembered
  <2> QED
    BY <2>3, <2>4, <2>5 DEF RateInv
<1>2. CASE Rate!Restart
  <2>1. \A k \in RateParams.Keys : admitted'[k] = <<>> /\ Len(admitted'[k]) = 0
    BY <1>2 DEF Rate!Restart
  <2>2. Rate!TypeOK'
    BY <1>2, <2>1 DEF Rate!Restart, RateInv, Rate!TypeOK
  <2> QED
    BY <2>1, <2>2 DEF RateInv, Ordered, Remembered, Rate!AtMostLimit
<1>3. ASSUME NEW k \in RateParams.Keys, Rate!Admit(k) PROVE RateInv'
  BY <1>3, AdmitRateInv
<1>4. CASE UNCHANGED Rate!vars
  BY <1>4 DEF Rate!vars, RateInv, Rate!TypeOK, Ordered, Remembered,
     Rate!AtMostLimit
<1> QED
  BY <1>1, <1>2, <1>3, <1>4 DEF Rate!Next, Rate!Refuse

-----------------------------------------------------------------------------
\* The fingerprints.

\* The map is within its bound and says when an address came last, of those it
\* has not forgotten; only finitely many addresses have come.
FarmInv ==
  /\ farmClock \in Nat
  /\ farmOrder \in Seq(FarmParams.Prints)
     /\ Len(farmOrder) <= FarmParams.MaxEntries
  /\ ips \in [FarmParams.Prints -> [FarmParams.Addresses -> Nat \cup {Farm!Never}]]
  /\ last \in [FarmParams.Prints -> [FarmParams.Addresses -> Nat \cup {Farm!Never}]]
  /\ \A p \in FarmParams.Prints, a \in FarmParams.Addresses :
       ips[p][a] # Farm!Never => last[p][a] = ips[p][a]
  /\ \A p \in FarmParams.Prints :
       IsFiniteSet({a \in FarmParams.Addresses : last[p][a] # Farm!Never})
  /\ verdict.fp \in FarmParams.Prints
  /\ Farm!FarmIsReal

LEMMA FarmCardinality == \A S : Farm!Cardinality(S) = Cardinality(S)
BY DEF Farm!Cardinality, Cardinality

LEMMA FarmInit == Farm!FingerprintAssumption /\ Farm!Init => FarmInv
<1> SUFFICES ASSUME Farm!FingerprintAssumption, Farm!Init PROVE FarmInv
  OBVIOUS
<1>1. /\ ips \in [FarmParams.Prints -> [FarmParams.Addresses -> Nat \cup {Farm!Never}]]
      /\ last = ips
      /\ \A p \in FarmParams.Prints,
         a \in FarmParams.Addresses : ips[p][a] = Farm!Never
  BY DEF Farm!Init, Farm!NoneSeen, Farm!Never
<1>2. \A p \in FarmParams.Prints :
        {a \in FarmParams.Addresses : last[p][a] # Farm!Never} = {}
  BY <1>1
<1>3. /\ farmClock = 0 /\ farmOrder = <<>>
      /\ verdict.fp \in FarmParams.Prints /\ ~verdict.farm
  BY DEF Farm!Init
<1>4. /\ FarmParams.MaxEntries \in Nat
      /\ farmOrder \in Seq(FarmParams.Prints)
         /\ Len(farmOrder) <= FarmParams.MaxEntries
  BY <1>3 DEF Farm!FingerprintAssumption
<1>5. Farm!FarmIsReal
  BY <1>3, <1>4 DEF Farm!FarmIsReal
<1>6. \A p \in FarmParams.Prints :
        IsFiniteSet({a \in FarmParams.Addresses : last[p][a] # Farm!Never})
  BY <1>2, FS_EmptySet
<1> QED
  BY <1>1, <1>3, <1>4, <1>5, <1>6 DEF FarmInv

LEMMA FarmStep ==
  ASSUME Farm!FingerprintAssumption, FarmInv, [Farm!Next]_(Farm!vars)
  PROVE  FarmInv'
<1>1. CASE Farm!Tick
  BY <1>1 DEF Farm!Tick, FarmInv, Farm!FarmIsReal
<1>2. ASSUME NEW fp \in FarmParams.Prints, NEW a \in FarmParams.Addresses,
          Farm!Record(fp, a)
      PROVE  FarmInv'
  <2> DEFINE full == fp \notin Farm!Tracked
          /\ Len(farmOrder) >= FarmParams.MaxEntries
             old  == IF full THEN [ips EXCEPT ![Head(farmOrder)] = Farm!NoneSeen] ELSE ips
             recent == Farm!Expire([old[fp] EXCEPT ![a] = farmClock])
             Seen  == [FarmParams.Addresses -> Nat \cup {Farm!Never}]
  <2>1. /\ farmOrder' = IF fp \in Farm!Tracked THEN farmOrder
                        ELSE Append(IF full THEN Tail(farmOrder) ELSE farmOrder, fp)
        /\ ips' = [old EXCEPT ![fp] = recent]
        /\ last' = [last EXCEPT ![fp][a] = farmClock]
        /\ verdict'.fp = fp /\ verdict'.at = farmClock
        /\ verdict'.farm
             <=> Cardinality({b \in FarmParams.Addresses : recent[b] # Farm!Never})
                   >= FarmParams.FarmIps
        /\ farmClock' = farmClock
    BY <1>2, FarmCardinality DEF Farm!Record
  <2>2. /\ farmClock \in Nat /\ farmOrder \in Seq(FarmParams.Prints)
        /\ Len(farmOrder) \in Nat /\ Len(farmOrder) <= FarmParams.MaxEntries
        /\ ips \in [FarmParams.Prints -> Seen]
           /\ last \in [FarmParams.Prints -> Seen]
        /\ FarmParams.MaxEntries \in Nat \ {0} /\ FarmParams.FpWindow \in Nat
        /\ FarmParams.FarmIps \in Nat
    BY DEF FarmInv, Farm!FingerprintAssumption
  <2>3. /\ farmOrder' \in Seq(FarmParams.Prints)
        /\ Len(farmOrder') <= FarmParams.MaxEntries
    <3>1. CASE fp \in Farm!Tracked
      BY <2>1, <2>2, <3>1
    <3>2. CASE fp \notin Farm!Tracked /\ full
      <4>1. /\ Tail(farmOrder) \in Seq(FarmParams.Prints)
            /\ Len(Tail(farmOrder)) = Len(farmOrder) - 1
        BY <2>2, <3>2
      <4>2. /\ Append(Tail(farmOrder), fp) \in Seq(FarmParams.Prints)
            /\ Len(Append(Tail(farmOrder), fp)) = Len(Tail(farmOrder)) + 1
        BY <4>1, EntryAppended
      <4>3. farmOrder' = Append(Tail(farmOrder), fp)
        BY <2>1, <3>2
      <4>4. Len(Append(Tail(farmOrder), fp)) <= FarmParams.MaxEntries
        BY <2>2, <4>1, <4>2
      <4> QED
        BY <4>2, <4>3, <4>4, Zenon
    <3>3. CASE fp \notin Farm!Tracked /\ ~full
      <4>1. /\ Append(farmOrder, fp) \in Seq(FarmParams.Prints)
            /\ Len(Append(farmOrder, fp)) = Len(farmOrder) + 1
        BY <2>2, EntryAppended
      <4>2. Len(farmOrder) < FarmParams.MaxEntries
        BY <2>2, <3>3
      <4>3. farmOrder' = Append(farmOrder, fp)
        BY <2>1, <3>3
      <4>4. Len(Append(farmOrder, fp)) <= FarmParams.MaxEntries
        BY <2>2, <4>1, <4>2
      <4> QED
        BY <4>1, <4>3, <4>4, Zenon
    <3> QED
      BY <3>1, <3>2, <3>3
  <2>4. /\ old \in [FarmParams.Prints -> Seen]
        /\ \A p \in FarmParams.Prints, b \in FarmParams.Addresses :
             old[p][b] # Farm!Never => last[p][b] = old[p][b]
    BY <2>2 DEF FarmInv, Farm!NoneSeen
  <2> HIDE DEF old, full
  <2>5. /\ recent \in Seen
        /\ \A b \in FarmParams.Addresses : recent[b] # Farm!Never =>
             /\ farmClock - recent[b] <= FarmParams.FpWindow
             /\ recent[b] = IF b = a THEN farmClock ELSE old[fp][b]
    <3>1. old[fp] \in Seen
      BY <2>4
    <3> DEFINE now == [old[fp] EXCEPT ![a] = farmClock]
    <3>2. /\ now \in Seen
          /\ \A b \in FarmParams.Addresses :
               now[b] = IF b = a THEN farmClock ELSE old[fp][b]
      BY <2>2, <3>1
    <3> HIDE DEF now
    <3>3. /\ Farm!Expire(now) \in Seen
          /\ \A b \in FarmParams.Addresses : Farm!Expire(now)[b] # Farm!Never =>
               /\ ~(farmClock - now[b] > FarmParams.FpWindow)
               /\ Farm!Expire(now)[b] = now[b]
      BY <2>2, <3>2 DEF Farm!Expire
    <3>4. \A b \in FarmParams.Addresses : Farm!Expire(now)[b] # Farm!Never =>
            farmClock - Farm!Expire(now)[b] <= FarmParams.FpWindow
      BY <2>2, <3>2, <3>3
    <3> QED
      BY <3>2, <3>3, <3>4 DEF now
  <2> HIDE DEF recent
  <2>6. /\ ips' \in [FarmParams.Prints -> Seen]
            /\ last' \in [FarmParams.Prints -> Seen]
        /\ ips'[fp] = recent
        /\ \A p \in FarmParams.Prints \ {fp} : ips'[p] = old[p]
           /\ last'[p] = last[p]
        /\ last'[fp][a] = farmClock
        /\ \A b \in FarmParams.Addresses \ {a} : last'[fp][b] = last[fp][b]
    BY <2>1, <2>2, <2>4, <2>5
  <2>7. \A p \in FarmParams.Prints, b \in FarmParams.Addresses :
          ips'[p][b] # Farm!Never => last'[p][b] = ips'[p][b]
    BY <2>4, <2>5, <2>6
  <2>8. \A p \in FarmParams.Prints :
          IsFiniteSet({b \in FarmParams.Addresses : last'[p][b] # Farm!Never})
    <3> SUFFICES ASSUME NEW p \in FarmParams.Prints
                 PROVE  IsFiniteSet({b \in FarmParams.Addresses : last'[p][b] # Farm!Never})
      OBVIOUS
    <3> DEFINE came == {b \in FarmParams.Addresses : last[p][b] # Farm!Never}
               come == {b \in FarmParams.Addresses : last'[p][b] # Farm!Never}
    <3>1. come \subseteq came \cup {a}
      BY <2>6
    <3>2. IsFiniteSet(came)
      BY DEF FarmInv
    <3> HIDE DEF came, come
    <3>3. IsFiniteSet(came \cup {a})
      BY <3>2, FS_AddElement
    <3>4. IsFiniteSet(come)
      BY <3>1, <3>3, FS_Subset
    <3> QED
      BY <3>4 DEF come
  <2>9. Farm!FarmIsReal'
    <3> DEFINE real == {b \in FarmParams.Addresses :
                          /\ last'[fp][b] # Farm!Never
                          /\ farmClock - last'[fp][b] <= FarmParams.FpWindow}
               counted == {b \in FarmParams.Addresses : recent[b] # Farm!Never}
               come == {b \in FarmParams.Addresses : last'[fp][b] # Farm!Never}
    <3>1. counted \subseteq real /\ real \subseteq come
      BY <2>5, <2>6, <2>7
    <3>2. IsFiniteSet(come)
      BY <2>8
    <3> SUFFICES ASSUME Cardinality(counted) >= FarmParams.FarmIps
                 PROVE  Cardinality(real) >= FarmParams.FarmIps
      BY <2>1, <2>3, FarmCardinality DEF Farm!FarmIsReal
    <3> HIDE DEF real, counted, come
    <3>3. IsFiniteSet(real)
      BY <3>1, <3>2, FS_Subset
    <3>4. /\ Cardinality(counted) <= Cardinality(real)
          /\ Cardinality(counted) \in Nat /\ Cardinality(real) \in Nat
      BY <3>1, <3>3, FS_Subset, FS_CardinalityType
    <3> QED
      BY <2>2, <3>4
  <2> QED
    BY <2>1, <2>2, <2>3, <2>6, <2>7, <2>8, <2>9 DEF FarmInv
<1>3. CASE UNCHANGED Farm!vars
  BY <1>3 DEF Farm!vars, FarmInv, Farm!FarmIsReal
<1> QED
  BY <1>1, <1>2, <1>3 DEF Farm!Next

\* Every window of a route, wherever it starts, holds at most `limit` requests
\* of a bucket (rate-limit.guard.ts:51-66), and a visitor is called part of a
\* farm only if so many addresses presented the fingerprint within the window,
\* which the map's expiry, eviction and bound do not spoil
\* (public.service.ts:168-184).
THEOREM WindowsAreKept == Spec => []WindowsHold
<1> DEFINE I == /\ part = "rate" => RateInv
                /\ part = "farm" => FarmInv
<1>1. Init => I
  BY PartsAssumption, RateInvInit, FarmInit DEF Init
<1>2. I /\ [Next]_vars => I'
  BY PartsAssumption, PartSteps, RateInvStep, FarmStep
<1>3. I => WindowsHold
  BY DEF RateInv, FarmInv, WindowsHold
<1> QED
  BY <1>1, <1>2, <1>3, PTL DEF Spec

-----------------------------------------------------------------------------
\* The quota, the caps and the routing of calls.

LEMMA QuotaCardinality == \A S : Quota!Cardinality(S) = Cardinality(S)
BY DEF Quota!Cardinality, Cardinality

LEMMA MulMono == ASSUME NEW a \in Nat, NEW b \in Nat, NEW k \in Nat, a <= b
  PROVE a * k <= b * k
  OBVIOUS

\* The start of the month, the sum and the division by the pool.
LEMMA MonthMono == ASSUME NEW n \in Nat \ {0}, NEW k \in Nat
  PROVE /\ (k \div n) * n <= ((k + 1) \div n) * n
        /\ (k \div n) * n \in Nat /\ ((k + 1) \div n) * n \in Nat
  OBVIOUS

LEMMA Divided == ASSUME NEW n \in Nat \ {0}, NEW k \in Nat
  PROVE /\ k % n \in 0..(n-1) /\ k \div n \in Nat
        /\ k = (k \div n) * n + (k % n)
  OBVIOUS

LEMMA Remainder == ASSUME NEW n \in Nat \ {0}, NEW q \in Nat,
  NEW j \in 0..(n-1)
  PROVE (q * n + j) % n = j
  OBVIOUS

\* How many elements of a finite set of numbers are below one of them.
LEMMA OneMore ==
  ASSUME NEW S, IsFiniteSet(S), NEW x
  PROVE  /\ IsFiniteSet(S \cup {x}) /\ Cardinality(S \cup {x}) \in Nat
         /\ Cardinality(S \cup {x}) <= Cardinality(S) + 1
<1>1. /\ IsFiniteSet(S \cup {x})
      /\ Cardinality(S \cup {x}) = IF x \in S THEN Cardinality(S)
           ELSE Cardinality(S) + 1
  BY FS_AddElement
<1>2. Cardinality(S) \in Nat /\ Cardinality(S \cup {x}) \in Nat
  BY <1>1, FS_CardinalityType
<1> QED
  BY <1>1, <1>2

LEMMA RankBelow ==
  ASSUME NEW S \in SUBSET Nat, IsFiniteSet(S), NEW a \in S
  PROVE  /\ Cardinality({r \in S : r < a}) \in Nat
         /\ Cardinality({r \in S : r < a}) < Cardinality(S)
<1> DEFINE A == {r \in S : r < a}
<1>1. IsFiniteSet(A)
  BY FS_Subset
<1>2. Cardinality(A) \in Nat /\ Cardinality(S) \in Nat
  BY <1>1, FS_CardinalityType
<1>3. IsFiniteSet(A \cup {a}) /\ Cardinality(A \cup {a}) = Cardinality(A) + 1
  BY <1>1, FS_AddElement
<1>7. A \cup {a} \in SUBSET S
  OBVIOUS
<1>8. Cardinality(A \cup {a}) <= Cardinality(S)
  BY <1>7, FS_Subset
<1> HIDE DEF A
<1>9. Cardinality(A) < Cardinality(S)
  BY <1>2, <1>3, <1>8
<1> QED
  BY <1>2, <1>9 DEF A

LEMMA RankGrows ==
  ASSUME NEW S \in SUBSET Nat, IsFiniteSet(S), NEW a \in S, NEW b \in S, a < b
  PROVE  Cardinality({r \in S : r < a}) < Cardinality({r \in S : r < b})
<1> DEFINE B == {r \in S : r < b}
<1>1. IsFiniteSet(B) /\ B \in SUBSET Nat /\ a \in B
  BY FS_Subset
<1>2. {r \in B : r < a} = {r \in S : r < a}
  <2>1. \A r \in S : r < a => r < b
    OBVIOUS
  <2> QED
    BY <2>1
<1> HIDE DEF B
<1>3. Cardinality({r \in B : r < a}) < Cardinality(B)
  BY <1>1, RankBelow
<1> QED
  BY <1>2, <1>3 DEF B

\* The first n of a set are at most n.
LEMMA FirstAreFew ==
  ASSUME NEW S \in SUBSET Nat, IsFiniteSet(S), NEW n \in Nat
  PROVE  Cardinality(Quota!FirstOf(S, n)) <= n
<1> DEFINE F == Quota!FirstOf(S, n)
           rank == [s \in F |-> Cardinality({r \in S : r < s})]
<1>1. F \subseteq S
  BY QuotaCardinality DEF Quota!FirstOf
<1>2. \A s \in F : rank[s] \in 0..(n - 1)
  <2> TAKE s \in F
  <2>1. Cardinality({r \in S : r < s}) \in Nat
    BY <1>1, RankBelow
  <2>2. Cardinality({r \in S : r < s}) < n
    BY QuotaCardinality DEF Quota!FirstOf
  <2> QED
    BY <2>1, <2>2
<1>3. rank \in Injection(F, 0..(n - 1))
  <2>1. rank \in [F -> 0..(n - 1)]
    BY <1>2
  <2>2. ASSUME NEW s \in F, NEW t \in F, s < t PROVE rank[s] < rank[t]
    BY <1>1, <2>2, RankGrows
  <2> HIDE DEF rank
  <2>3. ASSUME NEW s \in F, NEW t \in F, rank[s] = rank[t] PROVE s = t
    <3>1. s \in Nat /\ t \in Nat
      BY <1>1
    <3>2. rank[s] \in Nat /\ rank[t] \in Nat
      BY <1>2
    <3>3. s < t => FALSE
      BY <2>2, <2>3, <3>2
    <3>4. t < s => FALSE
      BY <2>2, <2>3, <3>2
    <3> QED
      BY <3>1, <3>3, <3>4
  <2> QED
    BY <2>1, <2>3 DEF Injection, IsInjective
<1>4. IsFiniteSet(0..(n - 1)) /\ Cardinality(0..(n - 1)) = n
  BY FS_Interval
<1> QED
  BY <1>3, <1>4, FS_Injection

-----------------------------------------------------------------------------
(* Invariants *)

BlastRows == {r \in quotaRows : r.by \in QuotaParams.Campaigns}

\* The tables are finite, also where campaigns are not.
Finite == IsFiniteSet(quotaRows) /\ IsFiniteSet(Quota!Active)

\* At most MaxParallel dispatches are under way.
Lanes == Cardinality(Quota!Active) <= QuotaParams.MaxParallel

\* What a dispatch holds are leads of its last batch, with no row of its own
\* yet.
Batched ==
  \A c \in QuotaParams.Campaigns :
    /\ since[c] <= quotaNow
    /\ quotaPc[c] \notin {"quota", "insert"} => held[c] = {}
    /\ \A s \in held[c] : cursor[c] < s + QuotaParams.BatchSize
         /\ s <= cursor[c]

\* A campaign has one row for a lead, and takes leads in their order.
InOrder ==
  \A r \in quotaRows :
    /\ r.at <= quotaNow
    /\ r.by \in QuotaParams.Campaigns =>
         /\ r.lead <= cursor[r.by]
         /\ \A s \in held[r.by] : r.lead < s
         /\ \A q \in quotaRows : q.by = r.by /\ q.lead = r.lead => q = r

\* Rows of this month, and those about to be created.
Monthly == {r \in BlastRows : r.at >= Quota!MonthStart}
HeldRows == {x \in QuotaParams.Campaigns \X Quota!Leads :
    quotaPc[x[1]] = "insert" /\ x[2] \in held[x[1]]}

QuotaKept ==
  Cardinality(Monthly) + Cardinality(HeldRows)
    <= QuotaParams.Quota
      + (QuotaParams.MaxParallel - 1) * QuotaParams.BatchSize

\* The dispatches that are about to give the lead a row.
Takers(s) == {c \in QuotaParams.Campaigns : s \in held[c]}

CapsKept ==
  \A s \in Quota!Leads :
    /\ Quota!CapRows(s, quotaNow - QuotaParams.DayTicks)
         + Cardinality(Takers(s))
         <= QuotaParams.CapDay + QuotaParams.MaxParallel - 1
    /\ Quota!CapRows(s, quotaNow - QuotaParams.WeekTicks)
         + Cardinality(Takers(s))
         <= QuotaParams.CapWeek + QuotaParams.MaxParallel - 1

\* The number of a row is that of its position among its campaign's.
LeadsOf(c) == {s \in Quota!Leads : \E r \in quotaRows : r.by = c /\ r.lead = s}
Placed ==
  \A r \in quotaRows : r.by \in QuotaParams.Campaigns =>
    r.number = Cardinality({s \in LeadsOf(r.by) : s < r.lead})
      % QuotaParams.Numbers

QuotaBase == Quota!TypeOK /\ Finite /\ Lanes /\ Batched /\ InOrder

QuotaInv == QuotaBase /\ QuotaKept /\ CapsKept /\ Placed

-----------------------------------------------------------------------------
\* The ranges of the constants and of what is counted.
LEMMA Ranges ==
  ASSUME Quota!QuotaAssumption, Quota!TypeOK
  PROVE  /\ Quota!Leads \subseteq Nat /\ quotaNow \in Nat
         /\ Quota!MonthStart \in Nat
         /\ \A r \in quotaRows : r.at \in Nat /\ r.lead \in Quota!Leads
         /\ \A c \in QuotaParams.Campaigns : cursor[c] \in Nat
              /\ since[c] \in Nat
<1>1. Quota!Leads \subseteq Nat /\ quotaNow \in Nat
  BY DEF Quota!QuotaAssumption, Quota!TypeOK, Quota!Leads
<1>2. Quota!MonthStart \in Nat
  BY <1>1, MonthMono DEF Quota!QuotaAssumption, Quota!MonthStart
<1>3. \A r \in quotaRows : r.at \in 0..QuotaParams.MaxTime
        /\ r.lead \in Quota!Leads
  BY DEF Quota!TypeOK, Quota!Row
<1>4. \A c \in QuotaParams.Campaigns : cursor[c] \in 0..QuotaParams.NumLeads
        /\ since[c] \in 0..QuotaParams.MaxTime
  BY DEF Quota!TypeOK
<1> QED
  BY <1>1, <1>2, <1>3, <1>4 DEF Quota!QuotaAssumption

LEMMA Others ==
  ASSUME Quota!QuotaAssumption, NEW d \in Quota!Direct
  PROVE  d \notin QuotaParams.Campaigns
  BY DEF Quota!QuotaAssumption, Quota!Direct

LEMMA FiniteRows ==
  ASSUME Finite, NEW T \in SUBSET quotaRows
  PROVE  IsFiniteSet(T) /\ Cardinality(T) \in Nat
           /\ Cardinality(T) <= Cardinality(quotaRows)
  BY FS_Subset, FS_CardinalityType DEF Finite

LEMMA FiniteLeads ==
  ASSUME Quota!QuotaAssumption, NEW T \in SUBSET Quota!Leads
  PROVE  IsFiniteSet(T) /\ Cardinality(T) \in Nat
<1>0. QuotaParams.NumLeads \in Int
  BY DEF Quota!QuotaAssumption
<1>1. IsFiniteSet(Quota!Leads)
  BY <1>0, FS_Interval DEF Quota!Leads
<1> QED
  BY <1>1, FS_Subset, FS_CardinalityType

LEMMA Counting ==
  ASSUME Quota!QuotaAssumption, Quota!TypeOK, Finite
  PROVE  /\ Quota!Used \in Nat /\ Quota!QuotaRemaining \in Nat
         /\ Quota!Used < QuotaParams.Quota
              => Quota!QuotaRemaining = QuotaParams.Quota - Quota!Used
         /\ Quota!Used >= QuotaParams.Quota => Quota!QuotaRemaining = 0
         /\ \A c : Quota!Targeted(c) \in Nat
         /\ \A s, f : Quota!Count(s, f) \in Nat /\ Quota!CapRows(s, f) \in Nat
<1>1. Quota!Used \in Nat
  BY FiniteRows, QuotaCardinality DEF Quota!Used
<1>2. \A c : Quota!Targeted(c) \in Nat
  BY FiniteRows, QuotaCardinality DEF Quota!Targeted
<1>3. \A s, f : Quota!Count(s, f) \in Nat /\ Quota!CapRows(s, f) \in Nat
  BY FiniteRows, QuotaCardinality DEF Quota!Count, Quota!CapRows
<1> QED
  BY <1>1, <1>2, <1>3, QuotaCardinality DEF Quota!QuotaRemaining,
     Quota!QuotaAssumption

\* Those that hold leads are under way.
LEMMA TakersActive ==
  ASSUME Quota!QuotaAssumption, QuotaBase, NEW s
  PROVE  /\ Takers(s) \subseteq Quota!Active /\ IsFiniteSet(Takers(s))
         /\ Cardinality(Takers(s)) \in Nat
         /\ Cardinality(Takers(s)) <= QuotaParams.MaxParallel
<1>1. Takers(s) \subseteq Quota!Active
  BY DEF Takers, Quota!Active, QuotaBase, Batched
<1>2. IsFiniteSet(Quota!Active) /\ Cardinality(Quota!Active) \in Nat
        /\ Cardinality(Quota!Active) <= QuotaParams.MaxParallel
  BY FS_CardinalityType DEF QuotaBase, Finite, Lanes
<1>3. IsFiniteSet(Takers(s))
        /\ Cardinality(Takers(s)) <= Cardinality(Quota!Active)
  BY <1>1, <1>2, FS_Subset
<1>4. Cardinality(Takers(s)) \in Nat
  BY <1>3, FS_CardinalityType
<1>5. QuotaParams.MaxParallel \in Nat
  BY DEF Quota!QuotaAssumption
<1> QED
  BY <1>1, <1>2, <1>3, <1>4, <1>5

\* What several dispatches hold is at most a batch for each.
LEMMA HeldByFew ==
  ASSUME Quota!QuotaAssumption, QuotaBase, NEW I \in SUBSET Quota!Active,
         NEW n \in Nat, Cardinality(I) <= n,
         NEW H \in SUBSET {x \in I \X Quota!Leads : x[2] \in held[x[1]]}
  PROVE  /\ IsFiniteSet(H) /\ Cardinality(H) \in Nat
         /\ Cardinality(H) <= n * QuotaParams.BatchSize
<1> DEFINE G == I \X (0..(QuotaParams.BatchSize - 1))
           f == [x \in H |-> <<x[1], cursor[x[1]] - x[2]>>]
<1>1. IsFiniteSet(I) /\ Cardinality(I) \in Nat
  BY FS_Subset, FS_CardinalityType DEF QuotaBase, Finite
<1>2. /\ QuotaParams.BatchSize \in Nat
      /\ IsFiniteSet(0..(QuotaParams.BatchSize - 1))
      /\ Cardinality(0..(QuotaParams.BatchSize - 1)) = QuotaParams.BatchSize
  <2>1. QuotaParams.BatchSize \in Nat \ {0}
          /\ QuotaParams.BatchSize - 1 \in Int /\ 0 \in Int
    BY DEF Quota!QuotaAssumption
  <2>2. /\ IsFiniteSet(0..(QuotaParams.BatchSize - 1))
        /\ Cardinality(0..(QuotaParams.BatchSize - 1))
             = IF 0 > QuotaParams.BatchSize - 1 THEN 0
               ELSE (QuotaParams.BatchSize - 1) - 0 + 1
    BY <2>1, FS_Interval
  <2> QED
    BY <2>1, <2>2
<1>3. IsFiniteSet(G) /\ Cardinality(G) = Cardinality(I) * QuotaParams.BatchSize
  BY <1>1, <1>2, FS_Product
<1>4. \A x \in H : /\ x[1] \in I /\ x[2] \in Nat /\ cursor[x[1]] \in Nat
                   /\ x = <<x[1], x[2]>>
                   /\ cursor[x[1]] - x[2] \in 0..(QuotaParams.BatchSize - 1)
  <2> TAKE x \in H
  <2>1. x[1] \in I /\ x[2] \in Quota!Leads /\ x = <<x[1], x[2]>>
          /\ x[2] \in held[x[1]]
    OBVIOUS
  <2>2. x[1] \in QuotaParams.Campaigns
    BY <2>1 DEF Quota!Active
  <2>3. cursor[x[1]] \in Nat /\ x[2] \in Nat
    BY <2>1, <2>2, Ranges DEF QuotaBase
  <2>4. cursor[x[1]] < x[2] + QuotaParams.BatchSize /\ x[2] <= cursor[x[1]]
    BY <2>1, <2>2 DEF QuotaBase, Batched
  <2> QED
    BY <1>2, <2>1, <2>3, <2>4
<1>5. f \in Injection(H, G)
  <2>1. f \in [H -> G]
    BY <1>4
  <2>2. ASSUME NEW x \in H, NEW y \in H, f[x] = f[y] PROVE x = y
    <3>1. x[1] = y[1] /\ cursor[x[1]] - x[2] = cursor[y[1]] - y[2]
      BY <2>2
    <3>2. x[2] = y[2]
      BY <1>4, <3>1
    <3> QED
      BY <1>4, <3>1, <3>2
  <2> QED
    BY <2>1, <2>2 DEF Injection, IsInjective
<1>6. IsFiniteSet(H)
        /\ Cardinality(H) <= Cardinality(I) * QuotaParams.BatchSize
  BY <1>3, <1>5, FS_Injection
<1>7. Cardinality(H) \in Nat
  BY <1>6, FS_CardinalityType
<1>8. Cardinality(I) * QuotaParams.BatchSize <= n * QuotaParams.BatchSize
  BY <1>1, <1>2, MulMono
<1>9. Cardinality(I) * QuotaParams.BatchSize \in Nat
        /\ n * QuotaParams.BatchSize \in Nat
  BY <1>1, <1>2
<1> QED
  BY <1>6, <1>7, <1>8, <1>9

-----------------------------------------------------------------------------
\* The shape of the tables.
LEMMA QuotaInvInit == ASSUME Quota!QuotaAssumption PROVE Quota!Init => QuotaInv
<1> SUFFICES ASSUME Quota!Init PROVE QuotaInv
  OBVIOUS
<1>1. Quota!Active = {} /\ quotaRows = {} /\ HeldRows = {} /\ Monthly = {}
  BY DEF Quota!Init, Quota!Active, HeldRows, Monthly, BlastRows
<1>2. IsFiniteSet({}) /\ Cardinality({}) = 0
  BY FS_EmptySet
<1>3. Quota!TypeOK
  BY DEF Quota!Init, Quota!TypeOK, Quota!QuotaAssumption, Quota!Leads
<1>4. Finite /\ Lanes /\ Batched /\ InOrder
  BY <1>1, <1>2 DEF Quota!Init, Finite, Lanes, Batched, InOrder,
     Quota!QuotaAssumption
<1>5. QuotaKept
  <2>1. (QuotaParams.MaxParallel - 1) * QuotaParams.BatchSize \in Nat
    BY DEF Quota!QuotaAssumption
  <2> QED
    BY <1>1, <1>2, <2>1 DEF QuotaKept, Quota!QuotaAssumption
<1>6. CapsKept
  <2>1. \A s \in Quota!Leads : \A f : Quota!CapRows(s, f) = 0
          /\ Cardinality(Takers(s)) = 0
    <3> TAKE s \in Quota!Leads
    <3> TAKE f
    <3>1. {r \in quotaRows : /\ r.lead = s /\ r.counts
            /\ r.by \in QuotaParams.Campaigns /\ r.at >= f} = {}
      BY <1>1
    <3>2. Takers(s) = {}
      BY DEF Quota!Init, Takers
    <3> QED
      BY <1>2, <3>1, <3>2, QuotaCardinality DEF Quota!CapRows
  <2> QED
    BY <2>1 DEF CapsKept, Quota!QuotaAssumption
<1>7. Placed
  BY <1>1 DEF Placed
<1> QED
  BY <1>3, <1>4, <1>5, <1>6, <1>7 DEF QuotaInv, QuotaBase

LEMMA QuotaBaseStep ==
  ASSUME Quota!QuotaAssumption, QuotaBase, [Quota!Next]_(Quota!vars)
  PROVE  QuotaBase'
<1> USE DEF QuotaBase
<1>0. /\ Quota!Leads \subseteq Nat /\ quotaNow \in Nat
      /\ \A r \in quotaRows : r.at \in Nat /\ r.lead \in Quota!Leads
      /\ \A c \in QuotaParams.Campaigns : cursor[c] \in Nat /\ since[c] \in Nat
  BY Ranges
<1>1. ASSUME NEW c \in QuotaParams.Campaigns, Quota!Start(c) PROVE QuotaBase'
  <2>1. Quota!TypeOK'
    BY <1>1, QuotaCardinality DEF Quota!Start, Quota!TypeOK
  <2>2. Quota!Active' \subseteq Quota!Active \cup {c}
    BY <1>1, QuotaCardinality DEF Quota!Start, Quota!Active, Quota!TypeOK
  <2>3. IsFiniteSet(Quota!Active \cup {c})
          /\ Cardinality(Quota!Active \cup {c})
          <= Cardinality(Quota!Active) + 1
    <3>1. IsFiniteSet(Quota!Active) /\ Cardinality(Quota!Active) \in Nat
      BY FS_CardinalityType DEF Finite
    <3>2. /\ IsFiniteSet(Quota!Active \cup {c})
          /\ Cardinality(Quota!Active \cup {c}) =
               IF c \in Quota!Active THEN Cardinality(Quota!Active)
                 ELSE Cardinality(Quota!Active) + 1
      BY <3>1, FS_AddElement
    <3> QED
      BY <3>1, <3>2
  <2>4. Cardinality(Quota!Active) < QuotaParams.MaxParallel
          /\ Cardinality(Quota!Active) \in Nat
    BY <1>1, FS_CardinalityType, QuotaCardinality DEF Quota!Start, Finite
  <2>5. IsFiniteSet(Quota!Active')
          /\ Cardinality(Quota!Active') <= Cardinality(Quota!Active \cup {c})
    BY <2>2, <2>3, FS_Subset
  <2>6. Cardinality(Quota!Active') \in Nat
          /\ Cardinality(Quota!Active \cup {c}) \in Nat
    BY <2>3, <2>5, FS_CardinalityType
  <2>7. Finite' /\ Lanes'
    BY <1>1, <2>3, <2>4, <2>5, <2>6, QuotaCardinality DEF Quota!Start, Finite,
       Lanes, Quota!QuotaAssumption
  <2>8. Batched' /\ InOrder'
    BY <1>0, <1>1, QuotaCardinality DEF Quota!Start, Batched, InOrder,
       Quota!TypeOK
  <2> QED
    BY <2>1, <2>7, <2>8
\* Nobody else comes under way.
<1>2. ASSUME IsFiniteSet(quotaRows'), Quota!Active' \subseteq Quota!Active
      PROVE  Finite' /\ Lanes'
  <2>1. IsFiniteSet(Quota!Active')
          /\ Cardinality(Quota!Active') <= Cardinality(Quota!Active)
    BY <1>2, FS_Subset DEF Finite
  <2>2. Cardinality(Quota!Active') \in Nat /\ Cardinality(Quota!Active) \in Nat
    BY <2>1, FS_CardinalityType DEF Finite
  <2> QED
    BY <1>2, <2>1, <2>2 DEF Finite, Lanes, Quota!QuotaAssumption
<1>3. ASSUME NEW c \in QuotaParams.Campaigns, Quota!ReadBatch(c)
               PROVE QuotaBase'
  <2> DEFINE b == Quota!Least(cursor[c] + QuotaParams.BatchSize,
                 QuotaParams.NumLeads)
             el == {s \in Quota!Leads : /\ cursor[c] < s /\ s <= b
                 /\ Quota!UnderCaps(c, s)}
  <2>1. /\ b \in Nat /\ cursor[c] < b /\ b <= QuotaParams.NumLeads
        /\ b <= cursor[c] + QuotaParams.BatchSize
        /\ cursor' = [cursor EXCEPT ![c] = b]
        /\ held' = [held EXCEPT ![c] = el]
        /\ quotaPc' = [quotaPc EXCEPT ![c] = IF el = {} THEN "read"
             ELSE "quota"]
        /\ quotaPc[c] = "read"
        /\ UNCHANGED <<quotaRows, quotaNow, since, quotaHit, failures>>
    <3>1. cursor[c] \in Nat /\ cursor[c] < QuotaParams.NumLeads
      BY <1>0, <1>3 DEF Quota!ReadBatch
    <3> QED
      BY <1>3, <3>1 DEF Quota!ReadBatch, Quota!Least, Quota!QuotaAssumption
  <2>2. el \subseteq Quota!Leads /\ \A s \in el : cursor[c] < s /\ s <= b
    OBVIOUS
  <2> HIDE DEF b, el
  <2>3. Quota!TypeOK'
    BY <2>1, <2>2 DEF Quota!TypeOK
  <2>4. Quota!Active' \subseteq Quota!Active
    BY <2>1 DEF Quota!Active, Quota!TypeOK
  <2>5. Finite' /\ Lanes'
    BY <1>2, <2>1, <2>4 DEF Finite
  <2>6. Batched'
    <3> SUFFICES ASSUME NEW d \in QuotaParams.Campaigns
                 PROVE  /\ since'[d] <= quotaNow'
                        /\ quotaPc'[d] \notin {"quota", "insert"}
                             => held'[d] = {}
                        /\ \A s \in held'[d] :
                             cursor'[d] < s + QuotaParams.BatchSize
                             /\ s <= cursor'[d]
      BY DEF Batched
    <3>1. CASE d = c
      <4>1. held'[c] = el /\ cursor'[c] = b
              /\ (quotaPc'[c] = IF el = {} THEN "read" ELSE "quota")
        BY <2>1 DEF Quota!TypeOK
      <4>2. \A s \in el : b < s + QuotaParams.BatchSize /\ s <= b
        <5> TAKE s \in el
        <5>1. s \in Nat /\ cursor[c] < s /\ s <= b
                /\ b <= cursor[c] + QuotaParams.BatchSize
              /\ cursor[c] \in Nat
          BY <1>0, <2>1, <2>2
        <5> QED
          BY <5>1, <2>1 DEF Quota!QuotaAssumption
      <4> QED
        BY <2>1, <3>1, <4>1, <4>2 DEF Batched
    <3>2. CASE d # c
      BY <2>1, <3>2 DEF Batched, Quota!TypeOK
    <3> QED
      BY <3>1, <3>2
  <2>7. InOrder'
    <3> SUFFICES ASSUME NEW r \in quotaRows, r.by \in QuotaParams.Campaigns
                 PROVE  r.lead <= cursor'[r.by] /\ \A s \in held'[r.by] :
                          r.lead < s
      BY <2>1 DEF InOrder
    <3>1. CASE r.by = c
      <4>1. r.lead <= cursor[c] /\ r.lead \in Nat
        BY <1>0, <3>1 DEF InOrder
      <4>2. cursor[c] \in Nat /\ cursor'[c] = b /\ held'[c] = el
        BY <1>0, <2>1 DEF Quota!TypeOK
      <4>3. \A s \in el : s \in Nat
        BY <1>0, <2>2
      <4> QED
        BY <2>1, <2>2, <3>1, <4>1, <4>2, <4>3
    <3>2. CASE r.by # c
      BY <2>1, <3>2 DEF InOrder, Quota!TypeOK
    <3> QED
      BY <3>1, <3>2
  <2> QED
    BY <2>3, <2>5, <2>6, <2>7
<1>4. ASSUME NEW c \in QuotaParams.Campaigns, Quota!CheckQuota(c)
               PROVE QuotaBase'
  <2>1. /\ quotaPc[c] = "quota"
        /\ UNCHANGED <<quotaRows, quotaNow, since, cursor, failures>>
        /\ \E H \in SUBSET held[c], q \in BOOLEAN, l \in {"ended", "insert"} :
             /\ held' = [held EXCEPT ![c] = H]
             /\ quotaHit' = [quotaHit EXCEPT ![c] = q]
             /\ quotaPc' = [quotaPc EXCEPT ![c] = l]
             /\ l = "ended" => H = {}
    <3>1. CASE Quota!QuotaRemaining = 0
      BY <1>4, <3>1, QuotaCardinality DEF Quota!CheckQuota
    <3>2. CASE Quota!QuotaRemaining # 0
      <4>1. Quota!FirstOf(held[c], Quota!QuotaRemaining) \in SUBSET held[c]
        BY QuotaCardinality DEF Quota!FirstOf
      <4>2. (Cardinality(held[c]) > Quota!QuotaRemaining) \in BOOLEAN
        OBVIOUS
      <4>3. /\ held' = [held EXCEPT ![c]
                 = Quota!FirstOf(held[c], Quota!QuotaRemaining)]
            /\ quotaHit'
                 = [quotaHit EXCEPT ![c]
                 = Cardinality(held[c]) > Quota!QuotaRemaining]
            /\ quotaPc' = [quotaPc EXCEPT ![c] = "insert"]
        BY <1>4, <3>2, QuotaCardinality DEF Quota!CheckQuota
      <4> QED
        BY <1>4, <4>1, <4>2, <4>3, QuotaCardinality DEF Quota!CheckQuota
    <3> QED
      BY <3>1, <3>2
  <2>2. PICK H \in SUBSET held[c], q \in BOOLEAN, l \in {"ended", "insert"} :
             /\ held' = [held EXCEPT ![c] = H]
             /\ quotaHit' = [quotaHit EXCEPT ![c] = q]
             /\ quotaPc' = [quotaPc EXCEPT ![c] = l]
             /\ l = "ended" => H = {}
    BY <2>1
  <2>3. Quota!TypeOK'
    BY <2>1, <2>2 DEF Quota!TypeOK
  <2>4. Quota!Active' \subseteq Quota!Active
    BY <2>1, <2>2 DEF Quota!Active, Quota!TypeOK
  <2>5. Finite' /\ Lanes'
    BY <1>2, <2>1, <2>4 DEF Finite
  <2>6. Batched'
    BY <2>1, <2>2 DEF Batched, Quota!TypeOK
  <2>7. InOrder'
    BY <2>1, <2>2 DEF InOrder, Quota!TypeOK
  <2> QED
    BY <2>3, <2>5, <2>6, <2>7
<1>5. ASSUME NEW c \in QuotaParams.Campaigns, Quota!Insert(c) PROVE QuotaBase'
  <2> DEFINE new(s) == [by |-> c, lead |-> s, at |-> quotaNow, counts |-> TRUE,
                        number |-> Quota!PoolIndex(c, s)]
             N == {new(s) : s \in held[c]}
  <2>1. /\ quotaRows' = quotaRows \cup N
        /\ held' = [held EXCEPT ![c] = {}]
        /\ quotaPc' = [quotaPc EXCEPT ![c] = IF quotaHit[c] THEN "ended"
             ELSE "read"]
        /\ UNCHANGED <<quotaNow, since, cursor, quotaHit, failures>>
        /\ quotaPc[c] = "insert"
    BY <1>5 DEF Quota!Insert
  <2>2. held[c] \in SUBSET Quota!Leads
    BY DEF Quota!TypeOK
  <2>3. \A s \in held[c] :
          Quota!PoolIndex(c, s) \in 0..(QuotaParams.Numbers - 1)
    <3> TAKE s \in held[c]
    <3>1. Cardinality({r \in held[c] : r < s}) \in Nat
      <4>1. {r \in held[c] : r < s} \in SUBSET Quota!Leads
        BY <2>2
      <4> QED
        BY <4>1, FiniteLeads
    <3>2. Quota!Targeted(c) \in Nat
      BY Counting
    <3>3. Quota!Targeted(c) + Cardinality({r \in held[c] : r < s}) \in Nat
      BY <3>1, <3>2
    <3> QED
      BY <3>3, Divided, QuotaCardinality DEF Quota!PoolIndex,
         Quota!QuotaAssumption
  <2>4. N \subseteq Quota!Row
    <3> SUFFICES ASSUME NEW s \in held[c] PROVE new(s) \in Quota!Row
      OBVIOUS
    <3>1. s \in Quota!Leads
            /\ Quota!PoolIndex(c, s) \in 0..(QuotaParams.Numbers - 1)
            /\ quotaNow \in 0..QuotaParams.MaxTime
      BY <2>2, <2>3 DEF Quota!TypeOK
    <3> QED
      BY <3>1 DEF Quota!Row
  <2>5. \A r \in N : r.by = c /\ r.lead \in held[c] /\ r.at = quotaNow
                     /\ \A q \in N : q.lead = r.lead => q = r
    <3>1. \A s \in held[c] : new(s).by = c /\ new(s).lead = s
            /\ new(s).at = quotaNow
      OBVIOUS
    <3> HIDE DEF new
    <3> QED
      BY <3>1
  <2>6. IsFiniteSet(N)
    <3>1. IsFiniteSet(held[c])
      BY <2>2, FiniteLeads
    <3>2. [s \in held[c] |-> new(s)] \in Surjection(held[c], N)
      BY DEF Surjection
    <3> HIDE DEF N
    <3> QED
      BY <3>1, <3>2, FS_Surjection
  <2> HIDE DEF N
  <2>7. IsFiniteSet(quotaRows')
    BY <2>1, <2>6, FS_Union DEF Finite
  <2>8. Quota!TypeOK'
    <3>1. quotaRows' \subseteq Quota!Row
      BY <2>1, <2>4 DEF Quota!TypeOK
    <3> QED
      BY <2>1, <3>1 DEF Quota!TypeOK
  <2>9. Quota!Active' \subseteq Quota!Active
    BY <2>1 DEF Quota!Active, Quota!TypeOK
  <2>10. Finite' /\ Lanes'
    BY <1>2, <2>7, <2>9
  <2>11. Batched'
    BY <2>1 DEF Batched, Quota!TypeOK
  <2>12. InOrder'
    <3> SUFFICES ASSUME NEW r \in quotaRows'
                 PROVE  /\ r.at <= quotaNow
                        /\ r.by \in QuotaParams.Campaigns =>
                           /\ r.lead <= cursor[r.by]
                           /\ \A s \in held'[r.by] : r.lead < s
                           /\ \A q \in quotaRows' : q.by = r.by
                                /\ q.lead = r.lead => q = r
      BY <2>1 DEF InOrder
    <3>1. \A q \in quotaRows : q.by = c => q.lead \notin held[c]
      <4> SUFFICES ASSUME NEW q \in quotaRows, q.by = c, q.lead \in held[c]
                            PROVE FALSE
        OBVIOUS
      <4>1. q.lead < q.lead /\ q.lead \in Nat
        BY <1>0 DEF InOrder
      <4> QED
        BY <4>1
    <3>2. CASE r \in N
      <4>1. r.by = c /\ r.lead \in held[c] /\ r.at = quotaNow
        BY <2>5, <3>2
      <4>2. r.lead <= cursor[c] /\ held'[c] = {}
        BY <2>1, <4>1 DEF Batched, Quota!TypeOK
      <4>3. \A q \in quotaRows' : q.by = r.by /\ q.lead = r.lead => q = r
        BY <2>1, <2>5, <3>1, <3>2, <4>1
      <4> QED
        BY <1>0, <4>1, <4>2, <4>3
    <3>3. CASE r \in quotaRows
      <4>1. \A q \in quotaRows' : r.by \in QuotaParams.Campaigns
              /\ q.by = r.by /\ q.lead = r.lead => q = r
        BY <2>1, <2>5, <3>1, <3>3 DEF InOrder
      <4>2. \A d \in QuotaParams.Campaigns : held'[d] \subseteq held[d]
        BY <2>1 DEF Quota!TypeOK
      <4> QED
        BY <3>3, <4>1, <4>2 DEF InOrder
    <3> QED
      BY <2>1, <3>2, <3>3
  <2> QED
    BY <2>8, <2>10, <2>11, <2>12
<1>6. ASSUME NEW c \in QuotaParams.Campaigns, Quota!EndOfAudience(c)
               PROVE QuotaBase'
  <2>1. Quota!TypeOK'
    BY <1>6 DEF Quota!EndOfAudience, Quota!TypeOK
  <2>2. Quota!Active' \subseteq Quota!Active
    BY <1>6 DEF Quota!EndOfAudience, Quota!Active, Quota!TypeOK
  <2>3. Finite' /\ Lanes'
    BY <1>2, <1>6, <2>2 DEF Finite, Quota!EndOfAudience
  <2>4. Batched' /\ InOrder'
    BY <1>6 DEF Quota!EndOfAudience, Batched, InOrder, Quota!TypeOK
  <2> QED
    BY <2>1, <2>3, <2>4
<1>7. ASSUME NEW d \in Quota!Direct, NEW s \in Quota!Leads,
               Quota!DirectSend(d, s) PROVE QuotaBase'
  <2> DEFINE n == [by |-> d, lead |-> s, at |-> quotaNow, counts |-> TRUE,
                 number |-> 0]
  <2>1. quotaRows' = quotaRows \cup {n}
          /\ UNCHANGED <<quotaNow, quotaPc, since, cursor, held, quotaHit,
          failures>>
    BY <1>7 DEF Quota!DirectSend
  <2>2. n \in Quota!Row
    BY DEF Quota!Row, Quota!TypeOK, Quota!QuotaAssumption
  <2>3. n.by = d /\ n.at = quotaNow /\ d \notin QuotaParams.Campaigns
    BY Others
  <2> HIDE DEF n
  <2>4. Quota!TypeOK'
    BY <2>1, <2>2 DEF Quota!TypeOK
  <2>5. IsFiniteSet(quotaRows')
    BY <2>1, FS_AddElement DEF Finite
  <2>6. Finite' /\ Lanes'
    BY <1>2, <2>1, <2>5 DEF Quota!Active
  <2>7. Batched'
    BY <2>1 DEF Batched
  <2>8. InOrder'
    BY <1>0, <2>1, <2>3 DEF InOrder
  <2> QED
    BY <2>4, <2>6, <2>7, <2>8
<1>8. ASSUME NEW r \in quotaRows, Quota!PushFails(r) PROVE QuotaBase'
  <2> DEFINE n == [r EXCEPT !.counts = FALSE]
  <2>1. /\ quotaRows' = (quotaRows \ {r}) \cup {n} /\ failures' = failures + 1
        /\ failures < QuotaParams.MaxFailures
        /\ UNCHANGED <<quotaNow, quotaPc, since, cursor, held, quotaHit>>
    BY <1>8 DEF Quota!PushFails
  <2>2. n \in Quota!Row /\ n.by = r.by /\ n.lead = r.lead /\ n.at = r.at
    <3>1. r \in Quota!Row
      BY DEF Quota!TypeOK
    <3> QED
      BY <3>1 DEF Quota!Row
  <2> HIDE DEF n
  <2>3. Quota!TypeOK'
    BY <2>1, <2>2 DEF Quota!TypeOK, Quota!QuotaAssumption
  <2>4. IsFiniteSet(quotaRows')
    <3>1. IsFiniteSet(quotaRows \ {r})
      BY FS_RemoveElement DEF Finite
    <3> QED
      BY <2>1, <3>1, FS_AddElement
  <2>5. Finite' /\ Lanes'
    BY <1>2, <2>1, <2>4 DEF Quota!Active
  <2>6. Batched'
    BY <2>1 DEF Batched
  <2>7. InOrder'
    BY <2>1, <2>2 DEF InOrder
  <2> QED
    BY <2>3, <2>5, <2>6, <2>7
<1>9. CASE Quota!Tick
  <2>1. quotaNow' = quotaNow + 1 /\ quotaNow' \in 0..QuotaParams.MaxTime
        /\ UNCHANGED <<quotaRows, quotaPc, since, cursor, held, quotaHit,
             failures>>
    BY <1>0, <1>9 DEF Quota!Tick, Quota!QuotaAssumption
  <2>2. Quota!TypeOK'
    BY <2>1 DEF Quota!TypeOK
  <2>3. Finite' /\ Lanes'
    BY <1>2, <2>1 DEF Quota!Active, Finite
  <2>4. Batched' /\ InOrder'
    BY <1>0, <2>1 DEF Batched, InOrder
  <2> QED
    BY <2>2, <2>3, <2>4
<1>10. CASE UNCHANGED Quota!vars
  BY <1>10 DEF Quota!vars, Quota!TypeOK, Finite, Lanes, Quota!Active, Batched,
     InOrder
<1> QED
  BY <1>1, <1>3, <1>4, <1>5, <1>6, <1>7, <1>8, <1>9, <1>10 DEF Quota!Next

-----------------------------------------------------------------------------
\* The quota.

LEMMA Sizes ==
  ASSUME Quota!QuotaAssumption, QuotaBase
  PROVE  /\ IsFiniteSet(Monthly) /\ Cardinality(Monthly) \in Nat
         /\ IsFiniteSet(HeldRows) /\ Cardinality(HeldRows) \in Nat
         /\ Cardinality(Monthly) <= Quota!Used
         /\ (QuotaParams.MaxParallel - 1) * QuotaParams.BatchSize \in Nat
<1>1. IsFiniteSet(Monthly) /\ Cardinality(Monthly) \in Nat
  BY FiniteRows DEF QuotaBase, Monthly, BlastRows
<1>2. IsFiniteSet(HeldRows) /\ Cardinality(HeldRows) \in Nat
  <2>1. HeldRows \in SUBSET {x \in Quota!Active \X Quota!Leads :
          x[2] \in held[x[1]]}
    BY DEF HeldRows, Quota!Active
  <2>2. Cardinality(Quota!Active) \in Nat
    BY FS_CardinalityType DEF QuotaBase, Finite
  <2> QED
    BY <2>1, <2>2, HeldByFew
<1>3. Cardinality(Monthly) <= Quota!Used
  <2> DEFINE U == {r \in quotaRows : r.at >= Quota!MonthStart}
  <2>1. IsFiniteSet(U)
    BY FiniteRows DEF QuotaBase
  <2>2. Monthly \in SUBSET U
    BY DEF Monthly, BlastRows
  <2>3. Cardinality(Monthly) <= Cardinality(U)
    BY <2>1, <2>2, FS_Subset
  <2> QED
    BY <2>3, QuotaCardinality DEF Quota!Used
<1>4. (QuotaParams.MaxParallel - 1) * QuotaParams.BatchSize \in Nat
  BY DEF Quota!QuotaAssumption
<1> QED
  BY <1>1, <1>2, <1>3, <1>4

\* Without new rows and new holders nothing can be exceeded.
LEMMA QuotaShrinks ==
  ASSUME Quota!QuotaAssumption, QuotaBase, QuotaKept, QuotaBase',
         Cardinality(Monthly') <= Cardinality(Monthly),
         HeldRows' \subseteq HeldRows
  PROVE  QuotaKept'
<1>1. /\ Cardinality(Monthly) \in Nat /\ Cardinality(HeldRows) \in Nat
      /\ IsFiniteSet(HeldRows)
      /\ (QuotaParams.MaxParallel - 1) * QuotaParams.BatchSize \in Nat
  BY Sizes
<1>2. Cardinality(HeldRows') <= Cardinality(HeldRows)
  BY <1>1, FS_Subset
<1>3. Cardinality(HeldRows') \in Nat
  BY <1>1, FS_Subset, FS_CardinalityType
<1>4. Cardinality(Monthly') \in Nat
  BY FS_CardinalityType, FS_Subset DEF QuotaBase, Finite, Quota!TypeOK,
     Monthly, BlastRows
<1> QED
  BY <1>1, <1>2, <1>3, <1>4 DEF QuotaKept, Quota!QuotaAssumption

LEMMA CheckKeepsQuota ==
  ASSUME Quota!QuotaAssumption, QuotaBase, QuotaBase', QuotaKept,
           NEW c \in QuotaParams.Campaigns, Quota!CheckQuota(c)
  PROVE  QuotaKept'
<1>0. /\ Cardinality(Monthly) \in Nat /\ Cardinality(Monthly) <= Quota!Used
      /\ Monthly' = Monthly
      /\ (QuotaParams.MaxParallel - 1) * QuotaParams.BatchSize \in Nat
      /\ QuotaParams.MaxParallel - 1 \in Nat
      /\ QuotaParams.MaxParallel \in Nat /\ QuotaParams.Quota \in Nat
  <2>1. Monthly' = Monthly
    BY QuotaCardinality DEF Quota!CheckQuota, Monthly, BlastRows,
       Quota!MonthStart
  <2> QED
    BY <2>1, Sizes DEF Quota!QuotaAssumption
<1>1. CASE Quota!QuotaRemaining = 0
  <2>1. HeldRows' \subseteq HeldRows
    BY <1>1, QuotaCardinality DEF Quota!CheckQuota, HeldRows, QuotaBase,
       Quota!TypeOK
  <2> QED
    BY <1>0, <2>1, QuotaShrinks
<1>2. CASE Quota!QuotaRemaining # 0
  <2> DEFINE F == Quota!FirstOf(held[c], Quota!QuotaRemaining)
             H == {c} \X F
             P == {x \in HeldRows : x[1] # c}
             A == Quota!Active \ {c}
  <2>1. /\ quotaPc[c] = "quota" /\ quotaPc' = [quotaPc EXCEPT ![c] = "insert"]
        /\ held' = [held EXCEPT ![c] = F]
    BY <1>2, QuotaCardinality DEF Quota!CheckQuota
  <2>2. HeldRows' = P \cup H
    <3>1. F \subseteq Quota!Leads
      BY QuotaCardinality DEF Quota!FirstOf, QuotaBase, Quota!TypeOK
    <3>2. /\ quotaPc'[c] = "insert" /\ held'[c] = F
          /\ \A d \in QuotaParams.Campaigns \ {c} : quotaPc'[d] = quotaPc[d]
               /\ held'[d] = held[d]
      BY <2>1 DEF QuotaBase, Quota!TypeOK
    <3> HIDE DEF F
    <3> QED
      BY <3>1, <3>2 DEF HeldRows
  <2>3. /\ Quota!QuotaRemaining \in Nat
        /\ Quota!QuotaRemaining = QuotaParams.Quota - Quota!Used
        /\ Quota!Used \in Nat
    BY <1>2, Counting DEF QuotaBase, Quota!QuotaAssumption
  <2>4. held[c] \in SUBSET Nat /\ held[c] \in SUBSET Quota!Leads
    BY Ranges DEF QuotaBase, Quota!TypeOK
  <2>5. IsFiniteSet(F) /\ Cardinality(F) <= Quota!QuotaRemaining
          /\ Cardinality(F) \in Nat
    <3>1. IsFiniteSet(held[c])
      BY <2>4, FiniteLeads
    <3>2. F \in SUBSET held[c]
      BY QuotaCardinality DEF Quota!FirstOf
    <3> QED
      BY <2>3, <2>4, <3>1, <3>2, FirstAreFew, FS_Subset, FS_CardinalityType
  <2> HIDE DEF F
  <2>6. IsFiniteSet(H) /\ Cardinality(H) = Cardinality(F)
    <3>1. IsFiniteSet({c}) /\ Cardinality({c}) = 1
      BY FS_Singleton
    <3>2. IsFiniteSet(H) /\ Cardinality(H) = 1 * Cardinality(F)
      BY <2>5, <3>1, FS_Product
    <3> QED
      BY <2>5, <3>2
  <2>7. IsFiniteSet(P) /\ Cardinality(P) \in Nat
        /\ Cardinality(P)
             <= (QuotaParams.MaxParallel - 1) * QuotaParams.BatchSize
    <3>1. c \in Quota!Active
      BY <2>1 DEF Quota!Active
    <3>2. Cardinality(A) <= QuotaParams.MaxParallel - 1
      <4>1. IsFiniteSet(Quota!Active) /\ Cardinality(Quota!Active) \in Nat
              /\ Cardinality(Quota!Active) <= QuotaParams.MaxParallel
        BY FS_CardinalityType DEF QuotaBase, Finite, Lanes
      <4>2. Cardinality(A) = Cardinality(Quota!Active) - 1
        BY <3>1, <4>1, FS_RemoveElement
      <4> QED
        BY <1>0, <4>1, <4>2
    <3>3. A \in SUBSET Quota!Active
      OBVIOUS
    <3>4. P \in SUBSET {x \in A \X Quota!Leads : x[2] \in held[x[1]]}
      BY DEF HeldRows, Quota!Active
    <3> HIDE DEF A, P
    <3> QED
      BY <1>0, <3>2, <3>3, <3>4, HeldByFew
  <2> HIDE DEF H, P
  <2>8. /\ IsFiniteSet(P \cup H)
        /\ Cardinality(P \cup H) <= Cardinality(P) + Cardinality(H)
        /\ Cardinality(P \cup H) \in Nat
    <3>1. Cardinality(P \cap H) \in Nat
      BY <2>7, FS_Intersection, FS_CardinalityType
    <3>2. /\ IsFiniteSet(P \cup H)
          /\ Cardinality(P \cup H)
               = Cardinality(P) + Cardinality(H) - Cardinality(P \cap H)
      BY <2>6, <2>7, FS_Union
    <3>3. Cardinality(P \cup H) \in Nat
      BY <3>2, FS_CardinalityType
    <3> QED
      BY <2>5, <2>6, <2>7, <3>1, <3>2, <3>3
  <2>9. Cardinality(Monthly') + Cardinality(HeldRows')
          <= QuotaParams.Quota
          + (QuotaParams.MaxParallel - 1) * QuotaParams.BatchSize
    BY <1>0, <2>2, <2>3, <2>5, <2>6, <2>7, <2>8
  <2> QED
    BY <2>9, <1>0 DEF QuotaKept
<1> QED
  BY <1>1, <1>2

LEMMA InsertKeepsQuota ==
  ASSUME Quota!QuotaAssumption, QuotaBase, QuotaBase', QuotaKept,
           NEW c \in QuotaParams.Campaigns, Quota!Insert(c)
  PROVE  QuotaKept'
<1> DEFINE new(s) == [by |-> c, lead |-> s, at |-> quotaNow, counts |-> TRUE,
                      number |-> Quota!PoolIndex(c, s)]
           N == {new(s) : s \in held[c]}
           H == {c} \X held[c]
<1>1. /\ quotaRows' = quotaRows \cup N /\ quotaNow' = quotaNow
      /\ held' = [held EXCEPT ![c] = {}]
      /\ quotaPc' = [quotaPc EXCEPT ![c] = IF quotaHit[c] THEN "ended"
           ELSE "read"]
      /\ quotaPc[c] = "insert"
  BY DEF Quota!Insert
<1>2. H \subseteq HeldRows
  BY <1>1 DEF HeldRows, QuotaBase, Quota!TypeOK
<1>3. HeldRows' = HeldRows \ H
  <2>1. /\ quotaPc'[c] # "insert" /\ held'[c] = {}
        /\ \A d \in QuotaParams.Campaigns \ {c} : quotaPc'[d] = quotaPc[d]
             /\ held'[d] = held[d]
    BY <1>1 DEF QuotaBase, Quota!TypeOK
  <2> QED
    BY <1>1, <2>1 DEF HeldRows
<1>4. [x \in H |-> new(x[2])] \in Surjection(H, N)
  <2>1. \A s \in held[c] : <<c, s>> \in H /\ <<c, s>>[2] = s
    OBVIOUS
  <2>2. \A x \in H : x[2] \in held[c]
    OBVIOUS
  <2> HIDE DEF H, new
  <2> QED
    BY <2>1, <2>2 DEF Surjection
<1>5. Monthly' \subseteq Monthly \cup N
  <2>1. Quota!MonthStart' = Quota!MonthStart
    BY <1>1 DEF Quota!MonthStart
  <2> HIDE DEF N
  <2> QED
    BY <1>1, <2>1 DEF Monthly, BlastRows
<1> HIDE DEF N, H
<1>6. /\ Cardinality(Monthly) \in Nat /\ Cardinality(HeldRows) \in Nat
      /\ IsFiniteSet(Monthly) /\ IsFiniteSet(HeldRows)
      /\ (QuotaParams.MaxParallel - 1) * QuotaParams.BatchSize \in Nat
  BY Sizes
<1>7. IsFiniteSet(H) /\ Cardinality(H) \in Nat
  BY <1>2, <1>6, FS_Subset, FS_CardinalityType
<1>8. IsFiniteSet(N) /\ Cardinality(N) <= Cardinality(H)
        /\ Cardinality(N) \in Nat
  BY <1>4, <1>7, FS_Surjection, FS_CardinalityType
<1>9. Cardinality(HeldRows') = Cardinality(HeldRows) - Cardinality(H)
  <2>1. HeldRows \cap H = H
    BY <1>2
  <2>2. Cardinality(HeldRows \ H)
          = Cardinality(HeldRows) - Cardinality(HeldRows \cap H)
    BY <1>6, FS_Difference
  <2> QED
    BY <1>3, <2>1, <2>2
<1>10. Cardinality(Monthly') <= Cardinality(Monthly) + Cardinality(N)
       /\ Cardinality(Monthly') \in Nat
  <2>1. Cardinality(Monthly \cap N) \in Nat
    BY <1>6, FS_Intersection, FS_CardinalityType
  <2>2. /\ IsFiniteSet(Monthly \cup N)
        /\ Cardinality(Monthly \cup N)
             = Cardinality(Monthly) + Cardinality(N)
             - Cardinality(Monthly \cap N)
    BY <1>6, <1>8, FS_Union
  <2>3. Cardinality(Monthly') <= Cardinality(Monthly \cup N)
          /\ IsFiniteSet(Monthly')
    BY <1>5, <2>2, FS_Subset
  <2>4. Cardinality(Monthly') \in Nat
    BY <2>3, FS_CardinalityType
  <2> QED
    BY <1>6, <1>8, <2>1, <2>2, <2>3, <2>4
<1> QED
  BY <1>6, <1>7, <1>8, <1>9, <1>10 DEF QuotaKept, Quota!QuotaAssumption

LEMMA QuotaStep ==
  ASSUME Quota!QuotaAssumption, QuotaBase, QuotaKept, [Quota!Next]_(Quota!vars)
  PROVE  QuotaKept'
<1>0. QuotaBase'
  BY QuotaBaseStep
<1>1. Cardinality(Monthly) \in Nat /\ IsFiniteSet(Monthly)
  BY Sizes
\* Steps that create no row of a blast.
<1>2. ASSUME quotaRows' = quotaRows, quotaNow' = quotaNow,
               HeldRows' \subseteq HeldRows PROVE QuotaKept'
  <2>1. Monthly' = Monthly
    BY <1>2 DEF Monthly, BlastRows, Quota!MonthStart
  <2> QED
    BY <1>0, <1>1, <1>2, <2>1, QuotaShrinks
<1>3. ASSUME NEW c \in QuotaParams.Campaigns, Quota!Start(c) PROVE QuotaKept'
  BY <1>2, <1>3, QuotaCardinality DEF Quota!Start, HeldRows, QuotaBase,
     Quota!TypeOK
<1>4. ASSUME NEW c \in QuotaParams.Campaigns, Quota!ReadBatch(c)
               PROVE QuotaKept'
  <2>1. /\ quotaPc[c] = "read" /\ quotaRows' = quotaRows
        /\ quotaNow' = quotaNow
        /\ quotaPc'[c] # "insert"
        /\ \A d \in QuotaParams.Campaigns \ {c} : quotaPc'[d] = quotaPc[d]
             /\ held'[d] = held[d]
    BY <1>4 DEF Quota!ReadBatch, QuotaBase, Quota!TypeOK
  <2> QED
    BY <1>2, <2>1 DEF HeldRows
<1>5. ASSUME NEW c \in QuotaParams.Campaigns, Quota!EndOfAudience(c)
               PROVE QuotaKept'
  BY <1>2, <1>5 DEF Quota!EndOfAudience, HeldRows, QuotaBase, Quota!TypeOK
<1>6. ASSUME NEW d \in Quota!Direct, NEW s \in Quota!Leads,
               Quota!DirectSend(d, s) PROVE QuotaKept'
  <2> DEFINE n == [by |-> d, lead |-> s, at |-> quotaNow, counts |-> TRUE,
                 number |-> 0]
  <2>1. quotaRows' = quotaRows \cup {n} /\ n.by = d
          /\ d \notin QuotaParams.Campaigns
        /\ UNCHANGED <<quotaNow, quotaPc, held>>
    BY <1>6, Others DEF Quota!DirectSend
  <2> HIDE DEF n
  <2>2. Monthly' = Monthly /\ HeldRows' = HeldRows
    BY <2>1 DEF Monthly, BlastRows, Quota!MonthStart, HeldRows
  <2> QED
    BY <1>0, <1>1, <2>2, QuotaShrinks
<1>7. ASSUME NEW r \in quotaRows, Quota!PushFails(r) PROVE QuotaKept'
  <2> DEFINE n == [r EXCEPT !.counts = FALSE]
  <2>1. quotaRows' = (quotaRows \ {r}) \cup {n}
          /\ UNCHANGED <<quotaNow, quotaPc, held>>
    BY <1>7 DEF Quota!PushFails
  <2>2. n.by = r.by /\ n.at = r.at
    BY DEF QuotaBase, Quota!TypeOK, Quota!Row
  <2> HIDE DEF n
  <2>3. HeldRows' = HeldRows /\ Quota!MonthStart' = Quota!MonthStart
    BY <2>1 DEF HeldRows, Quota!MonthStart
  <2>4. CASE r \in Monthly
    <3>1. Monthly' = (Monthly \ {r}) \cup {n}
      BY <2>1, <2>2, <2>3, <2>4 DEF Monthly, BlastRows
    <3>2. IsFiniteSet(Monthly \ {r})
            /\ Cardinality(Monthly \ {r}) = Cardinality(Monthly) - 1
      BY <1>1, <2>4, FS_RemoveElement
    <3>3. /\ Cardinality((Monthly \ {r}) \cup {n})
               <= Cardinality(Monthly \ {r}) + 1
          /\ Cardinality((Monthly \ {r}) \cup {n}) \in Nat
      BY <3>2, OneMore
    <3>5. Cardinality(Monthly') <= Cardinality(Monthly)
      BY <1>1, <3>1, <3>2, <3>3
    <3> QED
      BY <1>0, <2>3, <3>5, QuotaShrinks
  <2>5. CASE r \notin Monthly
    <3>1. Monthly' = Monthly
      BY <2>1, <2>2, <2>3, <2>5 DEF Monthly, BlastRows
    <3> QED
      BY <1>0, <1>1, <2>3, <3>1, QuotaShrinks
  <2> QED
    BY <2>4, <2>5
<1>8. CASE Quota!Tick
  <2>1. quotaNow' = quotaNow + 1 /\ UNCHANGED <<quotaRows, quotaPc, held>>
    BY <1>8 DEF Quota!Tick
  <2>2. Quota!MonthStart \in Nat /\ Quota!MonthStart' \in Nat
          /\ Quota!MonthStart <= Quota!MonthStart'
    BY <2>1, Ranges, MonthMono DEF QuotaBase, Quota!MonthStart,
       Quota!QuotaAssumption
  <2>3. Monthly' \subseteq Monthly
    <3>1. \A r \in quotaRows : r.at \in Nat
      BY Ranges DEF QuotaBase
    <3> QED
      BY <2>1, <2>2, <3>1 DEF Monthly, BlastRows
  <2>4. HeldRows' = HeldRows /\ Cardinality(Monthly') <= Cardinality(Monthly)
    BY <1>1, <2>1, <2>3, FS_Subset DEF HeldRows
  <2> QED
    BY <1>0, <2>4, QuotaShrinks
<1>9. CASE UNCHANGED Quota!vars
  BY <1>2, <1>9 DEF Quota!vars, HeldRows
<1> QED
  BY <1>0, <1>3, <1>4, <1>5, <1>6, <1>7, <1>8, <1>9, CheckKeepsQuota,
     InsertKeepsQuota DEF Quota!Next

-----------------------------------------------------------------------------
\* The caps.

CapSet(s, f) == {r \in quotaRows : /\ r.lead = s /\ r.counts
  /\ r.by \in QuotaParams.Campaigns
                              /\ r.at >= f}

\* Without a new row or taker of the lead its cap cannot be exceeded.
CapsOf(s) ==
  /\ Quota!CapRows(s, quotaNow - QuotaParams.DayTicks)
       + Cardinality(Takers(s))
       <= QuotaParams.CapDay + QuotaParams.MaxParallel - 1
  /\ Quota!CapRows(s, quotaNow - QuotaParams.WeekTicks)
       + Cardinality(Takers(s))
       <= QuotaParams.CapWeek + QuotaParams.MaxParallel - 1

LEMMA CapsTyped ==
  ASSUME Quota!QuotaAssumption, QuotaBase
  PROVE  /\ quotaNow - QuotaParams.DayTicks \in Int
         /\ quotaNow - QuotaParams.WeekTicks \in Int
         /\ QuotaParams.CapDay \in Nat /\ QuotaParams.CapWeek \in Nat
         /\ QuotaParams.MaxParallel \in Nat
         /\ \A s, f : /\ Quota!CapRows(s, f) \in Nat
              /\ Quota!CapRows(s, f) = Cardinality(CapSet(s, f))
                      /\ IsFiniteSet(CapSet(s, f))
         /\ \A s : /\ Cardinality(Takers(s)) \in Nat /\ IsFiniteSet(Takers(s))
                   /\ Cardinality(Takers(s)) <= QuotaParams.MaxParallel
<1>1. \A s, f : IsFiniteSet(CapSet(s, f))
        /\ Quota!CapRows(s, f) = Cardinality(CapSet(s, f))
  BY FiniteRows, QuotaCardinality DEF CapSet, Quota!CapRows, QuotaBase
<1> QED
  BY <1>1, TakersActive, Counting, Ranges DEF QuotaBase, Quota!QuotaAssumption

LEMMA Shifted ==
  ASSUME NEW a \in Nat, NEW b \in Nat, NEW d \in Nat, a <= b
  PROVE  a - d \in Int /\ b - d \in Int /\ a - d <= b - d
  OBVIOUS

LEMMA CapsShrink ==
  ASSUME Quota!QuotaAssumption, QuotaBase, QuotaBase', NEW s, CapsOf(s),
           quotaNow <= quotaNow',
         \A f : CapSet(s, f)' \subseteq CapSet(s, f),
         Takers(s)' \subseteq Takers(s)
  PROVE  CapsOf(s)'
<1> DEFINE Later(f) == {r \in quotaRows' : /\ r.lead = s /\ r.counts
           /\ r.by \in QuotaParams.Campaigns
                                      /\ r.at >= f}
<1>1. ASSUME NEW f \in Int, NEW g \in Int, f <= g
      PROVE  Cardinality(Later(g)) <= Quota!CapRows(s, f)
               /\ Cardinality(Later(g)) \in Nat
  <2>1. Later(g) \subseteq CapSet(s, f)
    <3>1. CapSet(s, g) \subseteq CapSet(s, f)
      <4>1. \A r \in quotaRows : r.at \in Nat
        BY Ranges DEF QuotaBase
      <4> QED
        BY <1>1, <4>1 DEF CapSet
    <3>2. Later(g) \subseteq CapSet(s, g)
      BY DEF CapSet
    <3> QED
      BY <3>1, <3>2
  <2> HIDE DEF Later
  <2>2. IsFiniteSet(CapSet(s, f))
          /\ Quota!CapRows(s, f) = Cardinality(CapSet(s, f))
    BY CapsTyped
  <2>3. IsFiniteSet(Later(g))
          /\ Cardinality(Later(g)) <= Cardinality(CapSet(s, f))
    BY <2>1, <2>2, FS_Subset
  <2> QED
    BY <2>2, <2>3, FS_CardinalityType
<1>2. Cardinality(Takers(s)') <= Cardinality(Takers(s))
        /\ Cardinality(Takers(s)') \in Nat
  BY CapsTyped, FS_Subset, FS_CardinalityType
<1>3. /\ quotaNow - QuotaParams.DayTicks \in Int
      /\ quotaNow' - QuotaParams.DayTicks \in Int
      /\ quotaNow - QuotaParams.DayTicks <= quotaNow' - QuotaParams.DayTicks
      /\ quotaNow - QuotaParams.WeekTicks \in Int
      /\ quotaNow' - QuotaParams.WeekTicks \in Int
      /\ quotaNow - QuotaParams.WeekTicks <= quotaNow' - QuotaParams.WeekTicks
  <2>1. quotaNow \in 0..QuotaParams.MaxTime
          /\ quotaNow' \in 0..QuotaParams.MaxTime
    BY DEF QuotaBase, Quota!TypeOK
  <2>2. QuotaParams.DayTicks \in Nat /\ QuotaParams.WeekTicks \in Nat
          /\ QuotaParams.MaxTime \in Nat
    BY DEF Quota!QuotaAssumption
  <2>3. quotaNow \in Nat /\ quotaNow' \in Nat
    BY <2>1, <2>2
  <2> QED
    BY <2>2, <2>3, Shifted
<1> HIDE DEF Later
<1>4. /\ Cardinality(Later(quotaNow' - QuotaParams.DayTicks))
           <= Quota!CapRows(s, quotaNow - QuotaParams.DayTicks)
      /\ Cardinality(Later(quotaNow' - QuotaParams.DayTicks)) \in Nat
      /\ Cardinality(Later(quotaNow' - QuotaParams.WeekTicks))
           <= Quota!CapRows(s, quotaNow - QuotaParams.WeekTicks)
      /\ Cardinality(Later(quotaNow' - QuotaParams.WeekTicks)) \in Nat
  BY <1>1, <1>3
<1>5. /\ Quota!CapRows(s, quotaNow - QuotaParams.DayTicks) \in Nat
      /\ Quota!CapRows(s, quotaNow - QuotaParams.WeekTicks) \in Nat
      /\ Cardinality(Takers(s)) \in Nat
      /\ QuotaParams.CapDay \in Nat /\ QuotaParams.CapWeek \in Nat
      /\ QuotaParams.MaxParallel \in Nat
  BY CapsTyped
<1>6. /\ Cardinality(Later(quotaNow' - QuotaParams.DayTicks))
           + Cardinality(Takers(s)')
           <= QuotaParams.CapDay + QuotaParams.MaxParallel - 1
      /\ Cardinality(Later(quotaNow' - QuotaParams.WeekTicks))
           + Cardinality(Takers(s)')
           <= QuotaParams.CapWeek + QuotaParams.MaxParallel - 1
  BY <1>2, <1>4, <1>5 DEF CapsOf
<1> QED
  BY <1>6, QuotaCardinality DEF CapsOf, Quota!CapRows, Later

\* A dispatch takes a lead whose count is below the caps.
LEMMA ReadKeepsCaps ==
  ASSUME Quota!QuotaAssumption, QuotaBase, QuotaBase', CapsKept,
           NEW c \in QuotaParams.Campaigns, Quota!ReadBatch(c),
         NEW s \in Quota!Leads
  PROVE  CapsOf(s)'
<1> DEFINE b == Quota!Least(cursor[c] + QuotaParams.BatchSize,
               QuotaParams.NumLeads)
           el == {t \in Quota!Leads : /\ cursor[c] < t /\ t <= b
               /\ Quota!UnderCaps(c, t)}
<1>1. /\ held' = [held EXCEPT ![c] = el] /\ quotaPc[c] = "read"
      /\ UNCHANGED <<quotaRows, quotaNow>>
  BY DEF Quota!ReadBatch
<1>2. \A f : CapSet(s, f)' = CapSet(s, f)
  BY <1>1 DEF CapSet
<1>3. held'[c] = el /\ \A d \in QuotaParams.Campaigns \ {c} :
        held'[d] = held[d]
  BY <1>1 DEF QuotaBase, Quota!TypeOK
<1>4. CASE s \notin el
  <2>1. Takers(s)' \subseteq Takers(s)
    <3> HIDE DEF el
    <3> QED
      BY <1>3, <1>4 DEF Takers
  <2>2. CapsOf(s) /\ quotaNow <= quotaNow'
    BY <1>1, Ranges DEF CapsKept, CapsOf, QuotaBase
  <2> QED
    BY <1>2, <2>1, <2>2, CapsShrink
<1>5. CASE s \in el
  <2>1. Quota!UnderCaps(c, s)
    BY <1>5
  <2>2. Takers(s)' \subseteq Quota!Active
    <3>1. c \in Quota!Active
      BY <1>1 DEF Quota!Active
    <3>2. Takers(s) \subseteq Quota!Active
      BY TakersActive
    <3> HIDE DEF el
    <3> QED
      BY <1>3, <3>1, <3>2 DEF Takers
  <2>3. Cardinality(Takers(s)') <= QuotaParams.MaxParallel
          /\ Cardinality(Takers(s)') \in Nat
    <3>1. IsFiniteSet(Quota!Active) /\ Cardinality(Quota!Active) \in Nat
            /\ Cardinality(Quota!Active) <= QuotaParams.MaxParallel
      BY FS_CardinalityType DEF QuotaBase, Finite, Lanes
    <3>2. IsFiniteSet(Takers(s)')
            /\ Cardinality(Takers(s)') <= Cardinality(Quota!Active)
      BY <2>2, <3>1, FS_Subset
    <3> QED
      BY <3>1, <3>2, FS_CardinalityType DEF Quota!QuotaAssumption
  <2>4. ASSUME NEW w \in Nat
        PROVE  Quota!CapRows(s, quotaNow - w) <= Quota!Count(s, since[c] - w)
                 /\ Quota!CapRows(s, quotaNow - w) \in Nat
               /\ Quota!Count(s, since[c] - w) \in Nat
    <3> DEFINE C == {r \in quotaRows : r.lead = s /\ r.counts
                   /\ r.at >= since[c] - w}
    <3>1. since[c] <= quotaNow /\ since[c] \in Nat /\ quotaNow \in Nat
            /\ \A r \in quotaRows : r.at \in Nat
      BY Ranges DEF QuotaBase, Batched
    <3>2. \A r \in quotaRows : r.at >= quotaNow - w => r.at >= since[c] - w
      BY <2>4, <3>1
    <3>3. CapSet(s, quotaNow - w) \subseteq C
      BY <3>2 DEF CapSet
    <3>4. IsFiniteSet(C) /\ Cardinality(C) \in Nat
      BY FiniteRows DEF QuotaBase
    <3>5. Cardinality(CapSet(s, quotaNow - w)) <= Cardinality(C)
      BY <3>3, <3>4, FS_Subset
    <3>6. Quota!Count(s, since[c] - w) = Cardinality(C)
      BY QuotaCardinality DEF Quota!Count
    <3> QED
      BY <3>4, <3>5, <3>6, CapsTyped
  <2>5. /\ Quota!CapRows(s,
             quotaNow - QuotaParams.DayTicks) < QuotaParams.CapDay
             /\ Quota!CapRows(s, quotaNow - QuotaParams.DayTicks) \in Nat
        /\ Quota!CapRows(s,
             quotaNow - QuotaParams.WeekTicks) < QuotaParams.CapWeek
             /\ Quota!CapRows(s, quotaNow - QuotaParams.WeekTicks) \in Nat
        /\ QuotaParams.CapDay \in Nat /\ QuotaParams.CapWeek \in Nat
        /\ QuotaParams.MaxParallel \in Nat
    <3>1. QuotaParams.DayTicks \in Nat /\ QuotaParams.WeekTicks \in Nat
            /\ QuotaParams.CapDay \in Nat /\ QuotaParams.CapWeek \in Nat
            /\ QuotaParams.MaxParallel \in Nat
      BY DEF Quota!QuotaAssumption
    <3> QED
      BY <2>1, <2>4, <3>1, QuotaCardinality DEF Quota!UnderCaps
  <2>6. /\ Quota!CapRows(s, quotaNow - QuotaParams.DayTicks)'
             = Quota!CapRows(s, quotaNow - QuotaParams.DayTicks)
        /\ Quota!CapRows(s, quotaNow - QuotaParams.WeekTicks)'
             = Quota!CapRows(s, quotaNow - QuotaParams.WeekTicks)
    BY <1>1, QuotaCardinality DEF Quota!CapRows
  <2> QED
    BY <2>3, <2>5, <2>6 DEF CapsOf
<1> QED
  BY <1>4, <1>5

\* A taker's row takes its place.
LEMMA InsertKeepsCaps ==
  ASSUME Quota!QuotaAssumption, QuotaBase, QuotaBase', CapsKept,
           NEW c \in QuotaParams.Campaigns, Quota!Insert(c),
         NEW s \in Quota!Leads
  PROVE  CapsOf(s)'
<1> DEFINE new(t) == [by |-> c, lead |-> t, at |-> quotaNow, counts |-> TRUE,
                      number |-> Quota!PoolIndex(c, t)]
           N == {new(t) : t \in held[c]}
<1>1. /\ quotaRows' = quotaRows \cup N /\ quotaNow' = quotaNow
      /\ held' = [held EXCEPT ![c] = {}]
  BY DEF Quota!Insert
<1>2. \A r \in N : r.lead \in held[c] /\ r = new(r.lead)
  OBVIOUS
<1> HIDE DEF N
<1>3. held'[c] = {} /\ \A d \in QuotaParams.Campaigns \ {c} :
        held'[d] = held[d]
  BY <1>1 DEF QuotaBase, Quota!TypeOK
<1>0. CapsOf(s)
  BY DEF CapsKept, CapsOf
<1>4. CASE s \notin held[c]
  <2>1. Takers(s)' \subseteq Takers(s)
    BY <1>3 DEF Takers
  <2>2. \A f : CapSet(s, f)' \subseteq CapSet(s, f)
    BY <1>1, <1>2, <1>4 DEF CapSet
  <2>3. quotaNow <= quotaNow'
    BY <1>1, Ranges DEF QuotaBase
  <2> QED
    BY <1>0, <2>1, <2>2, <2>3, CapsShrink
<1>5. CASE s \in held[c]
  <2>1. Takers(s)' = Takers(s) \ {c} /\ c \in Takers(s)
    BY <1>3, <1>5 DEF Takers
  <2>2. Cardinality(Takers(s)') = Cardinality(Takers(s)) - 1
    BY <2>1, CapsTyped, FS_RemoveElement
  <2>3. ASSUME NEW f
        PROVE  LET L == {r \in quotaRows' : /\ r.lead = s /\ r.counts
                 /\ r.by \in QuotaParams.Campaigns
                                       /\ r.at >= f}
               IN  Cardinality(L) \in Nat
                 /\ Cardinality(L) <= Quota!CapRows(s, f) + 1
    <3> DEFINE L == {r \in quotaRows' : /\ r.lead = s /\ r.counts
                   /\ r.by \in QuotaParams.Campaigns
                                   /\ r.at >= f}
    <3>1. L \subseteq CapSet(s, f) \cup {new(s)}
      BY <1>1, <1>2 DEF CapSet
    <3> HIDE DEF L
    <3>2. /\ IsFiniteSet(CapSet(s, f) \cup {new(s)})
          /\ Cardinality(CapSet(s, f) \cup {new(s)}) \in Nat
          /\ Cardinality(CapSet(s, f) \cup {new(s)}) <= Quota!CapRows(s, f) + 1
          /\ Quota!CapRows(s, f) \in Nat
      BY CapsTyped, OneMore
    <3>3. IsFiniteSet(L)
            /\ Cardinality(L) <= Cardinality(CapSet(s, f) \cup {new(s)})
      BY <3>1, <3>2, FS_Subset
    <3>4. Cardinality(L) \in Nat
      BY <3>3, FS_CardinalityType
    <3>5. Cardinality(L) \in Nat /\ Cardinality(L) <= Quota!CapRows(s, f) + 1
      BY <3>2, <3>3, <3>4
    <3> QED
      BY <3>5 DEF L
  <2>4. /\ Quota!CapRows(s, quotaNow - QuotaParams.DayTicks)' \in Nat
        /\ Quota!CapRows(s, quotaNow - QuotaParams.DayTicks)'
             <= Quota!CapRows(s, quotaNow - QuotaParams.DayTicks) + 1
        /\ Quota!CapRows(s, quotaNow - QuotaParams.WeekTicks)' \in Nat
        /\ Quota!CapRows(s, quotaNow - QuotaParams.WeekTicks)'
             <= Quota!CapRows(s, quotaNow - QuotaParams.WeekTicks) + 1
    <3>1. /\ Quota!CapRows(s, quotaNow - QuotaParams.DayTicks)'
               = Cardinality({r \in quotaRows' : /\ r.lead = s /\ r.counts
               /\ r.by \in QuotaParams.Campaigns
                                       /\ r.at >= quotaNow
                                            - QuotaParams.DayTicks})
          /\ Quota!CapRows(s, quotaNow - QuotaParams.WeekTicks)'
               = Cardinality({r \in quotaRows' : /\ r.lead = s /\ r.counts
               /\ r.by \in QuotaParams.Campaigns
                                       /\ r.at >= quotaNow
                                            - QuotaParams.WeekTicks})
      BY <1>1, QuotaCardinality DEF Quota!CapRows
    <3> QED
      BY <2>3, <3>1
  <2>5. /\ Quota!CapRows(s, quotaNow - QuotaParams.DayTicks) \in Nat
        /\ Quota!CapRows(s, quotaNow - QuotaParams.WeekTicks) \in Nat
        /\ Cardinality(Takers(s)) \in Nat
        /\ QuotaParams.CapDay \in Nat /\ QuotaParams.CapWeek \in Nat
        /\ QuotaParams.MaxParallel \in Nat
    BY CapsTyped
  <2>6. Takers(s)' = {d \in QuotaParams.Campaigns : s \in held'[d]}
    BY DEF Takers
  <2> QED
    BY <1>0, <2>2, <2>4, <2>5 DEF CapsOf
<1> QED
  BY <1>4, <1>5

LEMMA CapsStep ==
  ASSUME Quota!QuotaAssumption, QuotaBase, CapsKept, [Quota!Next]_(Quota!vars)
  PROVE  CapsKept'
<1>0. QuotaBase'
  BY QuotaBaseStep
<1> SUFFICES ASSUME NEW s \in Quota!Leads PROVE CapsOf(s)'
  BY DEF CapsKept, CapsOf
<1>1. CapsOf(s)
  BY DEF CapsKept, CapsOf
<1>2. quotaNow \in Nat
  BY Ranges DEF QuotaBase
\* Steps that create no row of a blast.
<1>3. ASSUME quotaRows' = quotaRows, quotaNow' = quotaNow,
               \A c \in QuotaParams.Campaigns : held'[c] \subseteq held[c]
      PROVE  CapsOf(s)'
  <2>1. Takers(s)' \subseteq Takers(s) /\ \A f :
          CapSet(s, f)' \subseteq CapSet(s, f)
    BY <1>3 DEF Takers, CapSet
  <2> QED
    BY <1>0, <1>1, <1>2, <1>3, <2>1, CapsShrink
<1>4. ASSUME NEW c \in QuotaParams.Campaigns,
               Quota!Start(c) \/ Quota!EndOfAudience(c) PROVE CapsOf(s)'
  BY <1>3, <1>4, QuotaCardinality DEF Quota!Start, Quota!EndOfAudience
<1>5. ASSUME NEW c \in QuotaParams.Campaigns, Quota!CheckQuota(c)
               PROVE CapsOf(s)'
  <2>1. CASE Quota!QuotaRemaining = 0
    <3>1. quotaRows' = quotaRows /\ quotaNow' = quotaNow
            /\ held' = [held EXCEPT ![c] = {}]
      BY <1>5, <2>1, QuotaCardinality DEF Quota!CheckQuota
    <3> QED
      BY <1>3, <3>1 DEF QuotaBase, Quota!TypeOK
  <2>2. CASE Quota!QuotaRemaining # 0
    <3>1. quotaRows' = quotaRows /\ quotaNow' = quotaNow
            /\ held' = [held EXCEPT ![c]
            = Quota!FirstOf(held[c], Quota!QuotaRemaining)]
      BY <1>5, <2>2, QuotaCardinality DEF Quota!CheckQuota
    <3>2. Quota!FirstOf(held[c], Quota!QuotaRemaining) \subseteq held[c]
      BY QuotaCardinality DEF Quota!FirstOf
    <3> QED
      BY <1>3, <3>1, <3>2 DEF QuotaBase, Quota!TypeOK
  <2> QED
    BY <2>1, <2>2
<1>6. ASSUME NEW d \in Quota!Direct, NEW l \in Quota!Leads,
               Quota!DirectSend(d, l) PROVE CapsOf(s)'
  <2> DEFINE n == [by |-> d, lead |-> l, at |-> quotaNow, counts |-> TRUE,
                 number |-> 0]
  <2>1. quotaRows' = quotaRows \cup {n} /\ n.by = d
          /\ d \notin QuotaParams.Campaigns
        /\ UNCHANGED <<quotaNow, quotaPc, held>>
    BY <1>6, Others DEF Quota!DirectSend
  <2> HIDE DEF n
  <2>2. Takers(s)' \subseteq Takers(s) /\ \A f :
          CapSet(s, f)' \subseteq CapSet(s, f)
    BY <2>1 DEF Takers, CapSet
  <2> QED
    BY <1>0, <1>1, <1>2, <2>1, <2>2, CapsShrink
<1>7. ASSUME NEW r \in quotaRows, Quota!PushFails(r) PROVE CapsOf(s)'
  <2> DEFINE n == [r EXCEPT !.counts = FALSE]
  <2>1. quotaRows' = (quotaRows \ {r}) \cup {n}
          /\ UNCHANGED <<quotaNow, quotaPc, held>>
    BY <1>7 DEF Quota!PushFails
  <2>2. ~n.counts
    BY DEF QuotaBase, Quota!TypeOK, Quota!Row
  <2> HIDE DEF n
  <2>3. Takers(s)' \subseteq Takers(s) /\ \A f :
          CapSet(s, f)' \subseteq CapSet(s, f)
    BY <2>1, <2>2 DEF Takers, CapSet
  <2> QED
    BY <1>0, <1>1, <1>2, <2>1, <2>3, CapsShrink
<1>8. CASE Quota!Tick
  <2>1. quotaNow' = quotaNow + 1 /\ UNCHANGED <<quotaRows, quotaPc, held>>
    BY <1>8 DEF Quota!Tick
  <2>2. Takers(s)' \subseteq Takers(s) /\ \A f :
          CapSet(s, f)' \subseteq CapSet(s, f)
    BY <2>1 DEF Takers, CapSet
  <2> QED
    BY <1>0, <1>1, <1>2, <2>1, <2>2, CapsShrink
<1>9. CASE UNCHANGED Quota!vars
  BY <1>3, <1>9 DEF Quota!vars
<1> QED
  BY <1>0, <1>4, <1>5, <1>6, <1>7, <1>8, <1>9, ReadKeepsCaps, InsertKeepsCaps
     DEF Quota!Next

-----------------------------------------------------------------------------
\* The call pool.

\* The elements of a finite set of numbers are numbered from 0.
LEMMA RankOnto ==
  ASSUME NEW S \in SUBSET Nat, IsFiniteSet(S)
  PROVE  [s \in S |-> Cardinality({r \in S : r < s})]
           \in Bijection(S, 0..(Cardinality(S) - 1))
<1> DEFINE n == Cardinality(S)
           rank == [s \in S |-> Cardinality({r \in S : r < s})]
<1>1. n \in Nat
  BY FS_CardinalityType
<1>2. \A s \in S : rank[s] \in Nat /\ rank[s] < n
  BY RankBelow
<1>3. \A s, t \in S : s < t => rank[s] < rank[t]
  BY RankGrows
<1>4. rank \in [S -> 0..(n - 1)]
  BY <1>1, <1>2
<1> HIDE DEF rank, n
<1>5. ASSUME NEW s \in S, NEW t \in S, rank[s] = rank[t] PROVE s = t
  <2>1. s < t => FALSE
    BY <1>2, <1>3, <1>5
  <2>2. t < s => FALSE
    BY <1>2, <1>3, <1>5
  <2> QED
    BY <2>1, <2>2
<1>6. rank \in Injection(S, 0..(n - 1))
  BY <1>4, <1>5 DEF Injection, IsInjective
<1>7. IsFiniteSet(0..(n - 1)) /\ Cardinality(0..(n - 1)) = n
  BY <1>1, FS_Interval
<1>8. rank \in Surjection(S, 0..(n - 1))
  BY <1>6, <1>7, FS_Injection DEF n
<1> QED
  BY <1>6, <1>8 DEF Bijection, rank, n

\* Of n positions every remainder has as many as any other, or one more.
LEMMA Evenly ==
  ASSUME NEW n \in Nat, NEW m \in Nat \ {0}, NEW i \in 0..(m - 1),
           NEW j \in 0..(m - 1)
  PROVE  LET K(x) == {k \in 0..(n - 1) : k % m = x}
         IN  /\ IsFiniteSet(K(i)) /\ IsFiniteSet(K(j))
             /\ Cardinality(K(i)) <= Cardinality(K(j)) + 1
<1> DEFINE K(x) == {k \in 0..(n - 1) : k % m = x}
           A == K(i) \ {i}
           move == IF j <= i THEN i - j ELSE m - (j - i)
           g == [k \in A |-> k - move]
<1>1. IsFiniteSet(0..(n - 1))
  BY FS_Interval
<1>2. IsFiniteSet(K(i)) /\ IsFiniteSet(K(j)) /\ IsFiniteSet(A)
  <2>1. K(i) \in SUBSET (0..(n - 1)) /\ K(j) \in SUBSET (0..(n - 1))
          /\ A \in SUBSET (0..(n - 1))
    OBVIOUS
  <2> HIDE DEF K, A
  <2> QED
    BY <1>1, <2>1, FS_Subset
<1>3. move \in Nat
  OBVIOUS
<1>4. ASSUME NEW k \in A PROVE k \in Nat /\ k - move \in K(j)
  <2>1. k \in 0..(n - 1) /\ k \in Nat /\ k % m = i /\ k # i
    OBVIOUS
  <2> DEFINE q == k \div m
  <2>2. q \in Nat /\ k = q * m + i
    BY <2>1, Divided
  <2> HIDE DEF q
  <2>3. q # 0
    BY <2>1, <2>2
  <2>4. CASE j <= i
    <3>1. k - move = q * m + j
      BY <2>2, <2>4
    <3>2. (q * m + j) % m = j
      BY <2>2, Remainder
    <3>3. q * m \in Nat
      BY <2>2
    <3>4. k - move \in 0..(n - 1)
      BY <1>3, <2>1, <3>1, <3>3
    <3> QED
      BY <2>1, <3>1, <3>2, <3>4
  <2>5. CASE j > i
    <3>1. k - move = (q - 1) * m + j
      <4>1. (q - 1) * m = q * m - m
        BY <2>2
      <4> QED
        BY <2>2, <2>5, <4>1
    <3>2. ((q - 1) * m + j) % m = j /\ (q - 1) * m \in Nat
      <4>1. q - 1 \in Nat
        BY <2>2, <2>3
      <4>2. (q - 1) * m \in Nat
        BY <4>1
      <4> QED
        BY <4>1, <4>2, Remainder
    <3>4. k - move \in 0..(n - 1)
      BY <1>3, <2>1, <3>1, <3>2
    <3> QED
      BY <2>1, <3>1, <3>2, <3>4
  <2> QED
    BY <2>4, <2>5
<1> HIDE DEF move
<1>5. g \in Injection(A, K(j))
  <2>1. \A k \in A : k \in Nat /\ k - move \in K(j)
    BY <1>4
  <2> HIDE DEF A, K
  <2>2. g \in [A -> K(j)]
    BY <2>1
  <2>3. \A k, l \in A : g[k] = g[l] => k = l
    BY <1>3, <2>1
  <2> QED
    BY <2>2, <2>3 DEF Injection, IsInjective
<1>6. Cardinality(A) <= Cardinality(K(j))
  <2> HIDE DEF A, K, g
  <2> QED
    BY <1>2, <1>5, FS_Injection
<1>7. Cardinality(K(i)) <= Cardinality(A) + 1
  <2>1. K(i) \subseteq A \cup {i}
    OBVIOUS
  <2> HIDE DEF A, K
  <2>2. /\ IsFiniteSet(A \cup {i}) /\ Cardinality(A \cup {i}) \in Nat
        /\ Cardinality(A \cup {i}) <= Cardinality(A) + 1
    BY <1>2, OneMore
  <2>3. Cardinality(K(i)) <= Cardinality(A \cup {i})
    BY <2>1, <2>2, FS_Subset
  <2> QED
    BY <1>2, <2>2, <2>3, FS_CardinalityType
<1>8. Cardinality(K(i)) \in Nat /\ Cardinality(K(j)) \in Nat
        /\ Cardinality(A) \in Nat
  BY <1>2, FS_CardinalityType
<1> HIDE DEF A, K
<1>9. Cardinality(K(i)) <= Cardinality(K(j)) + 1
  BY <1>6, <1>7, <1>8
<1> QED
  BY <1>2, <1>9 DEF K

LEMMA LeadsFinite ==
  ASSUME Quota!QuotaAssumption, QuotaBase, NEW c
  PROVE  LeadsOf(c) \in SUBSET Nat /\ IsFiniteSet(LeadsOf(c))
<1>1. LeadsOf(c) \subseteq Quota!Leads
  BY DEF LeadsOf
<1> QED
  BY <1>1, FiniteLeads, Ranges DEF QuotaBase

LEMMA LeadOfRow ==
  ASSUME Quota!QuotaAssumption, QuotaBase, NEW r \in quotaRows
  PROVE  r.lead \in LeadsOf(r.by)
  BY Ranges DEF QuotaBase, LeadsOf

\* Positions are counted by leads as well as by rows.
LEMMA TargetedLeads ==
  ASSUME Quota!QuotaAssumption, QuotaBase, NEW c \in QuotaParams.Campaigns
  PROVE  Quota!Targeted(c) = Cardinality(LeadsOf(c))
<1> DEFINE R == {r \in quotaRows : r.by = c}
           f == [r \in R |-> r.lead]
<1>1. \A r \in R : r.lead \in LeadsOf(c)
  BY LeadOfRow
<1>2. \A r, q \in R : r.lead = q.lead => r = q
  BY DEF QuotaBase, InOrder
<1>3. \A l \in LeadsOf(c) : \E r \in R : r.lead = l
  BY DEF LeadsOf
<1> HIDE DEF R
<1>4. f \in Bijection(R, LeadsOf(c))
  BY <1>1, <1>2, <1>3 DEF Bijection, Injection, Surjection, IsInjective
<1>5. IsFiniteSet(R)
  BY FiniteRows DEF R, QuotaBase
<1>6. ExistsBijection(R, LeadsOf(c))
  BY <1>4 DEF ExistsBijection
<1> QED
  BY <1>5, <1>6, FS_Bijection, QuotaCardinality DEF Quota!Targeted, R

\* The numbers of a campaign's rows are those of 0..n-1 modulo the pool.
LEMMA PlacedIsEven ==
  ASSUME Quota!QuotaAssumption, QuotaBase, Placed
  PROVE  Quota!EvenRouting
<1> SUFFICES ASSUME NEW c \in QuotaParams.Campaigns,
                      NEW i \in 0..(QuotaParams.Numbers - 1),
                    NEW j \in 0..(QuotaParams.Numbers - 1)
             PROVE  Cardinality({r \in quotaRows : r.by = c /\ r.number = i})
                      <= Cardinality({r \in quotaRows : r.by = c
                        /\ r.number = j}) + 1
  BY QuotaCardinality DEF Quota!EvenRouting
<1> DEFINE S == LeadsOf(c)
           n == Cardinality(S)
           rank == [s \in S |-> Cardinality({t \in S : t < s})]
           A(x) == {r \in quotaRows : r.by = c /\ r.number = x}
           K(x) == {k \in 0..(n - 1) : k % QuotaParams.Numbers = x}
           f(x) == [r \in A(x) |-> rank[r.lead]]
<1>1. S \in SUBSET Nat /\ IsFiniteSet(S) /\ n \in Nat
  BY LeadsFinite, FS_CardinalityType
<1>2. rank \in Bijection(S, 0..(n - 1))
  BY <1>1, RankOnto
<1>3. \A x : IsFiniteSet(A(x)) /\ Cardinality(A(x)) \in Nat
  BY FiniteRows DEF QuotaBase
<1>4. ASSUME NEW x, NEW r \in A(x)
      PROVE  r.lead \in S /\ rank[r.lead] % QuotaParams.Numbers = x
  <2>1. r.lead \in S
    BY LeadOfRow
  <2>2. r.number = Cardinality({t \in S : t < r.lead}) % QuotaParams.Numbers
    BY DEF Placed
  <2> QED
    BY <2>1, <2>2
<1>5. ASSUME NEW s \in S
      PROVE  \E r \in quotaRows : r.by = c /\ r.lead = s
               /\ r.number = rank[s] % QuotaParams.Numbers
  <2>1. PICK r \in quotaRows : r.by = c /\ r.lead = s
    BY DEF LeadsOf
  <2>2. r.number = Cardinality({t \in S : t < r.lead}) % QuotaParams.Numbers
    BY <2>1 DEF Placed
  <2> QED
    BY <2>1, <2>2
<1>6. \A r, q \in quotaRows : r.by = c /\ q.by = c /\ r.lead = q.lead => r = q
  BY DEF QuotaBase, InOrder
<1> HIDE DEF rank, S, n
<1>7. ASSUME NEW x \in 0..(QuotaParams.Numbers - 1)
      PROVE  f(x) \in Injection(A(x), K(x)) /\ f(x) \in Surjection(A(x), K(x))
  <2>1. \A r \in A(x) : r.lead \in S /\ rank[r.lead] \in K(x)
    BY <1>2, <1>4 DEF Bijection, Injection
  <2>2. f(x) \in [A(x) -> K(x)]
    BY <2>1
  <2>3. \A r, q \in A(x) : f(x)[r] = f(x)[q] => r = q
    <3> SUFFICES ASSUME NEW r \in A(x), NEW q \in A(x),
                          rank[r.lead] = rank[q.lead]
                 PROVE  r = q
      OBVIOUS
    <3>1. r.lead = q.lead
      BY <1>2, <2>1 DEF Bijection, Injection, IsInjective
    <3> QED
      BY <1>6, <3>1
  <2>4. \A k \in K(x) : \E r \in A(x) : f(x)[r] = k
    <3> TAKE k \in K(x)
    <3>1. PICK s \in S : rank[s] = k
      BY <1>2 DEF Bijection, Surjection
    <3>2. PICK r \in quotaRows : r.by = c /\ r.lead = s
            /\ r.number = rank[s] % QuotaParams.Numbers
      BY <1>5
    <3>3. r \in A(x)
      BY <3>1, <3>2
    <3> QED
      BY <3>1, <3>2, <3>3
  <2> HIDE DEF f, A, K
  <2> QED
    BY <2>2, <2>3, <2>4 DEF Injection, Surjection, IsInjective
<1>8. /\ IsFiniteSet(K(i)) /\ IsFiniteSet(K(j))
      /\ Cardinality(K(i)) <= Cardinality(K(j)) + 1
  <2>1. QuotaParams.Numbers \in Nat \ {0}
    BY DEF Quota!QuotaAssumption
  <2> HIDE DEF f, A
  <2> QED
    BY <1>1, <2>1, Evenly
<1> HIDE DEF f, A, K
<1>9. Cardinality(A(i)) <= Cardinality(K(i))
  BY <1>7, <1>8, FS_Injection
<1>10. Cardinality(K(j)) <= Cardinality(A(j))
  BY <1>3, <1>7, FS_Surjection
<1>11. Cardinality(K(i)) \in Nat /\ Cardinality(K(j)) \in Nat
  BY <1>8, FS_CardinalityType
<1>12. Cardinality(A(i)) <= Cardinality(A(j)) + 1
  BY <1>3, <1>8, <1>9, <1>10, <1>11
<1> QED
  BY <1>12 DEF A

LEMMA InsertPlaces ==
  ASSUME Quota!QuotaAssumption, QuotaBase, Placed,
           NEW c \in QuotaParams.Campaigns, Quota!Insert(c)
  PROVE  Placed'
<1> DEFINE new(t) == [by |-> c, lead |-> t, at |-> quotaNow, counts |-> TRUE,
                      number |-> Quota!PoolIndex(c, t)]
           N == {new(t) : t \in held[c]}
<1>1. quotaRows' = quotaRows \cup N
  BY DEF Quota!Insert
<1>2. /\ \A r \in N : r.by = c /\ r.lead \in held[c]
           /\ r.number = Quota!PoolIndex(c, r.lead)
      /\ \A t \in held[c] : \E r \in N : r.lead = t
  <2>1. \A t \in held[c] : /\ new(t).by = c /\ new(t).lead = t
                           /\ new(t).number = Quota!PoolIndex(c, t)
    OBVIOUS
  <2> HIDE DEF new
  <2> QED
    BY <2>1
<1> HIDE DEF N
<1>3. held[c] \in SUBSET Quota!Leads /\ held[c] \in SUBSET Nat
  BY Ranges DEF QuotaBase, Quota!TypeOK
<1>4. \A d \in QuotaParams.Campaigns \ {c} : LeadsOf(d)' = LeadsOf(d)
  BY <1>1, <1>2 DEF LeadsOf
<1>5. LeadsOf(c)' = LeadsOf(c) \cup held[c]
  BY <1>1, <1>2, <1>3 DEF LeadsOf
<1>6. /\ LeadsOf(c) \in SUBSET Nat /\ IsFiniteSet(LeadsOf(c))
      /\ \A l \in LeadsOf(c), h \in held[c] : l < h
  BY LeadsFinite DEF LeadsOf, QuotaBase, InOrder
<1> SUFFICES ASSUME NEW r \in quotaRows', r.by \in QuotaParams.Campaigns
             PROVE  r.number = Cardinality({l \in LeadsOf(r.by)' :
                      l < r.lead}) % QuotaParams.Numbers
  BY DEF Placed
<1>7. CASE r \in quotaRows
  <2>1. {l \in LeadsOf(r.by)' : l < r.lead}
          = {l \in LeadsOf(r.by) : l < r.lead}
    <3>1. CASE r.by # c
      BY <1>4, <3>1
    <3>2. CASE r.by = c
      <4>1. r.lead \in LeadsOf(c)
        BY <1>7, <3>2, LeadOfRow
      <4>2. \A h \in held[c] : ~(h < r.lead)
        BY <1>3, <1>6, <4>1
      <4> QED
        BY <1>5, <3>2, <4>2
    <3> QED
      BY <3>1, <3>2
  <2> QED
    BY <1>7, <2>1 DEF Placed
<1>8. CASE r \in N
  <2> DEFINE H == {t \in held[c] : t < r.lead}
  <2>1. r.by = c /\ r.lead \in held[c] /\ r.number = Quota!PoolIndex(c, r.lead)
    BY <1>2, <1>8
  <2>2. {l \in LeadsOf(c)' : l < r.lead} = LeadsOf(c) \cup H
    BY <1>5, <1>6, <2>1
  <2>3. LeadsOf(c) \cap H = {}
    <3> SUFFICES ASSUME NEW l \in LeadsOf(c), l \in held[c] PROVE FALSE
      OBVIOUS
    <3>1. l < l /\ l \in Nat
      BY <1>6
    <3> QED
      BY <3>1
  <2>4. IsFiniteSet(H)
    BY <1>3, FiniteLeads
  <2>5. Cardinality(LeadsOf(c)) \in Nat /\ Cardinality(H) \in Nat
    BY <1>6, <2>4, FS_CardinalityType
  <2> HIDE DEF H
  <2>6. Cardinality(LeadsOf(c) \cup H)
          = Cardinality(LeadsOf(c)) + Cardinality(H)
    <3>1. Cardinality(LeadsOf(c) \cup H)
            = Cardinality(LeadsOf(c)) + Cardinality(H)
              - Cardinality(LeadsOf(c) \cap H)
      BY <1>6, <2>4, FS_Union
    <3>2. Cardinality(LeadsOf(c) \cap H) = 0
      BY <2>3, FS_EmptySet
    <3> QED
      BY <2>5, <3>1, <3>2
  <2>7. Quota!PoolIndex(c, r.lead)
          = (Cardinality(LeadsOf(c)) + Cardinality(H)) % QuotaParams.Numbers
    BY TargetedLeads, QuotaCardinality DEF Quota!PoolIndex, H
  <2> QED
    BY <2>1, <2>2, <2>6, <2>7
<1> QED
  BY <1>1, <1>7, <1>8

LEMMA PlacedStep ==
  ASSUME Quota!QuotaAssumption, QuotaBase, Placed, [Quota!Next]_(Quota!vars)
  PROVE  Placed'
<1>1. ASSUME quotaRows' = quotaRows PROVE Placed'
  BY <1>1 DEF Placed, LeadsOf
<1>2. ASSUME NEW d \in Quota!Direct, NEW l \in Quota!Leads,
               Quota!DirectSend(d, l) PROVE Placed'
  <2> DEFINE n == [by |-> d, lead |-> l, at |-> quotaNow, counts |-> TRUE,
                 number |-> 0]
  <2>1. quotaRows' = quotaRows \cup {n} /\ n.by = d
          /\ d \notin QuotaParams.Campaigns
    BY <1>2, Others DEF Quota!DirectSend
  <2> HIDE DEF n
  <2>2. \A c \in QuotaParams.Campaigns : LeadsOf(c)' = LeadsOf(c)
    BY <2>1 DEF LeadsOf
  <2> QED
    BY <2>1, <2>2 DEF Placed
<1>3. ASSUME NEW r \in quotaRows, Quota!PushFails(r) PROVE Placed'
  <2> DEFINE n == [r EXCEPT !.counts = FALSE]
  <2>1. quotaRows' = (quotaRows \ {r}) \cup {n}
    BY <1>3 DEF Quota!PushFails
  <2>2. n.by = r.by /\ n.lead = r.lead /\ n.number = r.number
    BY DEF QuotaBase, Quota!TypeOK, Quota!Row
  <2> HIDE DEF n
  <2>3. \A c \in QuotaParams.Campaigns : LeadsOf(c)' = LeadsOf(c)
    BY <2>1, <2>2 DEF LeadsOf
  <2> QED
    BY <2>1, <2>2, <2>3 DEF Placed
<1>4. ASSUME NEW c \in QuotaParams.Campaigns,
             Quota!Start(c) \/ Quota!ReadBatch(c) \/ Quota!CheckQuota(c)
               \/ Quota!EndOfAudience(c)
      PROVE  Placed'
  BY <1>1, <1>4, QuotaCardinality DEF Quota!Start, Quota!ReadBatch,
     Quota!CheckQuota, Quota!EndOfAudience
<1>5. CASE Quota!Tick \/ UNCHANGED Quota!vars
  BY <1>1, <1>5 DEF Quota!Tick, Quota!vars
<1> QED
  BY <1>2, <1>3, <1>4, <1>5, InsertPlaces DEF Quota!Next

LEMMA QuotaInvStep ==
  ASSUME Quota!QuotaAssumption
  PROVE  QuotaInv /\ [Quota!Next]_(Quota!vars) => QuotaInv'
  BY QuotaBaseStep, QuotaStep, CapsStep, PlacedStep DEF QuotaInv

LEMMA QuotaInvHolds ==
  ASSUME Quota!QuotaAssumption
  PROVE  QuotaInv => Quota!LimitsHold /\ Quota!EvenRouting
<1> SUFFICES ASSUME QuotaInv PROVE Quota!LimitsHold /\ Quota!EvenRouting
  OBVIOUS
<1>1. QuotaBase
  BY DEF QuotaInv
<1>2. Quota!QuotaBound
  <2>1. {r \in quotaRows : r.at >= Quota!MonthStart
          /\ r.by \in QuotaParams.Campaigns} = Monthly
    BY DEF Monthly, BlastRows
  <2> DEFINE x == (QuotaParams.MaxParallel - 1) * QuotaParams.BatchSize
  <2>2. /\ Cardinality(Monthly) \in Nat /\ Cardinality(HeldRows) \in Nat
        /\ x \in Nat /\ QuotaParams.Quota \in Nat
    BY <1>1, Sizes DEF Quota!QuotaAssumption
  <2>3. Cardinality(Monthly) + Cardinality(HeldRows) <= QuotaParams.Quota + x
    BY DEF QuotaInv, QuotaKept
  <2>4. Cardinality(Monthly) <= QuotaParams.Quota + x
    <3> HIDE DEF x
    <3> QED
      BY <2>2, <2>3
  <2> QED
    BY <2>1, <2>4, QuotaCardinality DEF Quota!QuotaBound
<1>3. Quota!CapBound
  <2> SUFFICES ASSUME NEW s \in Quota!Leads
               PROVE  /\ Quota!CapRows(s, quotaNow - QuotaParams.DayTicks)
                           <= QuotaParams.CapDay + QuotaParams.MaxParallel - 1
                      /\ Quota!CapRows(s, quotaNow - QuotaParams.WeekTicks)
                           <= QuotaParams.CapWeek + QuotaParams.MaxParallel - 1
    BY DEF Quota!CapBound
  <2> QED
    BY <1>1, CapsTyped DEF QuotaInv, CapsKept
<1> QED
  BY <1>1, <1>2, <1>3, PlacedIsEven DEF QuotaInv, Quota!LimitsHold
-----------------------------------------------------------------------------
\* A month's rows of campaigns are within the plan's quota but for what the
\* dispatches that ran together each took in one batch, and no lead has more
\* rows in a day or a week than its caps but for one of each of the others
\* (campaign-runner.service.ts:289-300, 551-590).
THEOREM QuotaIsKept == Spec => []LimitsHold
<1> DEFINE I == part = "quota" => QuotaInv
<1>1. Init => I
  BY PartsAssumption, QuotaInvInit DEF Init
<1>2. I /\ [Next]_vars => I'
  BY PartsAssumption, PartSteps, QuotaInvStep
<1>3. I => LimitsHold
  BY PartsAssumption, QuotaInvHolds DEF LimitsHold
<1> QED
  BY <1>1, <1>2, <1>3, PTL DEF Spec

\* The leads of a campaign are spread over the call numbers so that no number
\* has two more of them than another, however the batches, the pauses and the
\* restarts fall (campaign-runner.service.ts:324-363).
THEOREM CallsAreSpread == Spec => []EvenRouting
<1> DEFINE I == part = "quota" => QuotaInv
<1>1. Init => I
  BY PartsAssumption, QuotaInvInit DEF Init
<1>2. I /\ [Next]_vars => I'
  BY PartsAssumption, PartSteps, QuotaInvStep
<1>3. I => EvenRouting
  BY PartsAssumption, QuotaInvHolds DEF EvenRouting
<1> QED
  BY <1>1, <1>2, <1>3, PTL DEF Spec
=============================================================================
