--------------------------- MODULE AudienceProofs ----------------------------
(***************************************************************************)
(* Whom a notification goes to: the audience of a segment, and the         *)
(* segments of a lead.                                                     *)
(*                                                                         *)
(* Audience: the three values of a compiled filter are followed from the   *)
(* conditions to the whole `where`.                                        *)
(*                                                                         *)
(* Order: a fold is followed through a function of its first k values      *)
(* (Recursion, Run), for each of the folds of resolveAudienceOrder().  In  *)
(* the round robin a list that is not through has as many leads dialled as *)
(* it had turns, and without common leads none has more (Rounds); two      *)
(* lists differ by one turn at most (TurnsAreEven).  While segments are    *)
(* read, who has met a target since its criteria were read is in its list  *)
(* (Kept), and the order is the one of what was read (Made).               *)
(*                                                                         *)
(* Segments: a lead is at home, but for the leads of an assignment under   *)
(* way (HomesTrue), of which what has been written is what will be and the *)
(* rest is as it was read (HalfDone); no edit is under way meanwhile       *)
(* (EditsApart).  The counts of a distribution fall short of what went out *)
(* by the one under way and the faults (Counts), the segment a lead is     *)
(* given had the lowest share when it was chosen (Lowest), and so no share *)
(* is more than one lead ahead (Balanced).                                 *)
(***************************************************************************)
EXTENDS PartsProofs, Integers, FiniteSetTheorems, FunctionTheorems,
        NaturalsInduction, SequenceTheorems, WellFoundedInduction

\* The three values: a conjunction is true if its members all are, a
\* disjunction of two if one is.
LEMMA Conjunction ==
  ASSUME NEW V, V \subseteq {"true", "false", "unknown"}
  PROVE  /\ Audience!And3(V) \in {"true", "false", "unknown"}
         /\ Audience!And3(V) = "true" <=> \A v \in V : v = "true"
BY DEF Audience!And3

LEMMA Disjunction ==
  ASSUME NEW a \in {"true", "false", "unknown"},
         NEW b \in {"true", "false", "unknown"}
  PROVE  /\ Audience!Or3({a, b}) \in {"true", "false", "unknown"}
         /\ Audience!Or3({a, b}) = "true" <=> a = "true" \/ b = "true"
<1>1. {Audience!Not3(v) : v \in {a, b}} = {Audience!Not3(a), Audience!Not3(b)}
  OBVIOUS
<1>2. \A v \in {"true", "false", "unknown"} :
        /\ Audience!Not3(v) \in {"true", "false", "unknown"}
        /\ Audience!Not3(v) = "true" <=> v = "false"
        /\ Audience!Not3(v) = "false" <=> v = "true"
  BY DEF Audience!Not3
<1>3. /\ Audience!And3({Audience!Not3(a), Audience!Not3(b)})
           \in {"true", "false", "unknown"}
      /\ Audience!And3({Audience!Not3(a), Audience!Not3(b)}) = "false"
           <=> a = "true" \/ b = "true"
  BY <1>2 DEF Audience!And3
<1> QED
  BY <1>1, <1>2, <1>3 DEF Audience!Or3

\* The filter of a segment is true of a lead that meets all of its conditions.
LEMMA BaseTrue ==
  ASSUME NEW k, NEW l
  PROVE  /\ Audience!Base(k, l) \in {"true", "false", "unknown"}
         /\ Audience!Base(k, l) = "true"
              <=> \A c \in k.all : /\ audienceRows[l][c.field] # Null
                                   /\ Audience!Compare(c,
                                        audienceRows[l][c.field])
<1> DEFINE V == {Audience!Clause(c, l) : c \in k.all}
<1>1. \A c : /\ Audience!Clause(c, l) \in {"true", "false", "unknown"}
             /\ Audience!Clause(c, l) = "true"
                  <=> /\ audienceRows[l][c.field] # Null
                      /\ Audience!Compare(c, audienceRows[l][c.field])
  BY DEF Audience!Clause
<1>2. V \subseteq {"true", "false", "unknown"}
  BY <1>1
<1>3. Audience!Base(k, l) = Audience!And3(V)
  BY DEF Audience!Base
<1>4. (\A v \in V : v = "true")
        <=> \A c \in k.all : Audience!Clause(c, l) = "true"
  OBVIOUS
<1> QED
  BY <1>1, <1>2, <1>3, <1>4, Conjunction

LEMMA IsTrue ==
  \A b \in BOOLEAN :
    Audience!Is(b) \in {"true", "false"} /\ (Audience!Is(b) = "true" <=> b)
BY DEF Audience!Is

LEMMA ChosenTrue ==
  ASSUME NEW k, NEW l
  PROVE  /\ Audience!Chosen(k, l) \in {"true", "false", "unknown"}
         /\ Audience!Chosen(k, l) = "true"
              <=> \/ k.all_active
                  \/ k.all # {} /\ Audience!Base(k, l) = "true"
                  \/ l \in k.manual_include
<1>1. /\ Audience!Is(l \in k.manual_include) \in {"true", "false", "unknown"}
      /\ Audience!Is(l \in k.manual_include) = "true"
           <=> l \in k.manual_include
  BY DEF Audience!Is
<1>2. CASE k.all_active
  BY <1>2 DEF Audience!Chosen
<1>3. CASE ~k.all_active /\ k.all # {}
  <2>1. Audience!Chosen(k, l)
          = Audience!Or3({Audience!Base(k, l),
                          Audience!Is(l \in k.manual_include)})
    BY <1>3 DEF Audience!Chosen
  <2>2. Audience!Base(k, l) \in {"true", "false", "unknown"}
    BY BaseTrue
  <2>3. /\ Audience!Chosen(k, l) \in {"true", "false", "unknown"}
        /\ Audience!Chosen(k, l) = "true"
             <=> Audience!Base(k, l) = "true"
                  \/ Audience!Is(l \in k.manual_include) = "true"
    BY <1>1, <2>1, <2>2, Disjunction
  <2> QED
    BY <1>1, <1>3, <2>3
<1>4. CASE ~k.all_active /\ k.all = {}
  <2>1. Audience!Chosen(k, l) = Audience!Is(l \in k.manual_include)
    BY <1>4 DEF Audience!Chosen
  <2> QED
    BY <1>1, <1>4, <2>1
<1> QED
  BY <1>2, <1>3, <1>4

LEMMA WhereTrue ==
  ASSUME NEW k, NEW l
  PROVE  Audience!Where(k, l) = "true"
           <=> Audience!Chosen(k, l) = "true" /\ l \notin k.manual_exclude
<1>1. /\ Audience!Is(l \notin k.manual_exclude)
           \in {"true", "false", "unknown"}
      /\ Audience!Is(l \notin k.manual_exclude) = "true"
           <=> l \notin k.manual_exclude
  BY DEF Audience!Is
<1>2. Audience!Where(k, l)
        = Audience!And3({Audience!Chosen(k, l),
                         Audience!Is(l \notin k.manual_exclude)})
  BY DEF Audience!Where
<1>3. Audience!Chosen(k, l) \in {"true", "false", "unknown"}
  BY ChosenTrue
<1> QED
  BY <1>1, <1>2, <1>3, Conjunction

LEMMA AudienceIs == Audience!ReachesWhoIsMeant
<1> SUFFICES ASSUME NEW s \in AudienceParams.Segs
             PROVE  LET k        == criteria[s]
                        Meets(l) == \A c \in k.all :
                                      /\ audienceRows[l][c.field] # Null
                                      /\ Audience!Compare(c,
                                           audienceRows[l][c.field])
                    IN  Audience!Audience(s) =
                          {l \in Audience!Lead :
                             /\ Audience!Active(l) /\ l \notin k.manual_exclude
                             /\ \/ k.all_active
                                \/ k.all # {} /\ Meets(l)
                                \/ l \in k.manual_include}
  BY DEF Audience!ReachesWhoIsMeant
<1> DEFINE k == criteria[s]
<1>1. \A l : Audience!Where(k, l) = "true" <=>
        /\ l \notin k.manual_exclude
        /\ \/ k.all_active
           \/ k.all # {} /\ \A c \in k.all : /\ audienceRows[l][c.field] # Null
                                             /\ Audience!Compare(c,
                                                  audienceRows[l][c.field])
           \/ l \in k.manual_include
  BY WhereTrue, ChosenTrue, BaseTrue
<1> QED
  BY <1>1 DEF Audience!Audience, Audience!Members

\* A segment reaches exactly its active leads that meet every condition, or
\* were put there by hand, less those removed by hand, although the database
\* compares in three values; everyone only by the flag
\* (segment-compiler.ts:37-85).
THEOREM SegmentsReach == Spec => []ReachesWhoIsMeant
<1>1. ReachesWhoIsMeant
  BY AudienceIs DEF ReachesWhoIsMeant
<1> QED
  BY <1>1, PTL

LEMMA AudienceCount ==
  \A S : /\ Audience!Cardinality(S) = Cardinality(S)
         /\ Audience!IsFiniteSet(S) <=> IsFiniteSet(S)
<1>1. \A S : Audience!Cardinality(S) = Cardinality(S)
  BY DEF Audience!Cardinality, Cardinality
<1>2. \A S : Audience!IsFiniteSet(S) <=> IsFiniteSet(S)
  BY DEF Audience!IsFiniteSet, IsFiniteSet
<1> QED
  BY <1>1, <1>2

\* A nonempty set of numbers has a least one.
LEMMA Least ==
  ASSUME NEW T, T \subseteq Nat, T # {}
  PROVE  \E x \in T : \A y \in T : x <= y
<1>1. PICK x \in T : \A y \in T : ~(<<y, x>> \in OpToRel(<, Nat))
  BY NatLessThanWellFounded, WFMin
<1>2. \A y \in T : ~(y < x)
  BY <1>1 DEF OpToRel
<1> QED
  BY <1>2

\* What holds at the start and is handed on holds up to n.
LEMMA UpTo ==
  ASSUME NEW n \in Nat, NEW S, 0 \in S,
         \A k \in 1..n : k - 1 \in S => k \in S
  PROVE  n \in S
<1> SUFFICES ASSUME {k \in 0..n : k \notin S} # {} PROVE FALSE
  OBVIOUS
<1>0. {k \in 0..n : k \notin S} \subseteq Nat
  OBVIOUS
<1>1. PICK x \in {k \in 0..n : k \notin S} :
        \A y \in {k \in 0..n : k \notin S} : x <= y
  BY <1>0, Least
<1>2. x \in 1..n /\ x - 1 \in 0..n
  BY <1>1
<1>3. x - 1 \in S
  BY <1>1, <1>2
<1> QED
  BY <1>1, <1>2, <1>3

LEMMA MaxIs ==
  ASSUME NEW s, NEW k \in Nat, k \in s, \A y \in s : y \in Nat /\ y <= k
  PROVE  Audience!Max(s) = k
<1>1. \A y \in s : k >= y
  OBVIOUS
<1>2. \A x \in s : (\A y \in s : x >= y) => x = k
  OBVIOUS
<1>3. Audience!Max(s) \in s /\ \A y \in s : Audience!Max(s) >= y
  BY <1>1, Zenon DEF Audience!Max
<1> QED
  BY <1>2, <1>3

LEMMA MaxIn ==
  ASSUME NEW n \in Nat, NEW s \in SUBSET (1..n), s # {}
  PROVE  Audience!Max(s) \in s
<1> DEFINE T == {n - x : x \in s}
<1>0. \A x \in s : n - x \in Nat
  OBVIOUS
<1>1. T \subseteq Nat /\ T # {}
  BY <1>0
<1>2. PICK t \in T : \A y \in T : t <= y
  BY <1>1, Least
<1>3. PICK x \in s : t = n - x
  BY <1>2
<1>4. \A y \in s : y \in Nat /\ y <= x
  BY <1>2, <1>3
<1>5. x \in Nat
  BY <1>4
<1> QED
  BY <1>4, <1>5, MaxIs

\* A recursion over the sets of the first n numbers, from b by h, as a fold is
\* defined; and the run of it over the numbers themselves.
Recursion(it, n, D, b, h) ==
  /\ it[{}] = b
  /\ \A s \in SUBSET (1..n) : s # {} /\ it[s \ {Audience!Max(s)}] \in D
       => it[s] = h[<<Audience!Max(s), it[s \ {Audience!Max(s)}]>>]

Run(f, n, D, b, h, e) ==
  /\ f \in [0..n -> D] /\ f[0] = b /\ f[n] = e
  /\ \A k \in 1..n : f[k] = h[<<k, f[k - 1]>>]

LEMMA Iterates ==
  ASSUME NEW n \in Nat, NEW D, NEW b \in D, NEW h \in [(1..n) \X D -> D]
  PROVE  \E g \in [SUBSET (1..n) -> D] : Recursion(g, n, D, b, h)
<1> DEFINE Obeys(g, m) ==
             \A s \in SUBSET (1..m) :
               g[s] = IF s = {} THEN b
                      ELSE h[<<Audience!Max(s), g[s \ {Audience!Max(s)}]>>]
           S == {m \in 0..n : \E g \in [SUBSET (1..m) -> D] : Obeys(g, m)}
<1>1. 0 \in S
  <2> DEFINE g == [s \in SUBSET (1..0) |-> b]
  <2>1. \A s \in SUBSET (1..0) : s = {}
    OBVIOUS
  <2>2. g \in [SUBSET (1..0) -> D] /\ Obeys(g, 0)
    BY <2>1
  <2>3. \E f \in [SUBSET (1..0) -> D] : Obeys(f, 0)
    <3> HIDE DEF g, Obeys
    <3> QED
      BY <2>2, Zenon
  <2>4. 0 \in 0..n
    OBVIOUS
  <2> HIDE DEF Obeys
  <2> QED
    BY <2>3, <2>4, Zenon
<1>2. ASSUME NEW m \in 1..n, m - 1 \in S PROVE m \in S
  <2>1. PICK g \in [SUBSET (1..(m - 1)) -> D] : Obeys(g, m - 1)
    BY <1>2
  <2> DEFINE e == [s \in SUBSET (1..m) |->
                     IF m \in s THEN h[<<m, g[s \ {m}]>>] ELSE g[s]]
  <2>2. \A s \in SUBSET (1..m) : s \ {m} \in SUBSET (1..(m - 1))
    OBVIOUS
  <2>3. e \in [SUBSET (1..m) -> D]
    <3> SUFFICES ASSUME NEW s \in SUBSET (1..m) PROVE e[s] \in D
      OBVIOUS
    <3>1. CASE m \in s
      BY <3>1, <2>2
    <3>2. CASE m \notin s
      <4>1. s = s \ {m}
        BY <3>2
      <4> QED
        BY <4>1, <3>2, <2>2
    <3> QED
      BY <3>1, <3>2
  <2>4. ASSUME NEW s \in SUBSET (1..m)
        PROVE  e[s] = IF s = {} THEN b
                      ELSE h[<<Audience!Max(s), e[s \ {Audience!Max(s)}]>>]
    <3>1. CASE m \in s
      <4>1. Audience!Max(s) = m
        <5>1. \A y \in s : y \in Nat /\ y <= m
          OBVIOUS
        <5> QED
          BY <3>1, <5>1, MaxIs
      <4>2. e[s \ {m}] = g[s \ {m}]
        BY <2>2
      <4> QED
        BY <3>1, <4>1, <4>2
    <3>2. CASE m \notin s
      <4>1. s \in SUBSET (1..(m - 1))
        <5>1. \A x \in s : x \in 1..m /\ x # m
          BY <3>2
        <5> QED
          BY <5>1
      <4>0. s \ {Audience!Max(s)} \in SUBSET (1..(m - 1))
        BY <4>1
      <4>2. e[s] = g[s] /\ e[s \ {Audience!Max(s)}] = g[s \ {Audience!Max(s)}]
        BY <3>2, <4>0, <4>1
      <4>3. g[s] = IF s = {} THEN b
                   ELSE h[<<Audience!Max(s), g[s \ {Audience!Max(s)}]>>]
        BY <2>1, <4>1
      <4> QED
        BY <4>2, <4>3
    <3> QED
      BY <3>1, <3>2
  <2>5. Obeys(e, m)
    BY <2>4
  <2> HIDE DEF e, Obeys
  <2> QED
    BY <2>3, <2>5
<1> HIDE DEF S
<1>3. n \in S
  BY <1>1, <1>2, UpTo
<1> QED
  BY <1>3 DEF S, Recursion

\* What such a recursion computes, one number after the other.
LEMMA Runs ==
  ASSUME NEW n \in Nat, NEW D, NEW b \in D, NEW h \in [(1..n) \X D -> D],
         NEW it, Recursion(it, n, D, b, h)
  PROVE  \E f : Run(f, n, D, b, h, it[1..n])
<1> DEFINE f == [k \in 0..n |-> it[1..k]]
           S == {k \in 0..n : it[1..k] \in D}
<1>0. it[1..0] = b
  <2>1. 1..0 = {}
    OBVIOUS
  <2> QED
    BY <2>1 DEF Recursion
<1>1. ASSUME NEW k \in 1..n, it[1..(k - 1)] \in D
      PROVE  it[1..k] = h[<<k, it[1..(k - 1)]>>]
  <2>1. Audience!Max(1..k) = k
    <3>1. k \in 1..k /\ \A y \in 1..k : y \in Nat /\ y <= k
      OBVIOUS
    <3> QED
      BY <3>1, MaxIs
  <2>2. (1..k) \ {k} = 1..(k - 1) /\ 1..k # {} /\ 1..k \in SUBSET (1..n)
    OBVIOUS
  <2> QED
    BY <1>1, <2>1, <2>2 DEF Recursion
<1>2. 0 \in S
  BY <1>0
<1>3. ASSUME NEW k \in 1..n, k - 1 \in S PROVE k \in S
  <2>1. it[1..(k - 1)] \in D
    BY <1>3
  <2>2. <<k, it[1..(k - 1)]>> \in (1..n) \X D
    BY <2>1
  <2> QED
    BY <1>1, <2>1, <2>2
<1> HIDE DEF S
<1>4. ASSUME NEW m \in 0..n PROVE m \in S
  BY <1>2, <1>3, UpTo
<1>5. \A k \in 0..n : it[1..k] \in D
  BY <1>4 DEF S
<1>6. f \in [0..n -> D] /\ f[0] = b /\ f[n] = it[1..n]
  BY <1>0, <1>5
<1>7. \A k \in 1..n : f[k] = h[<<k, f[k - 1]>>]
  BY <1>1, <1>5
<1> QED
  BY <1>6, <1>7 DEF Run

\* A lead is taken on if it is wanted.
Taken(out, l, L) == IF l \in L THEN Append(out, l) ELSE out

LEMMA OnlyRuns ==
  ASSUME NEW seq \in Seq(Audience!Lead), NEW L
  PROVE  \E f \in [0..Len(seq) -> Seq(Audience!Lead)] :
           /\ f[0] = <<>> /\ f[Len(seq)] = Audience!Only(seq, L)
           /\ \A k \in 1..Len(seq) :
                f[k] = Taken(f[k - 1], seq[k], L)
<1> DEFINE n == Len(seq)
           D == Seq(Audience!Lead)
           op(k, out) == IF seq[k] \in L THEN Append(out, seq[k]) ELSE out
           h == [p \in (1..n) \X D |-> op(p[1], p[2])]
           Obeys(it) == it = [s \in SUBSET (DOMAIN seq) |->
                              IF s = {} THEN <<>>
                              ELSE op(Audience!Max(s),
                                      it[s \ {Audience!Max(s)}])]
<1>1. Audience!Only(seq, L) = (CHOOSE it : Obeys(it))[DOMAIN seq]
  BY Zenon DEF Audience!Only, Audience!FoldLeft, Audience!MapThenFoldSet
<1>2. DOMAIN seq = 1..n /\ n \in Nat /\ <<>> \in D
  OBVIOUS
<1>3. \A k \in 1..n, d \in D : op(k, d) \in D
  BY <1>2
<1> HIDE DEF n, D, op
<1>4. /\ h \in [(1..n) \X D -> D]
      /\ \A k \in 1..n, d \in D : h[<<k, d>>] = op(k, d)
  BY <1>3
<1> HIDE DEF h
<1>5. PICK g \in [SUBSET (1..n) -> D] : Recursion(g, n, D, <<>>, h)
  <2>1. n \in Nat /\ <<>> \in D /\ h \in [(1..n) \X D -> D]
    BY <1>2, <1>4
  <2> QED
    BY <2>1, Iterates, Zenon
<1>6. \A s \in SUBSET (1..n) : s # {} => Audience!Max(s) \in 1..n
  BY MaxIn, <1>2
<1>7. Obeys(g)
  BY <1>2, <1>4, <1>5, <1>6 DEF Recursion
<1>8. Obeys(CHOOSE it : Obeys(it))
  <2> HIDE DEF Obeys
  <2> QED
    BY <1>7, Zenon
<1> DEFINE r == CHOOSE it : Obeys(it)
<1> HIDE DEF r
<1>9. Recursion(r, n, D, <<>>, h)
  BY <1>2, <1>4, <1>6, <1>8 DEF r, Recursion
<1>10. PICK f : Run(f, n, D, <<>>, h, r[1..n])
  <2>1. n \in Nat /\ <<>> \in D /\ h \in [(1..n) \X D -> D]
    BY <1>2, <1>4
  <2> QED
    BY <2>1, <1>9, Runs, Zenon
<1>11. \A k \in 1..n : f[k] = op(k, f[k - 1])
  <2>1. \A k \in 1..n : k - 1 \in 0..n
    BY <1>2
  <2>2. \A k \in 1..n : f[k - 1] \in D
    BY <1>10, <2>1 DEF Run
  <2> QED
    BY <2>2, <1>4, <1>10 DEF Run
<1> QED
  BY <1>1, <1>2, <1>10, <1>11 DEF n, D, op, r, Run, Taken

LEMMA UnlessRuns ==
  ASSUME NEW o \in Seq(Audience!Lead), NEW list \in Seq(Audience!Lead)
  PROVE  \E f \in [0..Len(list) -> Seq(Audience!Lead)] :
           /\ f[0] = o
           /\ f[Len(list)] = Audience!FoldLeft(Audience!Unless, o, list)
           /\ \A k \in 1..Len(list) : f[k] = Audience!Unless(f[k - 1], list[k])
<1> DEFINE n == Len(list)
           D == Seq(Audience!Lead)
           op(k, out) == Audience!Unless(out, list[k])
           h == [p \in (1..n) \X D |-> op(p[1], p[2])]
           Obeys(it) == it = [s \in SUBSET (DOMAIN list) |->
                              IF s = {} THEN o
                              ELSE op(Audience!Max(s),
                                      it[s \ {Audience!Max(s)}])]
<1>1. Audience!FoldLeft(Audience!Unless, o, list)
        = (CHOOSE it : Obeys(it))[DOMAIN list]
  BY Zenon DEF Audience!FoldLeft, Audience!MapThenFoldSet
<1>2. DOMAIN list = 1..n /\ n \in Nat /\ o \in D
  OBVIOUS
<1>3. \A k \in 1..n, d \in D : op(k, d) \in D
  BY DEF Audience!Unless
<1> HIDE DEF n, D, op
<1>4. /\ h \in [(1..n) \X D -> D]
      /\ \A k \in 1..n, d \in D : h[<<k, d>>] = op(k, d)
  BY <1>3
<1> HIDE DEF h
<1>5. PICK g \in [SUBSET (1..n) -> D] : Recursion(g, n, D, o, h)
  <2>1. n \in Nat /\ o \in D /\ h \in [(1..n) \X D -> D]
    BY <1>2, <1>4
  <2> QED
    BY <2>1, Iterates, Zenon
<1>6. \A s \in SUBSET (1..n) : s # {} => Audience!Max(s) \in 1..n
  BY MaxIn, <1>2
<1>7. Obeys(g)
  BY <1>2, <1>4, <1>5, <1>6 DEF Recursion
<1>8. Obeys(CHOOSE it : Obeys(it))
  <2> HIDE DEF Obeys
  <2> QED
    BY <1>7, Zenon
<1> DEFINE r == CHOOSE it : Obeys(it)
<1> HIDE DEF r
<1>9. Recursion(r, n, D, o, h)
  BY <1>2, <1>4, <1>6, <1>8 DEF r, Recursion
<1>10. PICK f : Run(f, n, D, o, h, r[1..n])
  <2>1. n \in Nat /\ o \in D /\ h \in [(1..n) \X D -> D]
    BY <1>2, <1>4
  <2> QED
    BY <2>1, <1>9, Runs, Zenon
<1>11. \A k \in 1..n : f[k] = op(k, f[k - 1])
  <2>1. \A k \in 1..n : k - 1 \in 0..n
    BY <1>2
  <2>2. \A k \in 1..n : f[k - 1] \in D
    BY <1>10, <2>1 DEF Run
  <2> QED
    BY <2>2, <1>4, <1>10 DEF Run
<1> QED
  BY <1>1, <1>2, <1>10, <1>11 DEF n, D, op, r, Run


\* One more lead at the end.
LEMMA Appended ==
  ASSUME NEW s \in Seq(Audience!Lead), NEW x \in Audience!Lead
  PROVE  /\ Append(s, x) \in Seq(Audience!Lead)
         /\ Len(Append(s, x)) = Len(s) + 1
         /\ Audience!ToSet(Append(s, x)) = Audience!ToSet(s) \cup {x}
         /\ Audience!IsInjective(s) /\ x \notin Audience!ToSet(s)
              => Audience!IsInjective(Append(s, x))
<1>1. /\ DOMAIN Append(s, x) = 1..(Len(s) + 1) /\ DOMAIN s = 1..Len(s)
      /\ Len(s) \in Nat
      /\ \A i \in 1..Len(s) : Append(s, x)[i] = s[i]
      /\ Append(s, x)[Len(s) + 1] = x
  OBVIOUS
<1>2. Audience!ToSet(Append(s, x)) = Audience!ToSet(s) \cup {x}
  <2>1. 1..(Len(s) + 1) = (1..Len(s)) \cup {Len(s) + 1}
    BY <1>1
  <2> QED
    BY <1>1, <2>1 DEF Audience!ToSet
<1>3. ASSUME Audience!IsInjective(s), x \notin Audience!ToSet(s)
      PROVE  Audience!IsInjective(Append(s, x))
  <2>1. \A i, j \in 1..Len(s) : s[i] = s[j] => i = j
    BY <1>1, <1>3 DEF Audience!IsInjective
  <2>2. \A i \in 1..Len(s) : s[i] # x
    BY <1>1, <1>3 DEF Audience!ToSet
  <2>3. ASSUME NEW i \in 1..(Len(s) + 1), NEW j \in 1..(Len(s) + 1),
               Append(s, x)[i] = Append(s, x)[j]
        PROVE  i = j
    <3>1. i \in 1..Len(s) \/ i = Len(s) + 1
      BY <1>1
    <3>2. j \in 1..Len(s) \/ j = Len(s) + 1
      BY <1>1
    <3> QED
      BY <1>1, <2>1, <2>2, <2>3, <3>1, <3>2
  <2> QED
    BY <1>1, <2>3 DEF Audience!IsInjective
<1> QED
  BY <1>1, <1>2, <1>3

\* Nothing is in no list, and what is in a list is at one of its places.
LEMMA InSeq ==
  /\ Audience!ToSet(<<>>) = {} /\ Audience!IsInjective(<<>>)
  /\ \A s \in Seq(Audience!Lead) : /\ DOMAIN s = 1..Len(s) /\ Len(s) \in Nat
                                   /\ Audience!ToSet(s)
                                        = {s[i] : i \in 1..Len(s)}
                                   /\ Audience!ToSet(s) \subseteq Audience!Lead
BY DEF Audience!ToSet, Audience!IsInjective

\* A list is taken on, each of its leads unless it is there.
LEMMA UnlessFold ==
  ASSUME NEW o \in Seq(Audience!Lead), NEW list \in Seq(Audience!Lead)
  PROVE  /\ Audience!FoldLeft(Audience!Unless, o, list) \in Seq(Audience!Lead)
         /\ Audience!ToSet(Audience!FoldLeft(Audience!Unless, o, list))
              = Audience!ToSet(o) \cup Audience!ToSet(list)
         /\ Audience!IsInjective(o)
              => Audience!IsInjective(Audience!FoldLeft(Audience!Unless, o,
                                                        list))
<1>1. PICK f \in [0..Len(list) -> Seq(Audience!Lead)] :
        /\ f[0] = o
        /\ f[Len(list)] = Audience!FoldLeft(Audience!Unless, o, list)
        /\ \A k \in 1..Len(list) : f[k] = Audience!Unless(f[k - 1], list[k])
  BY UnlessRuns
<1> DEFINE S == {k \in 0..Len(list) :
                   /\ Audience!ToSet(f[k])
                        = Audience!ToSet(o) \cup {list[i] : i \in 1..k}
                   /\ Audience!IsInjective(o) => Audience!IsInjective(f[k])}
<1>2. Len(list) \in Nat
  OBVIOUS
<1>3. 0 \in S
  BY <1>1
<1>4. ASSUME NEW k \in 1..Len(list), k - 1 \in S PROVE k \in S
  <2>1. /\ f[k - 1] \in Seq(Audience!Lead) /\ list[k] \in Audience!Lead
        /\ f[k] = Audience!Unless(f[k - 1], list[k])
    BY <1>1
  <2>2. {list[i] : i \in 1..k} = {list[i] : i \in 1..(k - 1)} \cup {list[k]}
    <3>1. 1..k = (1..(k - 1)) \cup {k}
      OBVIOUS
    <3> QED
      BY <3>1
  <2>3. /\ Audience!ToSet(f[k]) = Audience!ToSet(f[k - 1]) \cup {list[k]}
        /\ Audience!IsInjective(f[k - 1]) => Audience!IsInjective(f[k])
    BY <2>1, Appended DEF Audience!Unless
  <2> QED
    BY <1>4, <2>2, <2>3
<1> HIDE DEF S
<1>5. Len(list) \in S
  BY <1>2, <1>3, <1>4, UpTo
<1> QED
  BY <1>1, <1>5, InSeq DEF S

LEMMA SequentialRuns ==
  ASSUME audienceLists \in Seq(Seq(Audience!Lead))
  PROVE  \E f \in [0..Len(audienceLists) -> Seq(Audience!Lead)] :
           /\ f[0] = <<>> /\ f[Len(audienceLists)] = Audience!Sequential
           /\ \A k \in 1..Len(audienceLists) :
                f[k] = Audience!FoldLeft(Audience!Unless, f[k - 1],
                                         audienceLists[k])
<1> DEFINE n == Len(audienceLists)
           D == Seq(Audience!Lead)
           op(k, out) == Audience!FoldLeft(Audience!Unless, out,
                                           audienceLists[k])
           h == [p \in (1..n) \X D |-> op(p[1], p[2])]
           Obeys(it) == it = [s \in SUBSET (DOMAIN audienceLists) |->
                              IF s = {} THEN <<>>
                              ELSE op(Audience!Max(s),
                                      it[s \ {Audience!Max(s)}])]
<1>1. Audience!Sequential = (CHOOSE it : Obeys(it))[DOMAIN audienceLists]
  BY Zenon DEF Audience!Sequential, Audience!FoldLeft, Audience!MapThenFoldSet
<1>2. DOMAIN audienceLists = 1..n /\ n \in Nat /\ <<>> \in D
  OBVIOUS
<1>3. \A k \in 1..n, d \in D : op(k, d) \in D
  <2>1. \A k \in 1..Len(audienceLists) :
          audienceLists[k] \in Seq(Audience!Lead)
    OBVIOUS
  <2> QED
    BY <2>1, UnlessFold
<1> HIDE DEF n, D, op
<1>4. /\ h \in [(1..n) \X D -> D]
      /\ \A k \in 1..n, d \in D : h[<<k, d>>] = op(k, d)
  BY <1>3
<1> HIDE DEF h
<1>5. PICK g \in [SUBSET (1..n) -> D] : Recursion(g, n, D, <<>>, h)
  <2>1. n \in Nat /\ <<>> \in D /\ h \in [(1..n) \X D -> D]
    BY <1>2, <1>4
  <2> QED
    BY <2>1, Iterates, Zenon
<1>6. \A s \in SUBSET (1..n) : s # {} => Audience!Max(s) \in 1..n
  BY MaxIn, <1>2
<1>7. Obeys(g)
  BY <1>2, <1>4, <1>5, <1>6 DEF Recursion
<1>8. Obeys(CHOOSE it : Obeys(it))
  <2> HIDE DEF Obeys
  <2> QED
    BY <1>7, Zenon
<1> DEFINE r == CHOOSE it : Obeys(it)
<1> HIDE DEF r
<1>9. Recursion(r, n, D, <<>>, h)
  BY <1>2, <1>4, <1>6, <1>8 DEF r, Recursion
<1>10. PICK f : Run(f, n, D, <<>>, h, r[1..n])
  <2>1. n \in Nat /\ <<>> \in D /\ h \in [(1..n) \X D -> D]
    BY <1>2, <1>4
  <2> QED
    BY <2>1, <1>9, Runs, Zenon
<1>11. \A k \in 1..n : f[k] = op(k, f[k - 1])
  <2>1. \A k \in 1..n : k - 1 \in 0..n
    BY <1>2
  <2>2. \A k \in 1..n : f[k - 1] \in D
    BY <1>10, <2>1 DEF Run
  <2> QED
    BY <2>2, <1>4, <1>10 DEF Run
<1> QED
  BY <1>1, <1>2, <1>10, <1>11 DEF n, D, op, r, Run


LEMMA SequentialIs ==
  ASSUME audienceLists \in Seq(Seq(Audience!Lead))
  PROVE  /\ Audience!Sequential \in Seq(Audience!Lead)
         /\ Audience!IsInjective(Audience!Sequential)
         /\ Audience!ToSet(Audience!Sequential)
              = UNION {Audience!ToSet(audienceLists[i]) :
                       i \in DOMAIN audienceLists}
<1>1. PICK f \in [0..Len(audienceLists) -> Seq(Audience!Lead)] :
        /\ f[0] = <<>> /\ f[Len(audienceLists)] = Audience!Sequential
        /\ \A k \in 1..Len(audienceLists) :
             f[k] = Audience!FoldLeft(Audience!Unless, f[k - 1],
                                      audienceLists[k])
  BY SequentialRuns
<1> DEFINE U(k) == UNION {Audience!ToSet(audienceLists[i]) : i \in 1..k}
           S == {k \in 0..Len(audienceLists) :
                   Audience!ToSet(f[k]) = U(k) /\ Audience!IsInjective(f[k])}
<1>2. /\ Len(audienceLists) \in Nat
      /\ DOMAIN audienceLists = 1..Len(audienceLists)
  OBVIOUS
<1>3. 0 \in S
  BY <1>1, InSeq
<1>4. ASSUME NEW k \in 1..Len(audienceLists), k - 1 \in S PROVE k \in S
  <2>0. k - 1 \in 0..Len(audienceLists)
    BY <1>2
  <2>1. /\ f[k - 1] \in Seq(Audience!Lead)
        /\ audienceLists[k] \in Seq(Audience!Lead)
        /\ f[k]
            = Audience!FoldLeft(Audience!Unless, f[k - 1], audienceLists[k])
    <3>1. k \in 1..Len(audienceLists)
      OBVIOUS
    <3> QED
      BY <1>1, <2>0, <3>1, SMTT(20)
  <2>2. U(k) = U(k - 1) \cup Audience!ToSet(audienceLists[k])
    <3>1. 1..k = (1..(k - 1)) \cup {k}
      OBVIOUS
    <3>2. {Audience!ToSet(audienceLists[i]) : i \in 1..k}
            = {Audience!ToSet(audienceLists[i]) : i \in 1..(k - 1)}
              \cup {Audience!ToSet(audienceLists[k])}
      BY <3>1
    <3>3. \A A, x : UNION (A \cup {x}) = (UNION A) \cup x
      OBVIOUS
    <3> QED
      BY <3>2, <3>3
  <2>3. /\ Audience!ToSet(f[k])
             = Audience!ToSet(f[k - 1]) \cup Audience!ToSet(audienceLists[k])
        /\ Audience!IsInjective(f[k - 1]) => Audience!IsInjective(f[k])
    BY <2>1, UnlessFold
  <2>4. k \in 0..Len(audienceLists)
    BY <1>2
  <2>5. Audience!ToSet(f[k - 1]) = U(k - 1) /\ Audience!IsInjective(f[k - 1])
    BY <1>4
  <2> HIDE DEF U
  <2> QED
    BY <2>2, <2>3, <2>4, <2>5
<1> HIDE DEF S
<1>5. Len(audienceLists) \in S
  BY <1>2, <1>3, <1>4, UpTo
<1> QED
  BY <1>1, <1>2, <1>5 DEF S


\* The turns that list i of m has had after k of them.
Turns(i, k, m) == k \div m + (IF i <= k % m THEN 1 ELSE 0)

LEMMA DivMod ==
  ASSUME NEW m \in Nat \ {0}, NEW k \in Nat
  PROVE  /\ k % m \in 0..(m - 1) /\ k \div m \in Nat
         /\ k = m * (k \div m) + (k % m)
OBVIOUS

LEMMA DivIs ==
  ASSUME NEW m \in Nat \ {0}, NEW q \in Nat, NEW j \in 0..(m - 1)
  PROVE  (m * q + j) % m = j /\ (m * q + j) \div m = q
<1>1. (m * q + j) % m = j
  OBVIOUS
<1>2. m * q + j \in Nat
  OBVIOUS
<1> DEFINE p == (m * q + j) \div m
<1>3. p \in Nat /\ m * q + j = m * p + j
  BY <1>1, <1>2, DivMod
<1> HIDE DEF p
<1>4. m * (q - p) = 0
  BY <1>3
<1>5. q = p
  BY <1>3, <1>4
<1> QED
  BY <1>1, <1>5 DEF p

\* Turns go around; no list is more than one turn ahead; and after n rounds
\* each list has had n.
LEMMA TurnsGoAround ==
  ASSUME NEW m \in Nat \ {0}, NEW k \in Nat \ {0}, NEW i \in 1..m
  PROVE  /\ ((k - 1) % m) + 1 \in 1..m
         /\ Turns(i, k, m) = Turns(i, k - 1, m)
                               + (IF ((k - 1) % m) + 1 = i THEN 1 ELSE 0)
<1> DEFINE q == (k - 1) \div m
           r == (k - 1) % m
<1>1. /\ k - 1 \in Nat /\ r \in 0..(m - 1) /\ q \in Nat
      /\ k - 1 = m * q + r
  <2>1. k - 1 \in Nat
    OBVIOUS
  <2> QED
    BY <2>1, DivMod
<1> HIDE DEF q, r
<1>2. CASE r + 1 < m
  <2>1. k = m * q + (r + 1) /\ r + 1 \in 0..(m - 1)
    BY <1>1, <1>2
  <2>2. k % m = r + 1 /\ k \div m = q
    BY <1>1, <2>1, DivIs
  <2> QED
    BY <1>1, <2>2 DEF Turns, q, r
<1>3. CASE r + 1 = m
  <2>1. m * (q + 1) = m * q + m
    BY <1>1
  <2>2. k = m * (q + 1) + 0
    BY <1>1, <1>3, <2>1
  <2>3. k % m = 0 /\ k \div m = q + 1
    BY <1>1, <2>2, DivIs
  <2> QED
    BY <1>1, <1>3, <2>3 DEF Turns, q, r
<1> QED
  BY <1>1, <1>2, <1>3 DEF r

LEMMA TurnsAreEven ==
  ASSUME NEW m \in Nat \ {0}, NEW k \in Nat, NEW i \in 1..m, NEW j \in 1..m
  PROVE  /\ Turns(i, k, m) \in Nat /\ Turns(i, 0, m) = 0
         /\ Turns(j, k, m) <= Turns(i, k, m) + 1
         /\ \A n \in Nat : m * n \in Nat /\ Turns(i, m * n, m) = n
<1>1. k % m \in Nat /\ k \div m \in Nat
  BY DivMod
<1>2. ASSUME NEW n \in Nat
      PROVE  m * n \in Nat /\ Turns(i, m * n, m) = n
  <2>1. m * n \in Nat /\ m * n + 0 = m * n
    OBVIOUS
  <2>2. (m * n) % m = 0 /\ (m * n) \div m = n
    BY <2>1, DivIs
  <2> QED
    BY <2>1, <2>2 DEF Turns
<1>3. Turns(i, 0, m) = 0
  <2>1. m * 0 = 0
    OBVIOUS
  <2> QED
    BY <1>2, <2>1
<1> QED
  BY <1>1, <1>2, <1>3 DEF Turns

\* A list that is not through has its first lead that was not dialled dialled.
LEMMA TurnIs ==
  ASSUME audienceLists \in Seq(Seq(Audience!Lead)),
         NEW out \in Seq(Audience!Lead),
         NEW i \in 1..Len(audienceLists)
  PROVE  /\ Audience!Turn(out, i) \in Seq(Audience!Lead)
         /\ \/ Audience!ToSet(audienceLists[i]) \subseteq Audience!ToSet(out)
                 /\ Audience!Turn(out, i) = out
            \/ \E x \in Audience!ToSet(audienceLists[i])
                        \ Audience!ToSet(out) :
                 Audience!Turn(out, i) = Append(out, x)
<1>1. audienceLists[i] \in Seq(Audience!Lead)
  OBVIOUS
<1> DEFINE list == audienceLists[i]
           rest == {k \in DOMAIN list : list[k] \notin Audience!ToSet(out)}
<1>2. Audience!Turn(out, i)
        = IF rest = {} THEN out ELSE Append(out, list[Audience!Min(rest)])
  BY DEF Audience!Turn
<1> HIDE DEF list
<1>3. list \in Seq(Audience!Lead)
  BY <1>1 DEF list
<1>4. DOMAIN list = 1..Len(list) /\ Len(list) \in Nat
  BY <1>3
<1>5. CASE rest = {}
  <2>1. Audience!ToSet(list) \subseteq Audience!ToSet(out)
    BY <1>5 DEF Audience!ToSet
  <2> QED
    BY <1>2, <1>5, <2>1 DEF list
<1>6. CASE rest # {}
  <2>1. Audience!Min(rest) \in rest
    <3>1. rest \subseteq Nat
      BY <1>4
    <3> HIDE DEF rest
    <3>2. \E x \in rest : \A y \in rest : x <= y
      BY <1>6, <3>1, Least
    <3> QED
      BY <3>2 DEF Audience!Min
  <2>2. list[Audience!Min(rest)] \in Audience!ToSet(list) \ Audience!ToSet(out)
    BY <2>1 DEF Audience!ToSet
  <2>3. list[Audience!Min(rest)] \in Audience!Lead
    BY <1>3, <1>4, <2>1
  <2> HIDE DEF rest
  <2> QED
    BY <1>2, <1>6, <2>2, <2>3, Appended DEF list
<1> QED
  BY <1>5, <1>6

\* The leads loaded, counted: as many as each list has at least, and with one
\* list more as many more.
Sum(ls) == Audience!FoldLeft(LAMBDA n, list : n + Len(list), 0, ls)

LEMMA SumRuns ==
  ASSUME NEW ls \in Seq(Seq(Audience!Lead))
  PROVE  \E f \in [0..Len(ls) -> Nat] :
           /\ f[0] = 0 /\ f[Len(ls)] = Sum(ls)
           /\ \A k \in 1..Len(ls) : f[k] = f[k - 1] + Len(ls[k])
<1> DEFINE n == Len(ls)
           D == Nat
           op(k, out) == out + Len(ls[k])
           h == [p \in (1..n) \X D |-> op(p[1], p[2])]
           Obeys(it) == it = [s \in SUBSET (DOMAIN ls) |->
                              IF s = {} THEN 0
                              ELSE op(Audience!Max(s),
                                      it[s \ {Audience!Max(s)}])]
<1>1. Sum(ls) = (CHOOSE it : Obeys(it))[DOMAIN ls]
  BY Zenon DEF Sum, Audience!FoldLeft, Audience!MapThenFoldSet
<1>2. DOMAIN ls = 1..n /\ n \in Nat /\ 0 \in D
  OBVIOUS
<1>3. \A k \in 1..n, d \in D : op(k, d) \in D
  BY <1>2
<1> HIDE DEF n, D, op
<1>4. /\ h \in [(1..n) \X D -> D]
      /\ \A k \in 1..n, d \in D : h[<<k, d>>] = op(k, d)
  BY <1>3
<1> HIDE DEF h
<1>5. PICK g \in [SUBSET (1..n) -> D] : Recursion(g, n, D, 0, h)
  <2>1. n \in Nat /\ 0 \in D /\ h \in [(1..n) \X D -> D]
    BY <1>2, <1>4
  <2> QED
    BY <2>1, Iterates, Zenon
<1>6. \A s \in SUBSET (1..n) : s # {} => Audience!Max(s) \in 1..n
  BY MaxIn, <1>2
<1>7. Obeys(g)
  BY <1>2, <1>4, <1>5, <1>6 DEF Recursion
<1>8. Obeys(CHOOSE it : Obeys(it))
  <2> HIDE DEF Obeys
  <2> QED
    BY <1>7, Zenon
<1> DEFINE r == CHOOSE it : Obeys(it)
<1> HIDE DEF r
<1>9. Recursion(r, n, D, 0, h)
  BY <1>2, <1>4, <1>6, <1>8 DEF r, Recursion
<1>10. PICK f : Run(f, n, D, 0, h, r[1..n])
  <2>1. n \in Nat /\ 0 \in D /\ h \in [(1..n) \X D -> D]
    BY <1>2, <1>4
  <2> QED
    BY <2>1, <1>9, Runs, Zenon
<1>11. \A k \in 1..n : f[k] = op(k, f[k - 1])
  <2>1. \A k \in 1..n : k - 1 \in 0..n
    BY <1>2
  <2>2. \A k \in 1..n : f[k - 1] \in D
    BY <1>10, <2>1 DEF Run
  <2> QED
    BY <2>2, <1>4, <1>10 DEF Run
<1> QED
  BY <1>1, <1>2, <1>10, <1>11 DEF n, D, op, r, Run

LEMMA LoadedIs ==
  ASSUME audienceLists \in Seq(Seq(Audience!Lead))
  PROVE  /\ Audience!Loaded = Sum(audienceLists) /\ Audience!Loaded \in Nat
         /\ \A i \in 1..Len(audienceLists) :
              /\ Len(audienceLists[i]) \in Nat
              /\ Len(audienceLists[i]) <= Audience!Loaded
         /\ Audience!Loaded > 0 => Len(audienceLists) > 0
<1>1. Audience!Loaded = Sum(audienceLists)
  BY DEF Audience!Loaded, Sum
<1>2. PICK f \in [0..Len(audienceLists) -> Nat] :
        /\ f[0] = 0 /\ f[Len(audienceLists)] = Sum(audienceLists)
        /\ \A k \in 1..Len(audienceLists) :
             f[k] = f[k - 1] + Len(audienceLists[k])
  BY SumRuns
<1>3. /\ Len(audienceLists) \in Nat
      /\ \A i \in 1..Len(audienceLists) : Len(audienceLists[i]) \in Nat
  OBVIOUS
<1> DEFINE S == {k \in 0..Len(audienceLists) :
                  \A i \in 1..k : Len(audienceLists[i]) <= f[k]}
<1>4. 0 \in S
  BY <1>3
<1>5. ASSUME NEW k \in 1..Len(audienceLists), k - 1 \in S PROVE k \in S
  <2>0. k - 1 \in 0..Len(audienceLists) /\ k \in 0..Len(audienceLists)
    BY <1>3
  <2>1. f[k - 1] \in Nat /\ f[k] = f[k - 1] + Len(audienceLists[k])
    BY <1>2, <2>0
  <2>2. ASSUME NEW i \in 1..k PROVE Len(audienceLists[i]) <= f[k]
    <3>1. i = k \/ i \in 1..(k - 1)
      OBVIOUS
    <3>2. i \in 1..(k - 1) => Len(audienceLists[i]) <= f[k - 1]
      BY <1>5
    <3>3. i \in 1..Len(audienceLists)
      BY <1>3
    <3> QED
      BY <1>3, <2>1, <3>1, <3>2, <3>3
  <2> QED
    BY <2>0, <2>2
<1> HIDE DEF S
<1>6. Len(audienceLists) \in S
  BY <1>3, <1>4, <1>5, UpTo
<1>7. f[Len(audienceLists)] \in Nat
  BY <1>2, <1>3
<1> QED
  BY <1>1, <1>2, <1>3, <1>6, <1>7 DEF S

LEMMA SumMore ==
  ASSUME NEW ls \in Seq(Seq(Audience!Lead)), NEW l \in Seq(Audience!Lead)
  PROVE  Sum(Append(ls, l)) = Sum(ls) + Len(l)
<1> DEFINE n == Len(ls)
           ms == Append(ls, l)
<1>1. /\ ms \in Seq(Seq(Audience!Lead)) /\ Len(ms) = n + 1 /\ n \in Nat
      /\ ms[n + 1] = l /\ \A k \in 1..n : ms[k] = ls[k]
  OBVIOUS
<1>2. PICK f \in [0..n -> Nat] :
        /\ f[0] = 0 /\ f[n] = Sum(ls)
        /\ \A k \in 1..n : f[k] = f[k - 1] + Len(ls[k])
  BY SumRuns
<1>3. PICK g \in [0..(n + 1) -> Nat] :
        /\ g[0] = 0 /\ g[n + 1] = Sum(ms)
        /\ \A k \in 1..(n + 1) : g[k] = g[k - 1] + Len(ms[k])
  BY <1>1, SumRuns
<1> HIDE DEF n, ms
<1> DEFINE S == {k \in 0..n : f[k] = g[k]}
<1>4. 0 \in S
  BY <1>1, <1>2, <1>3
<1>5. ASSUME NEW k \in 1..n, k - 1 \in S PROVE k \in S
  <2>1. /\ k \in 1..(n + 1) /\ k \in 0..n /\ ms[k] = ls[k]
    BY <1>1
  <2>2. f[k - 1] = g[k - 1]
    BY <1>5
  <2>3. f[k] = f[k - 1] + Len(ls[k]) /\ g[k] = g[k - 1] + Len(ms[k])
    BY <1>2, <1>3, <2>1
  <2> QED
    BY <2>1, <2>2, <2>3
<1> HIDE DEF S
<1>6. n \in S
  BY <1>1, <1>4, <1>5, UpTo
<1>7. n + 1 \in 1..(n + 1) /\ n + 1 - 1 = n
  BY <1>1
<1> QED
  BY <1>1, <1>2, <1>3, <1>6, <1>7 DEF S, ms

LEMMA TurnsRun ==
  ASSUME audienceLists \in Seq(Seq(Audience!Lead)), Len(audienceLists) > 0
  PROVE  \E f \in [0..(Len(audienceLists) * Audience!Loaded)
           -> Seq(Audience!Lead)] :
           /\ f[0] = <<>>
           /\ f[(Len(audienceLists) * Audience!Loaded)] = Audience!Interleaved
           /\ \A k \in 1..(Len(audienceLists) * Audience!Loaded) :
                f[k] = Audience!Turn(f[k - 1],
                                     ((k - 1) % Len(audienceLists)) + 1)
<1> DEFINE turn == [k \in 1 .. Len(audienceLists) * Audience!Loaded |->
                      ((k - 1) % Len(audienceLists)) + 1]
           n == Len(audienceLists) * Audience!Loaded
           D == Seq(Audience!Lead)
           op(k, out) == Audience!Turn(out, turn[k])
           h == [p \in (1..n) \X D |-> op(p[1], p[2])]
           Obeys(it) == it = [s \in SUBSET (DOMAIN turn) |->
                              IF s = {} THEN <<>>
                              ELSE op(Audience!Max(s),
                                      it[s \ {Audience!Max(s)}])]
<1>1. Audience!Interleaved = (CHOOSE it : Obeys(it))[DOMAIN turn]
  BY Zenon DEF Audience!Interleaved, Audience!FoldLeft, Audience!MapThenFoldSet
<1>2. DOMAIN turn = 1..n /\ n \in Nat /\ <<>> \in D
  BY LoadedIs
<1>3. \A k \in 1..n, d \in D : op(k, d) \in D
  <2>1. \A k \in 1..n :
          turn[k] = ((k - 1) % Len(audienceLists)) + 1 /\ k \in Nat \ {0}
    BY <1>2
  <2>2. \A k \in 1..n : turn[k] \in 1..Len(audienceLists)
    BY <2>1, TurnsGoAround
  <2> QED
    BY <2>2, TurnIs
<1>14. \A k \in 1..n : turn[k] = ((k - 1) % Len(audienceLists)) + 1
  OBVIOUS
<1> HIDE DEF n, D, op, turn
<1>4. /\ h \in [(1..n) \X D -> D]
      /\ \A k \in 1..n, d \in D : h[<<k, d>>] = op(k, d)
  BY <1>3
<1> HIDE DEF h
<1>5. PICK g \in [SUBSET (1..n) -> D] : Recursion(g, n, D, <<>>, h)
  <2>1. n \in Nat /\ <<>> \in D /\ h \in [(1..n) \X D -> D]
    BY <1>2, <1>4
  <2> QED
    BY <2>1, Iterates, Zenon
<1>6. \A s \in SUBSET (1..n) : s # {} => Audience!Max(s) \in 1..n
  BY MaxIn, <1>2
<1>7. Obeys(g)
  BY <1>2, <1>4, <1>5, <1>6 DEF Recursion
<1>8. Obeys(CHOOSE it : Obeys(it))
  <2> HIDE DEF Obeys
  <2> QED
    BY <1>7, Zenon
<1> DEFINE r == CHOOSE it : Obeys(it)
<1> HIDE DEF r
<1>9. Recursion(r, n, D, <<>>, h)
  BY <1>2, <1>4, <1>6, <1>8 DEF r, Recursion
<1>10. PICK f : Run(f, n, D, <<>>, h, r[1..n])
  <2>1. n \in Nat /\ <<>> \in D /\ h \in [(1..n) \X D -> D]
    BY <1>2, <1>4
  <2> QED
    BY <2>1, <1>9, Runs, Zenon
<1>11. \A k \in 1..n : f[k] = op(k, f[k - 1])
  <2>1. \A k \in 1..n : k - 1 \in 0..n
    BY <1>2
  <2>2. \A k \in 1..n : f[k - 1] \in D
    BY <1>10, <2>1 DEF Run
  <2> QED
    BY <2>2, <1>4, <1>10 DEF Run
<1> QED
  BY <1>1, <1>2, <1>10, <1>11, <1>14 DEF n, D, op, r, Run


\* The leads of a list that are dialled.
Dialled(i, out) == Audience!ToSet(audienceLists[i]) \cap Audience!ToSet(out)

Apart == \A i, j \in 1..Len(audienceLists) :
           i # j => Audience!ToSet(audienceLists[i])
                      \cap Audience!ToSet(audienceLists[j]) = {}

\* After k turns: who is dialled is dialled once, from a list; a list that is
\* not through has as many leads dialled as it had turns, and without common
\* leads no list has more.
Rounds(out, k) ==
  /\ Audience!IsInjective(out)
  /\ Audience!ToSet(out)
       \subseteq UNION {Audience!ToSet(audienceLists[i]) :
                        i \in 1..Len(audienceLists)}
  /\ \A i \in 1..Len(audienceLists) :
       /\ Dialled(i, out) # Audience!ToSet(audienceLists[i])
            => Turns(i, k, Len(audienceLists)) <= Cardinality(Dialled(i, out))
       /\ Apart
           => Cardinality(Dialled(i, out)) <= Turns(i, k, Len(audienceLists))

\* The leads of a list are finitely many, as many as it is long at most.
LEMMA LeadsOfList ==
  ASSUME NEW s \in Seq(Audience!Lead)
  PROVE  /\ IsFiniteSet(Audience!ToSet(s))
         /\ Cardinality(Audience!ToSet(s)) \in Nat
         /\ Cardinality(Audience!ToSet(s)) <= Len(s)
<1>1. s \in Surjection(1..Len(s), Audience!ToSet(s))
  <2>1. s \in [1..Len(s) -> Audience!ToSet(s)]
    BY InSeq
  <2> QED
    BY <2>1, InSeq DEF Surjection
<1>2. /\ IsFiniteSet(1..Len(s)) /\ Cardinality(1..Len(s)) = Len(s)
      /\ Len(s) \in Nat
  <2>1. Len(s) \in Nat
    OBVIOUS
  <2> QED
    BY <2>1, FS_Interval
<1> QED
  BY <1>1, <1>2, FS_Surjection, FS_CardinalityType

LEMMA DialledCount ==
  ASSUME audienceLists \in Seq(Seq(Audience!Lead)),
         NEW i \in 1..Len(audienceLists), NEW out
  PROVE  /\ IsFiniteSet(Dialled(i, out))
         /\ Cardinality(Dialled(i, out)) \in Nat
         /\ Cardinality(Dialled(i, out))
              <= Cardinality(Audience!ToSet(audienceLists[i]))
         /\ Cardinality(Audience!ToSet(audienceLists[i])) \in Nat
         /\ Cardinality(Dialled(i, out))
              = Cardinality(Audience!ToSet(audienceLists[i]))
              => Dialled(i, out) = Audience!ToSet(audienceLists[i])
         /\ \A t : Dialled(i, t) \subseteq Dialled(i, out)
              => /\ Cardinality(Dialled(i, t)) \in Nat
                 /\ Cardinality(Dialled(i, t)) <= Cardinality(Dialled(i, out))
         /\ \A x : x \notin Dialled(i, out)
              => Cardinality(Dialled(i, out) \cup {x})
                   = Cardinality(Dialled(i, out)) + 1
<1>1. audienceLists[i] \in Seq(Audience!Lead)
  OBVIOUS
<1>2. Dialled(i, out) \in SUBSET Audience!ToSet(audienceLists[i])
  BY DEF Dialled
<1>3. IsFiniteSet(Audience!ToSet(audienceLists[i]))
  BY <1>1, LeadsOfList
<1>4. IsFiniteSet(Dialled(i, out))
  BY <1>2, <1>3, FS_Subset
<1>5. ASSUME NEW t, Dialled(i, t) \subseteq Dialled(i, out)
      PROVE  /\ Cardinality(Dialled(i, t)) \in Nat
             /\ Cardinality(Dialled(i, t)) <= Cardinality(Dialled(i, out))
  BY <1>4, <1>5, FS_Subset, FS_CardinalityType
<1> QED
  BY <1>2, <1>3, <1>4, <1>5, FS_Subset, FS_CardinalityType, FS_AddElement

LEMMA RoundsGoOn ==
  ASSUME audienceLists \in Seq(Seq(Audience!Lead)), Len(audienceLists) > 0,
         NEW k \in Nat \ {0},
         NEW out \in Seq(Audience!Lead), Rounds(out, k - 1)
  PROVE  Rounds(Audience!Turn(out, ((k - 1) % Len(audienceLists)) + 1), k)
<1> DEFINE m == Len(audienceLists)
           h == ((k - 1) % m) + 1
           new == Audience!Turn(out, h)
<1>1. /\ m \in Nat \ {0} /\ h \in 1..m
      /\ \A i \in 1..m :
           /\ Turns(i, k, m) = Turns(i, k - 1, m) + (IF h = i THEN 1 ELSE 0)
           /\ Turns(i, k - 1, m) \in Nat
  <2>1. m \in Nat \ {0} /\ k - 1 \in Nat
    OBVIOUS
  <2>2. h \in 1..m /\ \A i \in 1..m :
          Turns(i, k, m) = Turns(i, k - 1, m) + (IF h = i THEN 1 ELSE 0)
    BY <2>1, TurnsGoAround
  <2>3. \A i \in 1..m : Turns(i, k - 1, m) \in Nat
    BY <2>1, TurnsAreEven
  <2> HIDE DEF m, h
  <2> QED
    BY <2>1, <2>2, <2>3
<1> HIDE DEF h
<1>2. \/ /\ Audience!ToSet(audienceLists[h]) \subseteq Audience!ToSet(out)
         /\ new = out
      \/ \E x \in Audience!ToSet(audienceLists[h]) \ Audience!ToSet(out) :
           new = Append(out, x)
  BY <1>1, TurnIs
<1> HIDE DEF new, m
<1>3. CASE Audience!ToSet(audienceLists[h]) \subseteq Audience!ToSet(out)
        /\ new = out
  <2>1. Dialled(h, out) = Audience!ToSet(audienceLists[h])
    BY <1>3 DEF Dialled
  <2>2. ASSUME NEW i \in 1..m
        PROVE  /\ Dialled(i, out) # Audience!ToSet(audienceLists[i])
                    => Turns(i, k, m) <= Cardinality(Dialled(i, out))
               /\ Apart => Cardinality(Dialled(i, out)) <= Turns(i, k, m)
    <3>1. /\ Dialled(i, out) # Audience!ToSet(audienceLists[i])
               => Turns(i, k - 1, m) <= Cardinality(Dialled(i, out))
          /\ Apart => Cardinality(Dialled(i, out)) <= Turns(i, k - 1, m)
      BY DEF Rounds, m
    <3>2. Cardinality(Dialled(i, out)) \in Nat
      BY DialledCount DEF m
    <3>3. Turns(i, k - 1, m) \in Nat
          /\ Turns(i, k, m) = Turns(i, k - 1, m) + (IF h = i THEN 1 ELSE 0)
      BY <1>1
    <3> QED
      BY <2>1, <3>1, <3>2, <3>3
  <2>3. Rounds(out, k)
    BY <2>2, Zenon DEF Rounds, m
  <2> QED
    BY <1>3, <2>3 DEF new, h, m
<1>4. ASSUME NEW x \in Audience!ToSet(audienceLists[h]) \ Audience!ToSet(out),
             new = Append(out, x)
      PROVE  Rounds(new, k)
  <2>1. audienceLists[h] \in Seq(Audience!Lead) /\ x \in Audience!Lead
    <3>1. audienceLists[h] \in Seq(Audience!Lead)
      BY <1>1 DEF m
    <3> QED
      BY <3>1, InSeq
  <2>2. /\ Audience!ToSet(new) = Audience!ToSet(out) \cup {x}
        /\ Audience!IsInjective(new)
    BY <1>4, <2>1, Appended DEF Rounds
  <2>3. Audience!ToSet(new)
          \subseteq UNION {Audience!ToSet(audienceLists[i]) :
                           i \in 1..Len(audienceLists)}
    BY <1>1, <1>4, <2>2 DEF Rounds, m
  <2>4. Dialled(h, new) = Dialled(h, out) \cup {x} /\ x \notin Dialled(h, out)
    BY <1>4, <2>2 DEF Dialled
  <2>5. Dialled(h, out) # Audience!ToSet(audienceLists[h])
    BY <1>4, <2>4
  <2>6. ASSUME NEW i \in 1..m, i # h
        PROVE  /\ Dialled(i, out) \subseteq Dialled(i, new)
               /\ Dialled(i, new) \subseteq Audience!ToSet(audienceLists[i])
               /\ Apart => Dialled(i, new) = Dialled(i, out)
    <3>1. Apart => x \notin Audience!ToSet(audienceLists[i])
      BY <1>1, <1>4, <2>6 DEF Apart, m
    <3> QED
      BY <2>2, <3>1 DEF Dialled
  <2>7. ASSUME NEW i \in 1..m
        PROVE  /\ Dialled(i, new) # Audience!ToSet(audienceLists[i])
                    => Turns(i, k, m) <= Cardinality(Dialled(i, new))
               /\ Apart => Cardinality(Dialled(i, new)) <= Turns(i, k, m)
    <3>1. /\ Dialled(i, out) # Audience!ToSet(audienceLists[i])
               => Turns(i, k - 1, m) <= Cardinality(Dialled(i, out))
          /\ Apart => Cardinality(Dialled(i, out)) <= Turns(i, k - 1, m)
      BY DEF Rounds, m
    <3>2. Cardinality(Dialled(i, out)) \in Nat /\ Turns(i, k - 1, m) \in Nat
      BY <1>1, DialledCount DEF m
    <3>3. CASE i = h
      <4>1. Cardinality(Dialled(h, new)) = Cardinality(Dialled(h, out)) + 1
        BY <1>1, <2>4, DialledCount DEF m
      <4>2. Turns(h, k, m) = Turns(h, k - 1, m) + 1
        BY <1>1
      <4> QED
        BY <2>5, <3>1, <3>2, <3>3, <4>1, <4>2
    <3>4. CASE i # h
      <4>1. Turns(i, k, m) = Turns(i, k - 1, m)
        BY <1>1, <3>2, <3>4
      <4>2. Cardinality(Dialled(i, out)) <= Cardinality(Dialled(i, new))
              /\ Cardinality(Dialled(i, new)) \in Nat
        BY <2>6, <3>4, DialledCount DEF m
      <4>3. Dialled(i, new) # Audience!ToSet(audienceLists[i])
              => Dialled(i, out) # Audience!ToSet(audienceLists[i])
        BY <2>6, <3>4
      <4> QED
        BY <2>6, <3>1, <3>2, <3>4, <4>1, <4>2, <4>3
    <3> QED
      BY <3>3, <3>4
  <2> QED
    BY <2>2, <2>3, <2>7 DEF Rounds, m
<1> QED
  BY <1>2, <1>3, <1>4 DEF new, h, m

\* A prefix of what came out is what had come out at an earlier turn.
LEMMA PrefixKept ==
  ASSUME NEW s \in Seq(Audience!Lead), NEW x \in Audience!Lead,
         NEW n \in 0..Len(s)
  PROVE  SubSeq(Append(s, x), 1, n) = SubSeq(s, 1, n)
<1>1. /\ Append(s, x) \in Seq(Audience!Lead) /\ Len(Append(s, x)) = Len(s) + 1
      /\ Len(s) \in Nat
      /\ \A i \in 1..Len(s) : Append(s, x)[i] = s[i] /\ s[i] \in Audience!Lead
  BY Appended
<1>2. /\ SubSeq(s, 1, n) \in Seq(Audience!Lead) /\ Len(SubSeq(s, 1, n)) = n
      /\ \A i \in 1..n : SubSeq(s, 1, n)[i] = s[i]
  BY <1>1
<1>3. /\ SubSeq(Append(s, x), 1, n) \in Seq(Audience!Lead)
      /\ Len(SubSeq(Append(s, x), 1, n)) = n
      /\ \A i \in 1..n : SubSeq(Append(s, x), 1, n)[i] = Append(s, x)[i]
  BY <1>1
<1> QED
  BY <1>1, <1>2, <1>3, SeqEqual

LEMMA PrefixOfRun ==
  ASSUME NEW n \in Nat, NEW f \in [0..n -> Seq(Audience!Lead)], f[0] = <<>>,
         \A k \in 1..n : \/ f[k] = f[k - 1]
                         \/ \E x \in Audience!Lead : f[k] = Append(f[k - 1], x)
  PROVE  \A p \in 0..Len(f[n]) : \E j \in 0..n : SubSeq(f[n], 1, p) = f[j]
<1> DEFINE Known(k) ==
             \A p \in 0..Len(f[k]) : \E j \in 0..k : SubSeq(f[k], 1, p) = f[j]
           S == {k \in 0..n : Known(k)}
<1>1. 0 \in S
  <2>1. Len(f[0]) = 0 /\ 0 \in 0..n /\ 0 \in 0..0
    OBVIOUS
  <2>2. SubSeq(f[0], 1, 0) = f[0]
    BY <2>1, SubSeqEmpty
  <2>3. \A p \in 0..Len(f[0]) : p = 0
    BY <2>1
  <2> QED
    BY <2>1, <2>2, <2>3
<1>2. ASSUME NEW k \in 1..n, k - 1 \in S PROVE k \in S
  <2>1. /\ k \in 0..n /\ k - 1 \in 0..n /\ k \in 0..k
        /\ \A j \in 0..(k - 1) : j \in 0..k
    OBVIOUS
  <2>2. f[k] \in Seq(Audience!Lead) /\ f[k - 1] \in Seq(Audience!Lead)
    BY <2>1
  <2>3. Known(k - 1)
    BY <1>2
  <2>4. CASE f[k] = f[k - 1]
    BY <2>1, <2>3, <2>4
  <2>5. ASSUME NEW x \in Audience!Lead, f[k] = Append(f[k - 1], x)
        PROVE  Known(k)
    <3> SUFFICES ASSUME NEW p \in 0..Len(f[k])
                 PROVE  \E j \in 0..k : SubSeq(f[k], 1, p) = f[j]
      OBVIOUS
    <3>1. Len(f[k]) = Len(f[k - 1]) + 1 /\ Len(f[k - 1]) \in Nat
      BY <2>2, <2>5, Appended
    <3>2. CASE p \in 0..Len(f[k - 1])
      <4>1. SubSeq(f[k], 1, p) = SubSeq(f[k - 1], 1, p)
        <5>1. SubSeq(Append(f[k - 1], x), 1, p) = SubSeq(f[k - 1], 1, p)
          BY <2>2, <3>2, PrefixKept
        <5> QED
          BY <2>5, <5>1
      <4> QED
        BY <2>1, <2>3, <3>2, <4>1
    <3>3. CASE p = Len(f[k])
      <4>1. SubSeq(f[k], 1, p) = f[k]
        BY <2>2, <3>3, SubSeqFull
      <4> QED
        BY <2>1, <4>1
    <3> QED
      BY <3>1, <3>2, <3>3
  <2> HIDE DEF Known
  <2>6. f[k] = f[k - 1] \/ \E x \in Audience!Lead : f[k] = Append(f[k - 1], x)
    OBVIOUS
  <2>7. Known(k)
    BY <2>4, <2>5, <2>6
  <2> QED
    BY <2>1, <2>7
<1> HIDE DEF S
<1>3. n \in S
  BY <1>1, <1>2, UpTo
<1> QED
  BY <1>3 DEF S

\* Everybody is dialled, once, and at any moment no list without a common lead
\* is more than one lead ahead of one that is not through.
LEMMA InterleavedIs ==
  ASSUME audienceLists \in Seq(Seq(Audience!Lead)), Len(audienceLists) > 0
  PROVE  /\ Audience!Interleaved \in Seq(Audience!Lead)
         /\ Audience!IsInjective(Audience!Interleaved)
         /\ Audience!ToSet(Audience!Interleaved)
              = UNION {Audience!ToSet(audienceLists[i]) :
                       i \in DOMAIN audienceLists}
         /\ Apart
             => \A n \in 0..Len(Audience!Interleaved),
                   i, j \in 1..Len(audienceLists) :
              LET out == SubSeq(Audience!Interleaved, 1, n)
              IN  Dialled(i, out) # Audience!ToSet(audienceLists[i])
                    => Cardinality(Dialled(j, out))
                         <= Cardinality(Dialled(i, out)) + 1
<1> DEFINE m == Len(audienceLists)
           n == m * Audience!Loaded
<1>1. /\ m \in Nat \ {0}
      /\ Audience!Loaded \in Nat
      /\ n \in Nat
      /\ DOMAIN audienceLists = 1..m
  BY LoadedIs
<1>2. PICK f \in [0..n -> Seq(Audience!Lead)] :
        /\ f[0] = <<>> /\ f[n] = Audience!Interleaved
        /\ \A k \in 1..n : f[k] = Audience!Turn(f[k - 1], ((k - 1) % m) + 1)
  BY TurnsRun
<1> HIDE DEF m, n
<1> DEFINE S == {k \in 0..n : Rounds(f[k], k)}
<1>3. 0 \in S
  <2>1. \A i \in 1..m : /\ Dialled(i, <<>>) = {} /\ Turns(i, 0, m) = 0
                        /\ Cardinality(Dialled(i, <<>>)) = 0
    BY <1>1, InSeq, TurnsAreEven, FS_EmptySet DEF Dialled
  <2>2. Rounds(<<>>, 0)
    BY <2>1, InSeq DEF Rounds, m
  <2> QED
    BY <1>1, <1>2, <2>2
<1>4. ASSUME NEW k \in 1..n, k - 1 \in S PROVE k \in S
  <2>1. k \in Nat \ {0} /\ k - 1 \in 0..n /\ k \in 0..n
    BY <1>1
  <2>2. /\ f[k - 1] \in Seq(Audience!Lead) /\ Rounds(f[k - 1], k - 1)
        /\ f[k] = Audience!Turn(f[k - 1], ((k - 1) % m) + 1)
    BY <1>2, <1>4, <2>1
  <2>3. Rounds(f[k], k)
    BY <1>1, <2>1, <2>2, RoundsGoOn DEF m
  <2> QED
    BY <2>1, <2>3
<1> HIDE DEF S
<1>5. ASSUME NEW k \in 0..n PROVE Rounds(f[k], k)
  <2>1. k \in Nat /\ \A j \in 1..k : j \in 1..n
    BY <1>1
  <2>2. k \in S
    BY <1>3, <1>4, <2>1, UpTo
  <2> QED
    BY <2>2 DEF S
<1>6. /\ Audience!Interleaved \in Seq(Audience!Lead)
      /\ Rounds(Audience!Interleaved, n)
  BY <1>1, <1>2, <1>5
<1>7. ASSUME NEW i \in 1..m
      PROVE  Audience!ToSet(audienceLists[i])
                     \subseteq Audience!ToSet(Audience!Interleaved)
  <2>1. /\ Cardinality(Audience!ToSet(audienceLists[i])) <= Audience!Loaded
        /\ Cardinality(Audience!ToSet(audienceLists[i])) \in Nat
    <3>1. /\ audienceLists[i] \in Seq(Audience!Lead)
          /\ Len(audienceLists[i]) \in Nat
      BY DEF m
    <3>2. Len(audienceLists[i]) <= Audience!Loaded
      BY LoadedIs DEF m
    <3> QED
      BY <1>1, <3>1, <3>2, LeadsOfList
  <2>2. Turns(i, n, m) = Audience!Loaded
    BY <1>1, TurnsAreEven DEF n
  <2>3. Dialled(i, Audience!Interleaved) = Audience!ToSet(audienceLists[i])
    <3> SUFFICES ASSUME Dialled(i, Audience!Interleaved)
                        # Audience!ToSet(audienceLists[i]) PROVE FALSE
      OBVIOUS
    <3>1. Audience!Loaded <= Cardinality(Dialled(i, Audience!Interleaved))
      BY <1>6, <2>2 DEF Rounds, m
    <3>2. /\ Cardinality(Dialled(i, Audience!Interleaved)) \in Nat
          /\ Cardinality(Dialled(i, Audience!Interleaved))
               <= Cardinality(Audience!ToSet(audienceLists[i]))
          /\ Cardinality(Dialled(i, Audience!Interleaved))
               # Cardinality(Audience!ToSet(audienceLists[i]))
      BY DialledCount DEF m
    <3> QED
      BY <1>1, <2>1, <3>1, <3>2
  <2> QED
    BY <2>3 DEF Dialled
<1>8. Audience!ToSet(Audience!Interleaved)
        = UNION {Audience!ToSet(audienceLists[i]) : i \in DOMAIN audienceLists}
  <2>1. Audience!ToSet(Audience!Interleaved)
          \subseteq UNION {Audience!ToSet(audienceLists[i]) : i \in 1..m}
    BY <1>6 DEF Rounds, m
  <2> QED
    BY <1>1, <1>7, <2>1
<1>9. ASSUME Apart, NEW p \in 0..Len(Audience!Interleaved), NEW i \in 1..m,
             NEW j \in 1..m,
             Dialled(i, SubSeq(Audience!Interleaved, 1, p))
               # Audience!ToSet(audienceLists[i])
      PROVE  Cardinality(Dialled(j, SubSeq(Audience!Interleaved, 1, p)))
               <= Cardinality(Dialled(i, SubSeq(Audience!Interleaved, 1, p)))
                 + 1
  <2>1. ASSUME NEW k \in 1..n
        PROVE  \/ f[k] = f[k - 1]
               \/ \E x \in Audience!Lead : f[k] = Append(f[k - 1], x)
    <3>1. k - 1 \in Nat /\ k \in Nat \ {0} /\ k - 1 \in 0..n
      BY <1>1
    <3>2. ((k - 1) % m) + 1 \in 1..m
      BY <1>1, <3>1, TurnsGoAround
    <3>3. /\ f[k - 1] \in Seq(Audience!Lead)
          /\ f[k] = Audience!Turn(f[k - 1], ((k - 1) % m) + 1)
      BY <1>2, <3>1
    <3>4. \A h \in 1..m :
            Audience!ToSet(audienceLists[h]) \subseteq Audience!Lead
      <4>1. \A h \in 1..m : audienceLists[h] \in Seq(Audience!Lead)
        BY DEF m
      <4> QED
        BY <4>1, InSeq
    <3> DEFINE h == ((k - 1) % m) + 1
    <3>5. /\ h \in 1..Len(audienceLists)
          /\ Audience!ToSet(audienceLists[h]) \subseteq Audience!Lead
      BY <3>2, <3>4 DEF m
    <3> HIDE DEF h
    <3>6. \/ Audience!Turn(f[k - 1], h) = f[k - 1]
          \/ \E x \in Audience!ToSet(audienceLists[h])
                      \ Audience!ToSet(f[k - 1]) :
               Audience!Turn(f[k - 1], h) = Append(f[k - 1], x)
      <4>1. f[k - 1] \in Seq(Audience!Lead)
        BY <3>3
      <4> QED
        BY <3>5, <4>1, TurnIs, Zenon
    <3> QED
      BY <3>3, <3>5, <3>6 DEF h
  <2>2. PICK k \in 0..n : SubSeq(Audience!Interleaved, 1, p) = f[k]
    BY <1>1, <1>2, <2>1, PrefixOfRun
  <2>3. Rounds(f[k], k) /\ k \in Nat
    BY <1>1, <1>5
  <2>4. /\ Turns(i, k, m) <= Cardinality(Dialled(i, f[k]))
        /\ Cardinality(Dialled(j, f[k])) <= Turns(j, k, m)
    BY <1>9, <2>2, <2>3 DEF Rounds, m
  <2>5. /\ Turns(i, k, m) \in Nat /\ Turns(j, k, m) \in Nat
        /\ Turns(j, k, m) <= Turns(i, k, m) + 1
    BY <1>1, <2>3, TurnsAreEven
  <2>6. /\ Cardinality(Dialled(i, f[k])) \in Nat
        /\ Cardinality(Dialled(j, f[k])) \in Nat
    BY DialledCount DEF m
  <2>7. Cardinality(Dialled(j, f[k])) <= Cardinality(Dialled(i, f[k])) + 1
    BY <2>4, <2>5, <2>6
  <2> QED
    BY <2>2, <2>7, Zenon
<1> QED
  BY <1>6, <1>8, <1>9 DEF Rounds, m


\* The leads in L, as they stand.
LEMMA OnlyIs ==
  ASSUME NEW seq \in Seq(Audience!Lead), NEW L
  PROVE  /\ Audience!Only(seq, L) \in Seq(Audience!Lead)
         /\ Audience!ToSet(Audience!Only(seq, L)) = Audience!ToSet(seq) \cap L
         /\ Audience!IsInjective(seq)
              => Audience!IsInjective(Audience!Only(seq, L))
<1>1. PICK f \in [0..Len(seq) -> Seq(Audience!Lead)] :
        /\ f[0] = <<>> /\ f[Len(seq)] = Audience!Only(seq, L)
        /\ \A k \in 1..Len(seq) : f[k] = Taken(f[k - 1], seq[k], L)
  BY OnlyRuns
<1> DEFINE S == {k \in 0..Len(seq) :
                   /\ Audience!ToSet(f[k]) = {seq[i] : i \in 1..k} \cap L
                   /\ Audience!IsInjective(seq) => Audience!IsInjective(f[k])}
<1>2. Len(seq) \in Nat /\ \A k \in 1..Len(seq) : seq[k] \in Audience!Lead
  OBVIOUS
<1>3. 0 \in S
  BY <1>1, <1>2, InSeq
<1>4. ASSUME NEW k \in 1..Len(seq), k - 1 \in S PROVE k \in S
  <2>1. k - 1 \in 0..Len(seq) /\ k \in 0..Len(seq)
    BY <1>2
  <2>2. /\ f[k - 1] \in Seq(Audience!Lead) /\ seq[k] \in Audience!Lead
        /\ f[k] = IF seq[k] \in L THEN Append(f[k - 1], seq[k]) ELSE f[k - 1]
    BY <1>1, <1>2, <2>1 DEF Taken
  <2>3. {seq[i] : i \in 1..k} = {seq[i] : i \in 1..(k - 1)} \cup {seq[k]}
    <3>1. 1..k = (1..(k - 1)) \cup {k}
      OBVIOUS
    <3> QED
      BY <3>1
  <2>4. Audience!ToSet(f[k - 1]) = {seq[i] : i \in 1..(k - 1)} \cap L
    BY <1>4
  <2>5. Audience!ToSet(f[k]) = {seq[i] : i \in 1..k} \cap L
    <3>1. Audience!ToSet(Append(f[k - 1], seq[k]))
            = Audience!ToSet(f[k - 1]) \cup {seq[k]}
      BY <2>2, Appended
    <3>2. CASE seq[k] \in L
      BY <2>2, <2>3, <2>4, <3>1, <3>2
    <3>3. CASE seq[k] \notin L
      BY <2>2, <2>3, <2>4, <3>3
    <3> QED
      BY <3>2, <3>3
  <2>6. ASSUME Audience!IsInjective(seq) PROVE Audience!IsInjective(f[k])
    <3>1. Audience!IsInjective(f[k - 1])
      BY <1>4, <2>6
    <3>2. \A i \in 1..(k - 1) : seq[i] # seq[k]
      BY <1>2, <2>6, InSeq DEF Audience!IsInjective
    <3>3. seq[k] \notin Audience!ToSet(f[k - 1])
      BY <2>4, <3>2
    <3> QED
      BY <2>2, <3>1, <3>3, Appended
  <2> QED
    BY <2>1, <2>5, <2>6
<1> HIDE DEF S
<1>5. Len(seq) \in S
  BY <1>2, <1>3, <1>4, UpTo
<1> QED
  BY <1>1, <1>2, <1>5, InSeq DEF S

\* The leads of one zone after those of the zones before it.
Sorted(s) ==
  \A i, j \in DOMAIN s :
    i < j => AudienceParams.Zone[s[i]] <= AudienceParams.Zone[s[j]]

LEMMA Joined ==
  ASSUME NEW s \in Seq(Audience!Lead), NEW t \in Seq(Audience!Lead),
         AudienceParams.Zone \in [Audience!Lead -> Nat]
  PROVE  /\ s \o t \in Seq(Audience!Lead)
         /\ Audience!ToSet(s \o t) = Audience!ToSet(s) \cup Audience!ToSet(t)
         /\ Audience!IsInjective(s) /\ Audience!IsInjective(t)
              /\ Audience!ToSet(s) \cap Audience!ToSet(t) = {}
              => Audience!IsInjective(s \o t)
         /\ Sorted(s) /\ Sorted(t)
              /\ (\A x \in Audience!ToSet(s), y \in Audience!ToSet(t) :
                   AudienceParams.Zone[x] <= AudienceParams.Zone[y])
              => Sorted(s \o t)
<1> DEFINE m == Len(s)
           n == Len(t)
           u == s \o t
<1>1. /\ m \in Nat /\ n \in Nat /\ Len(u) = m + n /\ u \in Seq(Audience!Lead)
      /\ \A i \in 1..m : u[i] = s[i] /\ s[i] \in Audience!ToSet(s)
      /\ \A i \in 1..n : u[m + i] = t[i] /\ t[i] \in Audience!ToSet(t)
      /\ DOMAIN s = 1..m /\ DOMAIN t = 1..n /\ DOMAIN u = 1..(m + n)
  BY InSeq
<1> HIDE DEF m, n, u
<1>2. ASSUME NEW i \in 1..(m + n)
      PROVE  \/ i \in 1..m
             \/ \E j \in 1..n : i = m + j
  <2>1. i \notin 1..m => i - m \in 1..n /\ i = m + (i - m)
    BY <1>1
  <2> QED
    BY <2>1
<1>3. Audience!ToSet(u) = Audience!ToSet(s) \cup Audience!ToSet(t)
  <2>1. \A i \in 1..m : i \in 1..(m + n)
    BY <1>1
  <2>2. \A i \in 1..n : m + i \in 1..(m + n)
    BY <1>1
  <2>3. Audience!ToSet(u) \subseteq Audience!ToSet(s) \cup Audience!ToSet(t)
    <3>1. ASSUME NEW i \in 1..(m + n)
          PROVE  u[i] \in Audience!ToSet(s) \cup Audience!ToSet(t)
      BY <1>1, <1>2
    <3> QED
      BY <1>1, <3>1 DEF Audience!ToSet
  <2>4. Audience!ToSet(s) \subseteq Audience!ToSet(u)
    BY <1>1, <2>1 DEF Audience!ToSet
  <2>5. Audience!ToSet(t) \subseteq Audience!ToSet(u)
    <3>1. ASSUME NEW i \in 1..n PROVE t[i] \in Audience!ToSet(u)
      <4>1. t[i] = u[m + i] /\ m + i \in DOMAIN u
        BY <1>1, <2>2
      <4> QED
        BY <4>1 DEF Audience!ToSet
    <3> QED
      BY <1>1, <3>1 DEF Audience!ToSet
  <2> QED
    BY <2>3, <2>4, <2>5
<1>4. ASSUME Audience!IsInjective(s), Audience!IsInjective(t),
             Audience!ToSet(s) \cap Audience!ToSet(t) = {}
      PROVE  Audience!IsInjective(u)
  <2>1. /\ \A i, j \in 1..m : s[i] = s[j] => i = j
        /\ \A i, j \in 1..n : t[i] = t[j] => i = j
    BY <1>1, <1>4 DEF Audience!IsInjective
  <2>2. \A i \in 1..m, j \in 1..n : s[i] # t[j]
    BY <1>1, <1>4
  <2>3. ASSUME NEW i \in 1..(m + n), NEW j \in 1..(m + n), u[i] = u[j]
        PROVE  i = j
    <3>1. CASE i \in 1..m /\ j \in 1..m
      BY <1>1, <2>1, <2>3, <3>1
    <3>2. ASSUME NEW b \in 1..n, i \in 1..m, j = m + b PROVE FALSE
      BY <1>1, <2>2, <2>3, <3>2
    <3>3. ASSUME NEW a \in 1..n, i = m + a, j \in 1..m PROVE FALSE
      BY <1>1, <2>2, <2>3, <3>3
    <3>4. ASSUME NEW a \in 1..n, NEW b \in 1..n, i = m + a, j = m + b
          PROVE  i = j
      <4>1. t[a] = t[b]
        BY <1>1, <2>3, <3>4
      <4> QED
        BY <2>1, <3>4, <4>1
    <3> QED
      BY <1>2, <3>1, <3>2, <3>3, <3>4
  <2> QED
    BY <1>1, <2>3 DEF Audience!IsInjective
<1>5. ASSUME Sorted(s), Sorted(t),
             \A x \in Audience!ToSet(s), y \in Audience!ToSet(t) :
               AudienceParams.Zone[x] <= AudienceParams.Zone[y]
      PROVE  Sorted(u)
  <2>1. /\ \A i, j \in 1..m :
             i < j => AudienceParams.Zone[s[i]] <= AudienceParams.Zone[s[j]]
        /\ \A i, j \in 1..n :
             i < j => AudienceParams.Zone[t[i]] <= AudienceParams.Zone[t[j]]
    BY <1>1, <1>5 DEF Sorted
  <2>2. ASSUME NEW i \in 1..(m + n), NEW j \in 1..(m + n), i < j
        PROVE  AudienceParams.Zone[u[i]] <= AudienceParams.Zone[u[j]]
    <3>1. CASE i \in 1..m /\ j \in 1..m
      BY <1>1, <2>1, <2>2, <3>1
    <3>2. CASE i \in 1..m /\ j \notin 1..m
      <4>1. PICK b \in 1..n : j = m + b
        BY <1>2, <3>2
      <4>2. u[i] \in Audience!ToSet(s) /\ u[j] \in Audience!ToSet(t)
        BY <1>1, <3>2, <4>1
      <4> QED
        BY <1>5, <4>2
    <3>3. CASE i \notin 1..m
      <4>1. PICK a \in 1..n : i = m + a
        BY <1>2, <3>3
      <4>2. PICK b \in 1..n : j = m + b
        <5>1. j \notin 1..m
          BY <1>1, <2>2, <4>1
        <5> QED
          BY <1>2, <5>1
      <4>3. a < b
        BY <1>1, <2>2, <4>1, <4>2
      <4> QED
        BY <1>1, <2>1, <4>1, <4>2, <4>3
    <3> QED
      BY <3>1, <3>2, <3>3
  <2> QED
    BY <1>1, <2>2 DEF Sorted
<1> QED
  BY <1>1, <1>3, <1>4, <1>5 DEF u

LEMMA ZonesRun ==
  ASSUME NEW seq \in Seq(Audience!Lead),
         AudienceParams.Leads \in Seq(Audience!Lead)
  PROVE  \E f \in [0..Len(AudienceParams.Leads) -> Seq(Audience!Lead)] :
           /\ f[0] = <<>>
           /\ f[Len(AudienceParams.Leads)] = Audience!ByZone(seq)
           /\ \A k \in 1..Len(AudienceParams.Leads) :
                f[k] = f[k - 1]
                  \o Audience!Only(
                       seq, {l \in Audience!Lead : AudienceParams.Zone[l] = k})
<1> DEFINE In(z) == Audience!Only(
                      seq, {l \in Audience!Lead : AudienceParams.Zone[l] = z})
           zones == [z \in DOMAIN AudienceParams.Leads |-> z]
           n == Len(AudienceParams.Leads)
           D == Seq(Audience!Lead)
           op(k, out) == out \o In(zones[k])
           h == [p \in (1..n) \X D |-> op(p[1], p[2])]
           Obeys(it) == it = [s \in SUBSET (DOMAIN zones) |->
                              IF s = {} THEN <<>>
                              ELSE op(Audience!Max(s),
                                      it[s \ {Audience!Max(s)}])]
<1>1. Audience!ByZone(seq) = (CHOOSE it : Obeys(it))[DOMAIN zones]
  BY Zenon DEF Audience!ByZone, Audience!FoldLeft, Audience!MapThenFoldSet
<1>2. DOMAIN zones = 1..n /\ n \in Nat /\ <<>> \in D
  OBVIOUS
<1>3. \A k \in 1..n, d \in D : op(k, d) \in D
  <2>1. \A L : Audience!Only(seq, L) \in D
    BY OnlyIs
  <2>2. \A k : In(zones[k]) \in D
    BY <2>1
  <2>3. \A d, e \in D : d \o e \in D
    OBVIOUS
  <2> HIDE DEF D, zones, In
  <2> QED
    BY <2>2, <2>3
<1>14. \A k \in 1..n : zones[k] = k
  BY <1>2
<1> HIDE DEF n, D, op, zones, In
<1>4. /\ h \in [(1..n) \X D -> D]
      /\ \A k \in 1..n, d \in D : h[<<k, d>>] = op(k, d)
  BY <1>3
<1> HIDE DEF h
<1>5. PICK g \in [SUBSET (1..n) -> D] : Recursion(g, n, D, <<>>, h)
  <2>1. n \in Nat /\ <<>> \in D /\ h \in [(1..n) \X D -> D]
    BY <1>2, <1>4
  <2> QED
    BY <2>1, Iterates, Zenon
<1>6. \A s \in SUBSET (1..n) : s # {} => Audience!Max(s) \in 1..n
  BY MaxIn, <1>2
<1>7. Obeys(g)
  BY <1>2, <1>4, <1>5, <1>6 DEF Recursion
<1>8. Obeys(CHOOSE it : Obeys(it))
  <2> HIDE DEF Obeys
  <2> QED
    BY <1>7, Zenon
<1> DEFINE r == CHOOSE it : Obeys(it)
<1> HIDE DEF r
<1>9. Recursion(r, n, D, <<>>, h)
  BY <1>2, <1>4, <1>6, <1>8 DEF r, Recursion
<1>10. PICK f : Run(f, n, D, <<>>, h, r[1..n])
  <2>1. n \in Nat /\ <<>> \in D /\ h \in [(1..n) \X D -> D]
    BY <1>2, <1>4
  <2> QED
    BY <2>1, <1>9, Runs, Zenon
<1>11. \A k \in 1..n : f[k] = op(k, f[k - 1])
  <2>1. \A k \in 1..n : k - 1 \in 0..n
    BY <1>2
  <2>2. \A k \in 1..n : f[k - 1] \in D
    BY <1>10, <2>1 DEF Run
  <2> QED
    BY <2>2, <1>4, <1>10 DEF Run
<1>12. \A k \in 1..n : f[k] = f[k - 1] \o In(k)
  BY <1>14, <1>11 DEF op
<1>13. \A k \in 1..n :
         f[k] = f[k - 1]
           \o Audience!Only(
                seq, {l \in Audience!Lead : AudienceParams.Zone[l] = k})
  BY <1>12, Zenon DEF In
<1> QED
  BY <1>1, <1>2, <1>10, <1>13 DEF n, D, r, Run


LEMMA ByZoneIs ==
  ASSUME Audience!AudienceAssumption, NEW seq \in Seq(Audience!Lead),
         Audience!IsInjective(seq)
  PROVE  /\ Audience!ByZone(seq) \in Seq(Audience!Lead)
         /\ Audience!IsInjective(Audience!ByZone(seq))
         /\ Audience!ToSet(Audience!ByZone(seq)) = Audience!ToSet(seq)
         /\ Sorted(Audience!ByZone(seq))
<1> DEFINE n == Len(AudienceParams.Leads)
           In(z) == Audience!Only(
                      seq, {l \in Audience!Lead : AudienceParams.Zone[l] = z})
<1>1. /\ n \in Nat /\ AudienceParams.Leads \in Seq(Audience!Lead)
      /\ AudienceParams.Zone \in [Audience!Lead -> Nat]
      /\ \A l \in Audience!Lead : AudienceParams.Zone[l] \in 1..n
      /\ Audience!ToSet(seq) \subseteq Audience!Lead
  BY InSeq DEF Audience!AudienceAssumption
<1>2. PICK f \in [0..n -> Seq(Audience!Lead)] :
        /\ f[0] = <<>> /\ f[n] = Audience!ByZone(seq)
        /\ \A k \in 1..n : f[k] = f[k - 1] \o In(k)
  BY <1>1, ZonesRun
<1>3. ASSUME NEW z
      PROVE  /\ In(z) \in Seq(Audience!Lead) /\ Audience!IsInjective(In(z))
             /\ Audience!ToSet(In(z))
                  = {l \in Audience!ToSet(seq) : AudienceParams.Zone[l] = z}
  BY <1>1, OnlyIs
<1> HIDE DEF n, In
<1> DEFINE S == {k \in 0..n : /\ Audience!IsInjective(f[k]) /\ Sorted(f[k])
                              /\ Audience!ToSet(f[k])
                                   = {l \in Audience!ToSet(seq) :
                                     AudienceParams.Zone[l] <= k}}
<1>4. 0 \in S
  <2>1. {l \in Audience!ToSet(seq) : AudienceParams.Zone[l] <= 0} = {}
    BY <1>1
  <2>2. Sorted(<<>>)
    BY DEF Sorted
  <2> QED
    BY <1>1, <1>2, <2>1, <2>2, InSeq
<1>5. ASSUME NEW k \in 1..n, k - 1 \in S PROVE k \in S
  <2>1. k - 1 \in 0..n /\ k \in 0..n /\ k \in Nat
    BY <1>1
  <2>2. f[k - 1] \in Seq(Audience!Lead) /\ f[k] = f[k - 1] \o In(k)
    BY <1>2, <2>1
  <2>3. /\ Audience!IsInjective(f[k - 1]) /\ Sorted(f[k - 1])
        /\ Audience!ToSet(f[k - 1])
             = {l \in Audience!ToSet(seq) : AudienceParams.Zone[l] <= k - 1}
    BY <1>5
  <2>4. /\ Audience!ToSet(f[k - 1]) \cap Audience!ToSet(In(k)) = {}
        /\ \A x \in Audience!ToSet(f[k - 1]), y \in Audience!ToSet(In(k)) :
             AudienceParams.Zone[x] <= AudienceParams.Zone[y]
        /\ Audience!ToSet(f[k - 1]) \cup Audience!ToSet(In(k))
             = {l \in Audience!ToSet(seq) : AudienceParams.Zone[l] <= k}
    <3>1. Audience!ToSet(In(k))
            = {l \in Audience!ToSet(seq) : AudienceParams.Zone[l] = k}
      BY <1>3
    <3>2. \A l \in Audience!ToSet(seq) :
            /\ AudienceParams.Zone[l] \in Nat
            /\ AudienceParams.Zone[l] <= k
                 <=> \/ AudienceParams.Zone[l] <= k - 1
                     \/ AudienceParams.Zone[l] = k
      BY <1>1, <2>1
    <3> QED
      BY <2>1, <2>3, <3>1, <3>2
  <2>5. Sorted(In(k))
    <3>1. \A i \in DOMAIN In(k) : AudienceParams.Zone[In(k)[i]] = k
      BY <1>3 DEF Audience!ToSet
    <3> QED
      BY <2>1, <3>1 DEF Sorted
  <2>6. Audience!IsInjective(f[k]) /\ Sorted(f[k])
        /\ Audience!ToSet(f[k])
             = Audience!ToSet(f[k - 1]) \cup Audience!ToSet(In(k))
    <3>1. In(k) \in Seq(Audience!Lead) /\ Audience!IsInjective(In(k))
      BY <1>3
    <3> QED
      BY <1>1, <2>2, <2>3, <2>4, <2>5, <3>1, Joined
  <2> QED
    BY <2>1, <2>4, <2>6
<1> HIDE DEF S
<1>6. n \in S
  BY <1>1, <1>4, <1>5, UpTo
<1>7. \A l \in Audience!ToSet(seq) : AudienceParams.Zone[l] <= n
  BY <1>1
<1> QED
  BY <1>1, <1>2, <1>6, <1>7 DEF S


\* What holds of the order a campaign dials, of which the leads of its lists
\* are.
Fair(o) ==
  /\ mix = "mixed" /\ Apart =>
       \A n \in 0..Len(o), i, j \in 1..Len(audienceLists) :
         Dialled(i, SubSeq(o, 1, n)) # Audience!ToSet(audienceLists[i])
           => Cardinality(Dialled(j, SubSeq(o, 1, n)))
                <= Cardinality(Dialled(i, SubSeq(o, 1, n))) + 1
  /\ mix = "zone" => Sorted(o)

LEMMA OrderedIs ==
  ASSUME Audience!AudienceAssumption,
         audienceLists \in Seq(Seq(Audience!Lead)), Len(audienceLists) > 0,
         mix \in Audience!Mixes
  PROVE  /\ Audience!Ordered \in Seq(Audience!Lead)
         /\ Audience!IsInjective(Audience!Ordered)
         /\ Audience!ToSet(Audience!Ordered)
              = UNION {Audience!ToSet(audienceLists[i]) :
                       i \in DOMAIN audienceLists}
         /\ Fair(Audience!Ordered)
<1>1. CASE mix = "sequential"
  <2>1. Audience!Ordered = Audience!Sequential
    BY <1>1 DEF Audience!Ordered
  <2> QED
    BY <1>1, <2>1, SequentialIs DEF Fair
<1>2. CASE mix = "mixed"
  <2>1. Audience!Ordered = Audience!Interleaved
    BY <1>2 DEF Audience!Ordered
  <2>2. Apart =>
          \A n \in 0..Len(Audience!Interleaved),
             i, j \in 1..Len(audienceLists) :
          Dialled(i, SubSeq(Audience!Interleaved, 1, n))
            # Audience!ToSet(audienceLists[i])
            => Cardinality(Dialled(j, SubSeq(Audience!Interleaved, 1, n)))
                 <= Cardinality(
                      Dialled(i, SubSeq(Audience!Interleaved, 1, n))) + 1
    BY InterleavedIs
  <2> QED
    BY <1>2, <2>1, <2>2, InterleavedIs DEF Fair
<1>3. CASE mix = "zone"
  <2>1. Audience!Ordered = Audience!ByZone(Audience!Interleaved)
    BY <1>3 DEF Audience!Ordered
  <2> QED
    BY <1>3, <2>1, InterleavedIs, ByZoneIs DEF Fair
<1> QED
  BY <1>1, <1>2, <1>3 DEF Audience!Mixes

\* Every lead that has met a target since the criteria were read is in what was
\* read of it, unless the cap was reached; the order is of all that was read.
Kept ==
  /\ \A s \in AudienceParams.Segs :
       stayed[s] \subseteq Audience!Members(asked[s])
  /\ Audience!Loaded < AudienceParams.MaxAudience =>
       \A i \in 1..Len(audienceLists) :
         stayed[targets[i]] \subseteq Audience!ToSet(audienceLists[i])

Made ==
  audienceOrder # Null =>
    /\ targets # <<>>
    /\ \/ Len(audienceLists) = Len(targets)
       \/ Audience!Loaded >= AudienceParams.MaxAudience
    /\ audienceOrder \in Seq(Audience!Lead)
    /\ Audience!IsInjective(audienceOrder)
    /\ Audience!ToSet(audienceOrder)
         = UNION {Audience!ToSet(audienceLists[i]) :
                  i \in DOMAIN audienceLists}
    /\ Fair(audienceOrder)

Read ==
  /\ targets \in Seq(AudienceParams.Segs) /\ mix \in Audience!Mixes
  /\ audienceLists \in Seq(Seq(Audience!Lead))
  /\ Len(audienceLists) <= Len(targets)
  /\ Audience!Loaded <= AudienceParams.MaxAudience

OrderInv == Read /\ Kept /\ Made

LEMMA NothingRead ==
  audienceLists = <<>>
    => Audience!Loaded = 0 /\ audienceLists \in Seq(Seq(Audience!Lead))
<1>1. <<>> \in Seq(Seq(Audience!Lead)) /\ Len(<<>>) = 0
  OBVIOUS
<1>2. Sum(<<>>) = 0
  BY <1>1, SumRuns
<1> QED
  BY <1>1, <1>2, LoadedIs

LEMMA OrderInit == Audience!AudienceAssumption /\ Audience!Init => OrderInv
<1> SUFFICES ASSUME Audience!AudienceAssumption, Audience!Init PROVE OrderInv
  OBVIOUS
<1>1. /\ audienceLists = <<>> /\ targets = <<>> /\ mix = "mixed"
      /\ audienceOrder = Null
      /\ \A s \in AudienceParams.Segs : stayed[s] = {}
  BY DEF Audience!Init
<1>2. /\ Audience!Loaded = 0
      /\ audienceLists \in Seq(Seq(Audience!Lead))
      /\ AudienceParams.MaxAudience \in Nat
  BY <1>1, NothingRead DEF Audience!AudienceAssumption
<1>3. Read
  BY <1>1, <1>2 DEF Read, Audience!Mixes
<1>4. Kept
  BY <1>1 DEF Kept
<1> QED
  BY <1>1, <1>3, <1>4 DEF OrderInv, Made

\* What is read and dialled depends on the campaign alone.
LEMMA LoadedSum == Audience!Loaded = Sum(audienceLists)
BY DEF Audience!Loaded, Sum

LEMMA SameLoaded ==
  /\ Audience!Loaded' = Sum(audienceLists')
  /\ audienceLists' = audienceLists => Audience!Loaded' = Audience!Loaded
<1>1. (Audience!Loaded = Sum(audienceLists))'
  BY LoadedSum, PTL
<1>2. Audience!Loaded' = Sum(audienceLists')
  BY <1>1
<1> QED
  BY <1>2, LoadedSum

LEMMA SameOrder ==
  ASSUME Read, Made, UNCHANGED <<targets, mix, audienceLists, audienceOrder>>
  PROVE  Read' /\ Made'
<1>1. Audience!Loaded' = Audience!Loaded
  BY SameLoaded
<1>2. Read'
  BY <1>1 DEF Read
<1>3. Made'
  BY <1>1 DEF Made, Fair, Apart, Dialled, Sorted
<1> QED
  BY <1>2, <1>3

LEMMA EditKeeps ==
  ASSUME OrderInv, Audience!Edited
  PROVE  OrderInv'
<1>1. /\ UNCHANGED <<targets, mix, asked, audienceLists, audienceOrder>>
      /\ stayed' = [s \in AudienceParams.Segs |->
                    stayed[s] \cap Audience!Members(asked[s])']
  BY DEF Audience!Edited
<1>2. Read' /\ Made'
  BY <1>1, SameOrder DEF OrderInv
<1>3. Audience!Loaded' = Audience!Loaded
  BY <1>1, SameLoaded
<1>4. \A s \in AudienceParams.Segs :
        /\ stayed'[s] \subseteq Audience!Members(asked[s])'
        /\ stayed'[s] \subseteq stayed[s]
  <2> HIDE DEF OrderInv
  <2> QED
    BY <1>1
<1>5. \A i \in 1..Len(audienceLists) : targets[i] \in AudienceParams.Segs
  BY DEF OrderInv, Read
<1>6. Kept'
  <2>1. \A s \in AudienceParams.Segs :
          stayed'[s] \subseteq Audience!Members(asked[s])'
    BY <1>4
  <2>2. ASSUME Audience!Loaded < AudienceParams.MaxAudience,
               NEW i \in 1..Len(audienceLists)
        PROVE  stayed'[targets[i]] \subseteq Audience!ToSet(audienceLists[i])
    <3>1. stayed[targets[i]] \subseteq Audience!ToSet(audienceLists[i])
      BY <2>2 DEF OrderInv, Kept
    <3> QED
      BY <1>4, <1>5, <2>2, <3>1
  <2> QED
    BY <1>1, <1>3, <2>1, <2>2 DEF Kept
<1> QED
  BY <1>2, <1>6 DEF OrderInv

LEMMA ResolveKeeps ==
  ASSUME Audience!AudienceAssumption, OrderInv,
         NEW T \in Audience!SetToSeqs(AudienceParams.Segs),
         NEW m \in Audience!Mixes, Audience!Resolve(T, m)
  PROVE  OrderInv'
<1>1. /\ targets' = T /\ mix' = m /\ audienceLists' = <<>>
      /\ audienceOrder' = Null
      /\ asked' = criteria /\ audienceRows' = audienceRows
      /\ stayed' = [s \in AudienceParams.Segs |-> Audience!Audience(s)]
  BY DEF Audience!Resolve
<1>2. T \in Seq(AudienceParams.Segs) /\ Len(T) \in Nat
  <2>1. T \in [1..Cardinality(AudienceParams.Segs) -> AudienceParams.Segs]
    BY AudienceCount DEF Audience!SetToSeqs
  <2>2. Cardinality(AudienceParams.Segs) \in Nat
    BY AudienceCount, FS_CardinalityType DEF Audience!AudienceAssumption
  <2> QED
    BY <2>1, <2>2
<1>3. /\ Audience!Loaded' = 0
      /\ audienceLists' \in Seq(Seq(Audience!Lead))
      /\ Len(audienceLists') = 0
  <2>1. Audience!Loaded' = Sum(<<>>)
    BY <1>1, SameLoaded
  <2>2. <<>> \in Seq(Seq(Audience!Lead)) /\ Len(<<>>) = 0
    OBVIOUS
  <2>3. Sum(<<>>) = 0
    BY <2>2, SumRuns
  <2> QED
    BY <1>1, <2>1, <2>2, <2>3
<1>4. AudienceParams.MaxAudience \in Nat
  BY DEF Audience!AudienceAssumption
<1>5. Read'
  BY <1>1, <1>2, <1>3, <1>4 DEF Read
<1>6. \A s \in AudienceParams.Segs : stayed'[s] = Audience!Members(asked[s])'
  <2>1. ASSUME NEW s \in AudienceParams.Segs
        PROVE  Audience!Members(criteria[s])
                       = Audience!Members(asked[s])'
    BY <1>1
       DEF Audience!Members, Audience!Where, Audience!Chosen, Audience!Base,
       Audience!Clause, Audience!Active
  <2> QED
    BY <1>1, <2>1 DEF Audience!Audience
<1>7. Kept'
  BY <1>3, <1>6 DEF Kept
<1>8. Made'
  BY <1>1 DEF Made
<1> QED
  BY <1>5, <1>7, <1>8 DEF OrderInv

LEMMA LoadKeeps ==
  ASSUME Audience!AudienceAssumption, OrderInv, Audience!LoadSegment
  PROVE  OrderInv'
<1> DEFINE s     == targets[Len(audienceLists) + 1]
           found == Audience!Only(AudienceParams.Leads,
                                  Audience!Members(asked[s]))
           take ==
             IF Len(found) <= AudienceParams.MaxAudience - Audience!Loaded
             THEN Len(found)
             ELSE AudienceParams.MaxAudience - Audience!Loaded
           list  == SubSeq(found, 1, take)
<1>1. /\ Len(audienceLists) < Len(targets)
      /\ Audience!Loaded < AudienceParams.MaxAudience
      /\ audienceLists' = Append(audienceLists, list)
      /\ UNCHANGED <<audienceRows, targets, mix, asked, audienceOrder, stayed>>
  BY DEF Audience!LoadSegment
<1>2. /\ targets \in Seq(AudienceParams.Segs) /\ mix \in Audience!Mixes
      /\ audienceLists \in Seq(Seq(Audience!Lead))
      /\ Len(audienceLists) \in Nat /\ Len(targets) \in Nat
  BY DEF OrderInv, Read
<1>3. s \in AudienceParams.Segs
  BY <1>1, <1>2
<1>4. /\ found \in Seq(Audience!Lead)
      /\ Audience!ToSet(found) = Audience!Members(asked[s])
  <2>1. /\ AudienceParams.Leads \in Seq(Audience!Lead)
        /\ Audience!ToSet(AudienceParams.Leads) = Audience!Lead
    BY DEF Audience!AudienceAssumption, Audience!Lead
  <2>2. Audience!Members(asked[s]) \subseteq Audience!Lead
    BY DEF Audience!Members
  <2> DEFINE L == Audience!Members(asked[s])
  <2>3. /\ found = Audience!Only(AudienceParams.Leads, L)
        /\ L \subseteq Audience!Lead
    BY <2>2
  <2> HIDE DEF L, found
  <2>4. /\ Audience!Only(AudienceParams.Leads, L) \in Seq(Audience!Lead)
        /\ Audience!ToSet(Audience!Only(AudienceParams.Leads, L))
             = Audience!ToSet(AudienceParams.Leads) \cap L
    BY <2>1, OnlyIs
  <2>5. found \in Seq(Audience!Lead) /\ Audience!ToSet(found) = L
    BY <2>1, <2>3, <2>4
  <2> QED
    BY <2>5 DEF L
<1>5. AudienceParams.MaxAudience \in Nat /\ Audience!Loaded \in Nat
  BY <1>2, LoadedIs DEF Audience!AudienceAssumption
<1> HIDE DEF s, found
<1>6. /\ list \in Seq(Audience!Lead) /\ Len(list) = take /\ take \in Nat
      /\ take = Len(found) => list = found
      /\ take <= AudienceParams.MaxAudience - Audience!Loaded
      /\ take < AudienceParams.MaxAudience - Audience!Loaded
           => take = Len(found)
  BY <1>1, <1>4, <1>5
<1> HIDE DEF take, list
<1>7. Audience!Loaded' = Audience!Loaded + take
  <2>1. Audience!Loaded' = Sum(Append(audienceLists, list))
    BY <1>1, SameLoaded
  <2> QED
    BY <1>2, <1>6, <2>1, SumMore, LoadedIs
<1>8. /\ audienceLists' \in Seq(Seq(Audience!Lead))
      /\ Len(audienceLists') = Len(audienceLists) + 1
      /\ \A i \in 1..Len(audienceLists) : audienceLists'[i] = audienceLists[i]
      /\ audienceLists'[Len(audienceLists) + 1] = list
  BY <1>1, <1>2, <1>6
<1>9. Read'
  BY <1>1, <1>2, <1>5, <1>6, <1>7, <1>8 DEF Read
<1>10. Kept'
  <2>1. \A t \in AudienceParams.Segs :
          Audience!Members(asked[t])' = Audience!Members(asked[t])
    BY <1>1
       DEF Audience!Members, Audience!Where, Audience!Chosen, Audience!Base,
       Audience!Clause, Audience!Active
  <2>2. \A t \in AudienceParams.Segs :
          stayed[t] \subseteq Audience!Members(asked[t])
    BY DEF OrderInv, Kept
  <2>3. ASSUME Audience!Loaded + take < AudienceParams.MaxAudience,
               NEW i \in 1..(Len(audienceLists) + 1)
        PROVE  stayed[targets[i]] \subseteq Audience!ToSet(audienceLists'[i])
    <3>1. CASE i \in 1..Len(audienceLists)
      <4>1. stayed[targets[i]] \subseteq Audience!ToSet(audienceLists[i])
        BY <1>1, <3>1 DEF OrderInv, Kept
      <4> QED
        BY <1>8, <3>1, <4>1
    <3>2. CASE i = Len(audienceLists) + 1
      <4>1. list = found
        BY <1>5, <1>6, <2>3
      <4>2. targets[i] = s
        BY <3>2 DEF s
      <4> QED
        BY <1>3, <1>4, <1>8, <2>2, <3>2, <4>1, <4>2
    <3> QED
      BY <1>2, <3>1, <3>2
  <2> QED
    BY <1>1, <1>7, <1>8, <2>1, <2>2, <2>3 DEF Kept
<1>11. Made'
  <2>1. audienceOrder = Null
    BY <1>1, <1>2, <1>5 DEF OrderInv, Made
  <2> QED
    BY <1>1, <2>1 DEF Made
<1> QED
  BY <1>9, <1>10, <1>11 DEF OrderInv

LEMMA OrderKeeps ==
  ASSUME Audience!AudienceAssumption, OrderInv, Audience!Order
  PROVE  OrderInv'
<1>1. /\ targets # <<>> /\ audienceOrder' = Audience!Ordered
      /\ \/ Len(audienceLists) = Len(targets)
         \/ Audience!Loaded >= AudienceParams.MaxAudience
      /\ UNCHANGED <<audienceRows, criteria, targets, mix, asked,
                     audienceLists, stayed>>
  BY DEF Audience!Order
<1>2. Audience!Loaded' = Audience!Loaded
  BY <1>1, SameLoaded
<1>3. /\ audienceLists \in Seq(Seq(Audience!Lead)) /\ mix \in Audience!Mixes
      /\ targets \in Seq(AudienceParams.Segs)
      /\ AudienceParams.MaxAudience \in Nat \ {0} /\ Audience!Loaded \in Nat
  BY LoadedIs DEF OrderInv, Read, Audience!AudienceAssumption
<1>4. Len(audienceLists) > 0
  <2>1. Len(targets) > 0 /\ Len(audienceLists) \in Nat
    BY <1>1, <1>3
  <2> QED
    BY <1>1, <1>3, <2>1, LoadedIs
<1>5. /\ Audience!Ordered \in Seq(Audience!Lead)
      /\ Audience!IsInjective(Audience!Ordered)
      /\ Audience!ToSet(Audience!Ordered)
           = UNION {Audience!ToSet(audienceLists[i]) :
                    i \in DOMAIN audienceLists}
      /\ Fair(Audience!Ordered)
  BY <1>3, <1>4, OrderedIs
<1>6. Fair(audienceOrder)'
  <2> DEFINE o == Audience!Ordered
  <2>1. audienceOrder' = o /\ Fair(o)
    BY <1>1, <1>5
  <2> HIDE DEF o
  <2> QED
    BY <1>1, <2>1 DEF Fair, Apart, Dialled, Sorted
<1>7. Made'
  BY <1>1, <1>2, <1>5, <1>6 DEF Made
<1>8. Read'
  BY <1>1, <1>2 DEF OrderInv, Read
<1>9. Kept'
  <2>1. \A t : Audience!Members(asked[t])' = Audience!Members(asked[t])
    BY <1>1
       DEF Audience!Members, Audience!Where, Audience!Chosen, Audience!Base,
       Audience!Clause, Audience!Active
  <2> QED
    BY <1>1, <1>2, <2>1 DEF OrderInv, Kept
<1> QED
  BY <1>7, <1>8, <1>9 DEF OrderInv

LEMMA OrderStep ==
  Audience!AudienceAssumption /\ OrderInv /\ [Audience!Next]_(Audience!vars)
    => OrderInv'
<1> SUFFICES ASSUME Audience!AudienceAssumption, OrderInv,
                    [Audience!Next]_(Audience!vars) PROVE OrderInv'
  OBVIOUS
<1>1. ASSUME Audience!Edited PROVE OrderInv'
  BY <1>1, EditKeeps, Zenon
<1>2. ASSUME NEW t \in AudienceParams.Segs,
             \/ \E C \in SUBSET AudienceParams.Conditions, b \in BOOLEAN :
                  Audience!SaveCriteria(t, C, b)
             \/ \E l \in Audience!Lead :
                  Audience!AddMember(t, l) \/ Audience!RemoveMember(t, l)
             \/ \E f \in AudienceParams.Filters : Audience!AssignFiltered(t, f)
      PROVE  Audience!Edited
  BY <1>2, Zenon
     DEF Audience!SaveCriteria, Audience!AddMember, Audience!RemoveMember,
     Audience!AssignFiltered, Audience!Move
<1>3. ASSUME NEW l \in Audience!Lead,
             \/ Audience!Leave(l) \/ Audience!Return(l) \/ Audience!Pushed(l)
      PROVE  Audience!Edited
  BY <1>3 DEF Audience!Leave, Audience!Return, Audience!Pushed
<1>4. CASE UNCHANGED Audience!vars
  <2>1. UNCHANGED <<audienceRows, targets, mix, asked, audienceLists,
                    audienceOrder, stayed>>
    BY <1>4 DEF Audience!vars
  <2>2. Read' /\ Made'
    BY <2>1, SameOrder DEF OrderInv
  <2>3. Audience!Loaded' = Audience!Loaded
    BY <2>1, SameLoaded
  <2>4. \A t : Audience!Members(asked[t])' = Audience!Members(asked[t])
    BY <2>1
       DEF Audience!Members, Audience!Where, Audience!Chosen, Audience!Base,
       Audience!Clause, Audience!Active
  <2>5. Kept'
    BY <2>1, <2>3, <2>4 DEF OrderInv, Kept
  <2> QED
    BY <2>2, <2>5 DEF OrderInv
<1> QED
  BY <1>1, <1>2, <1>3, <1>4, ResolveKeeps, LoadKeeps, OrderKeeps
     DEF Audience!Next

LEMMA OrderHolds == Audience!AudienceAssumption /\ OrderInv
                      => Audience!OrderSound
<1> SUFFICES ASSUME Audience!AudienceAssumption, OrderInv,
                    audienceOrder # Null PROVE Audience!OrderSound
  BY DEF Audience!OrderSound, Audience!OrderExact, Audience!OrderFair
<1>1. /\ Audience!IsInjective(audienceOrder)
      /\ audienceOrder \in Seq(Audience!Lead)
      /\ Audience!ToSet(audienceOrder)
           = UNION {Audience!ToSet(audienceLists[i]) :
                    i \in DOMAIN audienceLists}
      /\ \/ Len(audienceLists) = Len(targets)
         \/ Audience!Loaded >= AudienceParams.MaxAudience
      /\ Fair(audienceOrder)
  BY DEF OrderInv, Made
<1>2. /\ audienceLists \in Seq(Seq(Audience!Lead))
      /\ targets \in Seq(AudienceParams.Segs)
      /\ DOMAIN audienceLists = 1..Len(audienceLists)
      /\ DOMAIN targets = 1..Len(targets)
      /\ Audience!Loaded <= AudienceParams.MaxAudience
  BY SMTT(20) DEF OrderInv, Read
<1>3. ASSUME Audience!Loaded < AudienceParams.MaxAudience,
             NEW i \in DOMAIN targets
      PROVE  stayed[targets[i]] \subseteq Audience!ToSet(audienceOrder)
  <2>1. i \in 1..Len(audienceLists)
    <3>1. /\ Audience!Loaded \in Nat /\ AudienceParams.MaxAudience \in Int
          /\ Len(audienceLists) \in Nat /\ Len(targets) \in Nat
      BY <1>2, LoadedIs DEF Audience!AudienceAssumption
    <3>2. Len(audienceLists) = Len(targets)
      <4>1. ~(Audience!Loaded >= AudienceParams.MaxAudience)
        BY <1>3, <3>1
      <4> QED
        BY <1>1, <4>1
    <3> QED
      BY <1>2, <1>3, <3>2
  <2>2. stayed[targets[i]] \subseteq Audience!ToSet(audienceLists[i])
    BY <1>3, <2>1, Zenon DEF OrderInv, Kept
  <2> QED
    BY <1>1, <1>2, <2>1, <2>2, ZenonT(20)
<1>4. Audience!OrderExact
  BY <1>1, <1>2, <1>3, ZenonT(20) DEF Audience!OrderExact
<1>5. Audience!OrderFair
  BY <1>1, <1>2, AudienceCount, ZenonT(20)
     DEF Audience!OrderFair, Fair, Apart, Dialled, Sorted
<1> QED
  BY <1>4, <1>5 DEF Audience!OrderSound

\* A campaign dials nobody twice, nobody whom no target had, and everyone who
\* has met a target since its criteria were read, wherever edits have moved
\* them, unless the cap was reached; segments take turns, and zones follow each
\* other (campaign-runner.service.ts:365-452).
THEOREM AudiencesAreDialled == Spec => []OrderSound
<1> DEFINE I == part = "audience" => OrderInv
<1>1. Init => I
  BY PartsAssumption, OrderInit DEF Init
<1>2. I /\ [Next]_vars => I'
  BY PartsAssumption, PartSteps, OrderStep
<1>3. I => OrderSound
  BY PartsAssumption, OrderHolds DEF OrderSound
<1> QED
  BY <1>1, <1>2, <1>3, PTL DEF Spec

Spent == membersUsed \in [assigns : Nat, edits : Nat, faults : Nat]

Waiting == [op : {"assign", "auto", "cleanup"},
            target : MembersParams.Segs \cup {MembersParams.NoSeg},
            leads : SUBSET MembersParams.Leads]

Running ==
  [pc : {"idle", "config", "choose", "check", "read", "write", "count",
         "forget"},
   op : {"none", "assign", "auto", "cleanup"},
   target : MembersParams.Segs \cup {MembersParams.NoSeg},
   leads : SUBSET MembersParams.Leads,
   todo : SUBSET MembersParams.Segs,
   snap : [MembersParams.Segs -> Members!Lists], config : Members!Config]

\* What a job has to know before it gets where it is.
JobKnows ==
  /\ \A i \in 1..Len(membersQueue) :
       membersQueue[i].op # "auto"
         => membersQueue[i].target \in MembersParams.Segs
  /\ membersJob.pc \in {"check", "read", "write", "count", "forget"}
       => membersJob.target \in MembersParams.Segs
  /\ membersJob.pc \in {"choose", "count"} => membersJob.op = "auto"
  /\ membersJob.pc = "config" /\ membersJob.op # "auto"
       => membersJob.target \in MembersParams.Segs
  /\ membersJob.pc = "read" => membersJob.target \in membersExists
  /\ membersJob.pc = "idle" => membersJob = Members!Idle

\* No edit is under way together with a job, and one that has read its segment
\* writes what is still there.
EditsApart ==
  /\ edit # Members!NoEdit => /\ membersJob.pc = "idle"
                              /\ edit.seg \in MembersParams.Segs
                              /\ edit.snap = membersLists[edit.seg]
  /\ membersSetting.open => membersJob.pc = "idle"

Listed(l) == {s \in membersExists : l \in membersLists[s].incl}
AtHome(l) == Listed(l) = {home[l]} \cap membersExists

\* Half of an assignment: what is written is what will be, the rest as it was.
HalfDone ==
  membersJob.pc = "write" =>
    /\ membersJob.target \in membersJob.todo \/ \A l \in membersJob.leads :
         home[l] = membersJob.target
    /\ \A s \in membersExists :
         /\ s \in membersJob.todo => membersLists[s] = membersJob.snap[s]
         /\ s \notin membersJob.todo => membersLists[s] = Members!Assigned(s)

\* The leads of an assignment are between two homes; any other is at home.
HomesTrue ==
  \A l \in MembersParams.Leads \ torn :
    AtHome(l) \/ (membersJob.pc = "write" /\ l \in membersJob.leads)

HomeInv ==
  /\ ~MembersParams.Overlap /\ Members!TypeOK /\ Spent
  /\ JobKnows /\ EditsApart /\ HalfDone /\ HomesTrue

LEMMA AtRest ==
  Members!Fresh \in Members!Config /\ Members!Idle \in Running
    /\ Members!Idle.pc = "idle" /\ ~Members!NoSetting.open
BY DEF Members!Fresh, Members!Config, Members!Idle, Running, Members!Lists,
   Members!NoSetting

LEMMA HomeInit == Members!MembershipAssumption /\ ~MembersParams.Overlap
                    /\ Members!Init => HomeInv
<1> SUFFICES ASSUME Members!MembershipAssumption, ~MembersParams.Overlap,
                    Members!Init PROVE HomeInv
  OBVIOUS
<1>1. Members!Fresh \in Members!Config /\ config \in Members!Config
  BY DEF Members!Init, Members!Fresh, Members!Config
<1>2. membersQueue \in Seq(Waiting) /\ Len(membersQueue) = 0
  BY DEF Members!Init
<1>3. Members!TypeOK
  BY <1>1, <1>2, AtRest
     DEF Members!Init, Members!TypeOK, Members!Lists, Members!NoEdit,
     Members!NoSetting, Waiting, Running
<1>4. Spent
  BY DEF Members!Init, Spent
<1>5. JobKnows
  BY <1>2 DEF Members!Init, JobKnows, Members!Idle
<1>6. EditsApart /\ HalfDone
  BY DEF Members!Init, EditsApart, HalfDone, Members!Idle, Members!NoSetting
<1>7. HomesTrue
  BY DEF Members!Init, HomesTrue, AtHome, Listed, Members!MembershipAssumption
<1> QED
  BY <1>3, <1>4, <1>5, <1>6, <1>7 DEF HomeInv

\* What stands in the queue.
LEMMA InQueue ==
  ASSUME Members!TypeOK, membersQueue # <<>>
  PROVE  /\ Head(membersQueue) \in Waiting
         /\ Head(membersQueue) = membersQueue[1]
         /\ Len(membersQueue) \in Nat /\ 1 \in 1..Len(membersQueue)
         /\ Tail(membersQueue) \in Seq(Waiting)
         /\ Len(Tail(membersQueue)) = Len(membersQueue) - 1
         /\ \A i \in 1..Len(Tail(membersQueue)) :
              i + 1 \in 1..Len(membersQueue)
                /\ Tail(membersQueue)[i] = membersQueue[i + 1]
<1>1. membersQueue \in Seq(Waiting)
  BY DEF Members!TypeOK, Waiting
<1>2. /\ Tail(membersQueue) \in Seq(Waiting) /\ Head(membersQueue) \in Waiting
      /\ Len(Tail(membersQueue)) = Len(membersQueue) - 1
      /\ Len(membersQueue) \in Nat
      /\ Len(membersQueue) # 0
      /\ \A i \in 1..Len(Tail(membersQueue)) :
           Tail(membersQueue)[i] = membersQueue[i + 1]
  BY <1>1, HeadTailProperties, EmptySeq, LenProperties
<1>3. Head(membersQueue) = membersQueue[1]
  BY <1>1, HeadTailProperties
<1> QED
  BY <1>2, <1>3

LEMMA JoinsQueue ==
  ASSUME Members!TypeOK, NEW w \in Waiting,
         membersQueue' = Append(membersQueue, w)
  PROVE  /\ membersQueue' \in Seq(Waiting) /\ Len(membersQueue) \in Nat
         /\ Len(membersQueue') = Len(membersQueue) + 1
         /\ membersQueue'[Len(membersQueue) + 1] = w
         /\ \A i \in 1..Len(membersQueue) : membersQueue'[i] = membersQueue[i]
         /\ \A i \in 1..Len(membersQueue') :
              i \in 1..Len(membersQueue) \/ i = Len(membersQueue) + 1
<1>1. membersQueue \in Seq(Waiting)
  BY DEF Members!TypeOK, Waiting
<1>2. Len(membersQueue) \in Nat
  BY <1>1, LenProperties
<1> QED
  BY <1>1, <1>2, AppendProperties

\* A step that moves no lead.
LEMMA HomesKept ==
  ASSUME HomesTrue, UNCHANGED <<membersExists, membersLists, home>>,
         torn \subseteq torn',
         \A l \in MembersParams.Leads \ torn' :
           membersJob.pc = "write" /\ l \in membersJob.leads
             => membersJob'.pc = "write" /\ l \in membersJob'.leads
  PROVE  HomesTrue'
BY DEF HomesTrue, AtHome, Listed

\* Requests that join the chain, and a segment that is deleted.
LEMMA JobJoins ==
  ASSUME Members!MembershipAssumption, HomeInv,
         \/ \E l \in MembersParams.Leads : Members!Arrive(l)
         \/ \E t \in MembersParams.Segs, L \in SUBSET MembersParams.Leads :
              Members!Assign(t, L)
         \/ \E s \in MembersParams.Segs : Members!QueueCleanup(s)
  PROVE  HomeInv'
<1>1. PICK w \in Waiting : /\ w.op # "auto" => w.target \in MembersParams.Segs
                           /\ membersQueue' = Append(membersQueue, w)
  <2>1. ASSUME NEW l \in MembersParams.Leads, Members!Arrive(l)
        PROVE  Members!Job("auto", MembersParams.NoSeg, {l}) \in Waiting
    BY DEF Members!Job, Waiting
  <2>2. ASSUME NEW t \in MembersParams.Segs,
               NEW L \in SUBSET MembersParams.Leads,
               NEW op \in {"assign", "cleanup"}
        PROVE  Members!Job(op, t, L) \in Waiting
                 /\ Members!Job(op, t, L).target \in MembersParams.Segs
    BY DEF Members!Job, Waiting
  <2>3. {} \in SUBSET MembersParams.Leads
    OBVIOUS
  <2> QED
    BY <2>1, <2>2, <2>3
       DEF Members!Arrive, Members!Assign, Members!QueueCleanup, Members!Job
<1>2. /\ UNCHANGED <<membersExists, membersLists, config, membersJob, edit,
                     membersSetting, home, got, torn, steady>>
      /\ arrived' \subseteq MembersParams.Leads
      /\ deleted' \subseteq MembersParams.Segs
  BY DEF Members!Arrive, Members!Assign, Members!QueueCleanup, HomeInv,
     Members!TypeOK
<1>3. Spent'
  <2>1. \/ membersUsed' = membersUsed
        \/ membersUsed' = [membersUsed EXCEPT !["assigns"] = @ + 1]
    BY DEF Members!Arrive, Members!Assign, Members!QueueCleanup, Members!Spend
  <2> QED
    BY <2>1 DEF HomeInv, Spent
<1>4. /\ membersQueue' \in Seq(Waiting) /\ Len(membersQueue) \in Nat
      /\ Len(membersQueue') = Len(membersQueue) + 1
      /\ membersQueue'[Len(membersQueue) + 1] = w
      /\ \A i \in 1..Len(membersQueue) : membersQueue'[i] = membersQueue[i]
      /\ \A i \in 1..Len(membersQueue') :
           i \in 1..Len(membersQueue) \/ i = Len(membersQueue) + 1
  BY <1>1, JoinsQueue DEF HomeInv
<1>5. Members!TypeOK'
  BY <1>2, <1>4 DEF HomeInv, Members!TypeOK, Waiting
<1>6. JobKnows'
  BY <1>1, <1>2, <1>4 DEF HomeInv, JobKnows
<1>7. EditsApart' /\ HalfDone'
  BY <1>2 DEF HomeInv, EditsApart, HalfDone, Members!Assigned
<1>8. HomesTrue'
  BY <1>2, HomesKept DEF HomeInv
<1> QED
  BY <1>3, <1>5, <1>6, <1>7, <1>8 DEF HomeInv

LEMMA SegmentDeleted ==
  ASSUME Members!MembershipAssumption, HomeInv, NEW d \in MembersParams.Segs,
         Members!DeleteSegment(d)
  PROVE  HomeInv'
<1>0. /\ membersExists' = membersExists \ {d} /\ deleted' = deleted \cup {d}
      /\ steady' = FALSE
      /\ membersJob.pc # "read"
      /\ UNCHANGED <<membersLists, config, membersQueue, membersJob, arrived,
                     edit, membersSetting, home, got, torn>>
  BY DEF Members!DeleteSegment, HomeInv
<1>1. Spent'
  BY DEF Members!DeleteSegment, HomeInv, Spent, Members!Spend
<1>2. Members!TypeOK'
  BY <1>0 DEF HomeInv, Members!TypeOK
<1>3. JobKnows' /\ EditsApart'
  BY <1>0 DEF HomeInv, JobKnows, EditsApart
<1>4. HalfDone'
  BY <1>0 DEF HomeInv, HalfDone, Members!Assigned
<1>5. HomesTrue'
  <2>1. \A l \in MembersParams.Leads : AtHome(l) => AtHome(l)'
    BY <1>0 DEF AtHome, Listed
  <2> QED
    BY <1>0, <2>1 DEF HomeInv, HomesTrue
<1> QED
  BY <1>1, <1>2, <1>3, <1>4, <1>5 DEF HomeInv

LEMMA JobStarts ==
  ASSUME Members!MembershipAssumption, HomeInv, Members!StartJob
  PROVE  HomeInv'
<1> DEFINE w == Head(membersQueue)
<1>0. /\ membersJob.pc = "idle" /\ membersQueue # <<>>
      /\ edit = Members!NoEdit /\ ~membersSetting.open
      /\ membersJob' = [Members!Idle EXCEPT !.op = w.op, !.target = w.target,
                                            !.leads = w.leads,
                             !.pc = IF w.op = "assign" THEN "check"
                               ELSE "config"]
      /\ membersQueue' = Tail(membersQueue)
      /\ UNCHANGED <<membersExists, membersLists, config, arrived, edit,
                     membersSetting, deleted, membersUsed, home, got, torn,
                     steady>>
  BY DEF Members!StartJob, Members!NoJob, Members!NoOpen, HomeInv
<1>1. /\ w \in Waiting /\ w = membersQueue[1] /\ 1 \in 1..Len(membersQueue)
      /\ membersQueue' \in Seq(Waiting)
      /\ \A i \in 1..Len(membersQueue') :
           i + 1 \in 1..Len(membersQueue)
             /\ membersQueue'[i] = membersQueue[i + 1]
  BY <1>0, InQueue DEF HomeInv
<1> HIDE DEF w
<1>2. /\ membersJob'.pc = IF w.op = "assign" THEN "check" ELSE "config"
      /\ membersJob'.op = w.op /\ membersJob'.target = w.target
      /\ membersJob'.leads = w.leads
      /\ membersJob'.todo = {} /\ membersJob'.snap = Members!Idle.snap
      /\ membersJob'.config = Members!Fresh
  BY <1>0 DEF Members!Idle
<1>3. Members!TypeOK'
  <2>1. membersJob' \in Running
    BY <1>0, <1>1, AtRest DEF Running, Waiting
  <2> QED
    BY <1>0, <1>1, <2>1 DEF HomeInv, Members!TypeOK, Waiting, Running
<1>4. JobKnows'
  <2>1. \A i \in 1..Len(membersQueue) :
          membersQueue[i].op # "auto"
            => membersQueue[i].target \in MembersParams.Segs
    BY DEF HomeInv, JobKnows
  <2>2. \A i \in 1..Len(membersQueue') :
          membersQueue'[i].op # "auto"
            => membersQueue'[i].target \in MembersParams.Segs
    BY <1>1, <2>1
  <2>3. w.op # "auto" => w.target \in MembersParams.Segs
    BY <1>1, <2>1
  <2>4. /\ membersJob'.pc \in {"check", "config"}
        /\ membersJob'.pc = "check" => membersJob'.op = "assign"
    BY <1>2
  <2> QED
    BY <1>2, <2>2, <2>3, <2>4 DEF JobKnows
<1>5. EditsApart' /\ HalfDone'
  BY <1>0, <1>2 DEF EditsApart, HalfDone
<1>6. HomesTrue'
  BY <1>0, HomesKept DEF HomeInv
<1>7. Spent'
  BY <1>0 DEF HomeInv, Spent
<1> QED
  BY <1>3, <1>4, <1>5, <1>6, <1>7 DEF HomeInv

\* What a job reads and what it ends with, outside the lists.
LEMMA JobReads ==
  ASSUME Members!MembershipAssumption, HomeInv,
         Members!ReadConfig \/ Members!ChooseSegment \/ Members!CheckTarget
           \/ Members!CountLead \/ Members!ForgetSegment
  PROVE  HomeInv'
<1>0. /\ membersJob.pc \in {"config", "choose", "check", "count", "forget"}
      /\ UNCHANGED <<membersExists, membersLists, membersQueue, arrived, edit,
                     membersSetting, deleted, membersUsed, home, got, torn,
                     steady>>
  BY DEF Members!ReadConfig, Members!ChooseSegment, Members!CheckTarget,
     Members!CountLead, Members!ForgetSegment
<1>1. edit = Members!NoEdit /\ ~membersSetting.open
  BY <1>0 DEF HomeInv, EditsApart
<1>2. Members!Idle.pc = "idle"
  BY AtRest, SMTT(20)
<1>3. \/ membersJob' = Members!Idle
      \/ /\ membersJob.pc = "config" /\ membersJob.op = "auto"
         /\ membersJob'
              = [membersJob EXCEPT !.config = config, !.pc = "choose"]
      \/ /\ membersJob.pc = "config" /\ membersJob.op # "auto"
         /\ membersJob'
              = [membersJob EXCEPT !.config = config, !.pc = "forget"]
      \/ \E t \in membersExists :
           membersJob' = [membersJob EXCEPT !.target = t, !.pc = "check"]
      \/ /\ membersJob.pc = "check" /\ membersJob.target \in membersExists
         /\ membersJob' = [membersJob EXCEPT !.pc = "read"]
      \/ /\ membersJob.pc = "check" /\ membersJob.op = "auto"
         /\ membersJob' = [membersJob EXCEPT !.pc = "count"]
  BY DEF Members!ReadConfig, Members!ChooseSegment, Members!CheckTarget,
     Members!CountLead, Members!ForgetSegment
<1>4. /\ membersJob' \in Running
      /\ membersJob'.pc # "write"
  <2>1. membersJob \in Running /\ config \in Members!Config
          /\ membersExists \subseteq MembersParams.Segs
    BY DEF HomeInv, Members!TypeOK, Running
  <2>2. ASSUME NEW t \in membersExists,
               membersJob' = [membersJob EXCEPT !.target = t, !.pc = "check"]
        PROVE  membersJob' \in Running /\ membersJob'.pc # "write"
    BY <2>1, <2>2 DEF Running
  <2>3. CASE \/ membersJob'
                  = [membersJob EXCEPT !.config = config, !.pc = "choose"]
             \/ membersJob'
                  = [membersJob EXCEPT !.config = config, !.pc = "forget"]
    BY <2>1, <2>3 DEF Running
  <2>4. CASE \/ membersJob' = [membersJob EXCEPT !.pc = "read"]
             \/ membersJob' = [membersJob EXCEPT !.pc = "count"]
    BY <2>1, <2>4 DEF Running
  <2>5. CASE membersJob' = Members!Idle
    BY <2>5, AtRest
  <2> QED
    BY <1>3, <2>2, <2>3, <2>4, <2>5
<1>5. config' \in Members!Config
  <2>1. CASE Members!CountLead
    <3>1. membersJob.target \in MembersParams.Segs
            /\ membersJob.config \in Members!Config
      BY <2>1 DEF Members!CountLead, HomeInv, JobKnows, Members!TypeOK
    <3>2. config'
            = [membersJob.config EXCEPT !.counts[membersJob.target] = @ + 1]
      BY <2>1 DEF Members!CountLead
    <3> QED
      BY <3>1, <3>2 DEF Members!Config
  <2>2. CASE Members!ForgetSegment
    <3>1. membersJob.target \in MembersParams.Segs
            /\ membersJob.config \in Members!Config
      BY <2>2 DEF Members!ForgetSegment, HomeInv, JobKnows, Members!TypeOK
    <3>2. config'
            = [membersJob.config EXCEPT !.rules = @ \ {membersJob.target},
                                        !.counts[membersJob.target] = 0]
      BY <2>2, ZenonT(40) DEF Members!ForgetSegment
    <3> QED
      BY <3>1, <3>2 DEF Members!Config
  <2>3. CASE Members!ReadConfig \/ Members!ChooseSegment \/ Members!CheckTarget
    BY <2>3
       DEF Members!ReadConfig, Members!ChooseSegment, Members!CheckTarget,
       HomeInv, Members!TypeOK
  <2> QED
    BY <2>1, <2>2, <2>3
<1>6. Members!TypeOK'
  BY <1>0, <1>4, <1>5 DEF HomeInv, Members!TypeOK, Running
<1>7. JobKnows'
  <2>1. /\ membersJob \in Running /\ membersExists \subseteq MembersParams.Segs
        /\ membersJob.pc \in {"check", "count", "forget"}
             => membersJob.target \in MembersParams.Segs
        /\ membersJob.pc = "config" /\ membersJob.op # "auto"
             => membersJob.target \in MembersParams.Segs
        /\ \A i \in 1..Len(membersQueue) : membersQueue[i].op # "auto"
             => membersQueue[i].target \in MembersParams.Segs
    BY DEF HomeInv, JobKnows, Members!TypeOK, Running
  <2>2. /\ membersJob'.pc \in {"check", "read", "write", "count", "forget"}
             => membersJob'.target \in MembersParams.Segs
        /\ membersJob'.pc \in {"choose", "count"} => membersJob'.op = "auto"
        /\ membersJob'.pc # "config"
        /\ membersJob'.pc = "read" => membersJob'.target \in membersExists
        /\ membersJob'.pc = "idle" => membersJob' = Members!Idle
    BY <1>2, <1>3, <2>1 DEF Running
  <2> QED
    BY <1>0, <2>1, <2>2 DEF JobKnows
<1>8. EditsApart' /\ HalfDone'
  BY <1>0, <1>1, <1>4 DEF EditsApart, HalfDone
<1>9. HomesTrue'
  BY <1>0, HomesKept DEF HomeInv
<1>10. Spent'
  BY <1>0 DEF HomeInv, Spent
<1> QED
  BY <1>6, <1>7, <1>8, <1>9, <1>10, ZenonT(40) DEF HomeInv

LEMMA SiblingsRead ==
  ASSUME Members!MembershipAssumption, HomeInv, Members!ReadSiblings
  PROVE  HomeInv'
<1>0. /\ membersJob.pc = "read"
      /\ membersJob'
           = [membersJob EXCEPT !.snap = membersLists, !.todo = membersExists,
                                !.pc = "write"]
      /\ UNCHANGED <<membersExists, membersLists, config, membersQueue,
                     arrived, edit, membersSetting, deleted, membersUsed,
                     home, got, torn, steady>>
  BY DEF Members!ReadSiblings
<1>1. /\ membersJob'.pc = "write" /\ membersJob'.snap = membersLists
      /\ membersJob'.todo = membersExists
      /\ membersJob'.target = membersJob.target
      /\ membersJob'.leads = membersJob.leads
      /\ membersJob'.op = membersJob.op
  BY <1>0 DEF HomeInv, Members!TypeOK
<1>2. membersJob.target \in membersExists /\ edit = Members!NoEdit
        /\ ~membersSetting.open
  BY <1>0 DEF HomeInv, JobKnows, EditsApart
<1>3. Members!TypeOK'
  BY <1>0 DEF HomeInv, Members!TypeOK
<1>4. JobKnows'
  BY <1>0, <1>1 DEF HomeInv, JobKnows
<1>5. EditsApart' /\ HalfDone'
  BY <1>0, <1>1, <1>2 DEF EditsApart, HalfDone
<1>6. HomesTrue'
  BY <1>0, HomesKept DEF HomeInv
<1>7. Spent'
  BY <1>0 DEF HomeInv, Spent
<1> QED
  BY <1>3, <1>4, <1>5, <1>6, <1>7 DEF HomeInv

\* The assignment writes a segment: for the leads that are not its own, nothing
\* changes.
LEMMA SegmentWritten ==
  ASSUME Members!MembershipAssumption, HomeInv, NEW w \in MembersParams.Segs,
         Members!WriteSegment(w)
  PROVE  HomeInv'
<1>0. /\ membersJob.pc = "write" /\ w \in membersJob.todo
      /\ w \in membersExists
      /\ membersLists' = [membersLists EXCEPT ![w] = Members!Assigned(w)]
      /\ membersJob' = [membersJob EXCEPT !.todo = @ \ {w}]
      /\ home'
          = [l \in MembersParams.Leads |-> IF w = membersJob.target
            /\ l \in membersJob.leads
                                  THEN w ELSE home[l]]
      /\ UNCHANGED <<membersExists, config, membersQueue, arrived, edit,
                     membersSetting, deleted, membersUsed, got, torn, steady>>
  BY DEF Members!WriteSegment, Members!Unwritten
<1>1. /\ membersJob'.pc = "write" /\ membersJob'.todo = membersJob.todo \ {w}
      /\ membersJob'.snap = membersJob.snap
      /\ membersJob'.target = membersJob.target
      /\ membersJob'.leads = membersJob.leads /\ membersJob'.op = membersJob.op
  BY <1>0 DEF HomeInv, Members!TypeOK
<1>2. membersLists[w] = membersJob.snap[w]
        /\ membersLists[w] \in Members!Lists
        /\ membersJob.leads \subseteq MembersParams.Leads
      /\ membersExists \subseteq MembersParams.Segs
  BY <1>0 DEF HomeInv, HalfDone, Members!TypeOK
<1>3. Members!Assigned(w) \in Members!Lists
  BY <1>2 DEF Members!Assigned, Members!Lists
<1>4. Members!TypeOK'
  <2>1. membersLists' \in [MembersParams.Segs -> Members!Lists]
          /\ home'
              \in [MembersParams.Leads -> MembersParams.Segs
                \cup {MembersParams.NoSeg}]
    BY <1>0, <1>3 DEF HomeInv, Members!TypeOK
  <2>2. membersJob' \in Running
    <3>1. membersJob \in Running
      BY DEF HomeInv, Members!TypeOK, Running
    <3> QED
      BY <1>0, <3>1 DEF Running
  <2> QED
    BY <1>0, <2>1, <2>2 DEF HomeInv, Members!TypeOK, Running
<1>5. JobKnows' /\ EditsApart'
  BY <1>0, <1>1 DEF HomeInv, JobKnows, EditsApart
<1>6. \A s : Members!Assigned(s)' = Members!Assigned(s)
  BY <1>1 DEF Members!Assigned
<1>7. HalfDone'
  <2>1. membersJob'.target \in membersJob'.todo
          \/ \A l \in membersJob'.leads : home'[l] = membersJob'.target
    BY <1>0, <1>1, <1>2 DEF HomeInv, HalfDone
  <2>2. \A s \in membersExists' :
          /\ s \in membersJob'.todo => membersLists'[s] = membersJob'.snap[s]
          /\ s \notin membersJob'.todo
               => membersLists'[s] = Members!Assigned(s)'
    BY <1>0, <1>1, <1>2, <1>6 DEF HomeInv, HalfDone, Members!TypeOK
  <2> QED
    BY <2>1, <2>2 DEF HalfDone
<1>8. HomesTrue'
  <2>1. \A l \in MembersParams.Leads \ membersJob.leads :
          /\ home'[l] = home[l]
          /\ \A s \in membersExists : l \in membersLists'[s].incl
               <=> l \in membersLists[s].incl
    BY <1>0, <1>2 DEF Members!Assigned, HomeInv, Members!TypeOK
  <2>2. \A l \in MembersParams.Leads \ membersJob.leads : AtHome(l)
          => AtHome(l)'
    BY <1>0, <2>1 DEF AtHome, Listed
  <2> QED
    BY <1>0, <1>1, <2>2 DEF HomeInv, HomesTrue
<1>9. Spent'
  BY <1>0 DEF HomeInv, Spent
<1> QED
  BY <1>4, <1>5, <1>7, <1>8, <1>9 DEF HomeInv

\* All is written: the leads are where they were put.
LEMMA AssignEnds ==
  ASSUME Members!MembershipAssumption, HomeInv, Members!EndAssign
  PROVE  HomeInv'
<1>0. /\ membersJob.pc = "write" /\ torn' = torn \ membersJob.leads
      /\ \A s \in membersJob.todo :
           s # membersJob.target /\ Members!Assigned(s) = membersJob.snap[s]
      /\ UNCHANGED <<membersExists, membersLists, config, membersQueue,
                     arrived, edit, membersSetting, deleted, membersUsed,
                     home, steady>>
  BY DEF Members!EndAssign, Members!Unwritten
<1>1. \/ /\ membersJob.op = "auto"
         /\ membersJob' = [membersJob EXCEPT !.pc = "count"]
         /\ got' = [got EXCEPT ![membersJob.target] = @ + 1]
      \/ membersJob' = Members!Idle /\ got' = got
  BY DEF Members!EndAssign
<1>2. membersJob.target \in MembersParams.Segs /\ edit = Members!NoEdit
        /\ ~membersSetting.open
      /\ membersJob.leads \subseteq MembersParams.Leads
      /\ membersExists \subseteq MembersParams.Segs
  BY <1>0 DEF HomeInv, JobKnows, EditsApart, Members!TypeOK
<1>3. \A s \in membersExists : membersLists[s] = Members!Assigned(s)
  BY <1>0 DEF HomeInv, HalfDone
<1>4. \A l \in membersJob.leads : home[l] = membersJob.target
  BY <1>0 DEF HomeInv, HalfDone
<1>5. \A l \in membersJob.leads :
        Listed(l) = {membersJob.target} \cap membersExists
  <2>1. \A s : Members!Assigned(s).incl = IF s = membersJob.target
                                 THEN membersJob.snap[s].incl
                                   \cup membersJob.leads
                                 ELSE membersJob.snap[s].incl
                                   \ membersJob.leads
    BY DEF Members!Assigned
  <2>2. \A s \in membersExists, l \in membersJob.leads :
          l \in membersLists[s].incl <=> s = membersJob.target
    <3> SUFFICES ASSUME NEW s \in membersExists, NEW l \in membersJob.leads
                 PROVE  l \in membersLists[s].incl <=> s = membersJob.target
      OBVIOUS
    <3>1. membersLists[s].incl = IF s = membersJob.target
                          THEN membersJob.snap[s].incl \cup membersJob.leads
                          ELSE membersJob.snap[s].incl \ membersJob.leads
      BY <1>3, <2>1, Zenon
    <3> QED
      BY <3>1
  <2> QED
    BY <2>2 DEF Listed
<1>6. \A l \in membersJob.leads : AtHome(l)
  BY <1>4, <1>5 DEF AtHome
<1>7. HomesTrue'
  BY <1>0, <1>6 DEF HomeInv, HomesTrue, AtHome, Listed
<1>8. Members!TypeOK'
  <2>1. membersJob \in Running
    BY DEF HomeInv, Members!TypeOK, Running
  <2>2. membersJob' \in Running
    BY <1>1, <2>1, AtRest DEF Running
  <2>3. got \in [MembersParams.Segs -> Nat]
          /\ torn \subseteq MembersParams.Leads
    BY DEF HomeInv, Members!TypeOK
  <2>4. got' = got \/ got' = [got EXCEPT ![membersJob.target] = @ + 1]
    BY <1>1
  <2>5. got' \in [MembersParams.Segs -> Nat]
    BY <2>3, <2>4
  <2>6. torn' \subseteq MembersParams.Leads
    BY <1>0, <2>3
  <2> QED
    BY <1>0, <2>2, <2>5, <2>6 DEF HomeInv, Members!TypeOK, Running
<1>9. JobKnows'
  <2>1. \/ membersJob'.pc = "count" /\ membersJob'.target = membersJob.target
             /\ membersJob'.op = "auto"
        \/ membersJob' = Members!Idle /\ membersJob'.pc = "idle"
    BY <1>1, AtRest DEF HomeInv, Members!TypeOK
  <2> QED
    BY <1>0, <1>2, <2>1 DEF HomeInv, JobKnows
<1>10. EditsApart' /\ HalfDone'
  BY <1>0, <1>1, <1>2
     DEF EditsApart, HalfDone, Members!Idle, HomeInv, Members!TypeOK
<1>11. Spent'
  BY <1>0 DEF HomeInv, Spent
<1> QED
  BY <1>7, <1>8, <1>9, <1>10, <1>11 DEF HomeInv

\* A job that is cut short leaves its leads torn.
LEMMA JobCut ==
  ASSUME Members!MembershipAssumption, HomeInv,
         Members!JobFails \/ Members!Restart \/ \E s \in MembersParams.Segs :
           Members!WriteDeleted(s)
  PROVE  HomeInv'
<1>0. /\ torn' = torn \cup membersJob.leads /\ membersJob' = Members!Idle
      /\ UNCHANGED <<membersExists, membersLists, config, arrived, home, got,
                     steady>>
  BY DEF Members!JobFails, Members!Restart, Members!WriteDeleted
<1>1. \/ UNCHANGED <<membersQueue, edit, membersSetting, deleted>>
           /\ membersJob.pc # "idle"
      \/ membersQueue' = <<>> /\ edit' = Members!NoEdit
           /\ membersSetting' = Members!NoSetting /\ deleted' = {}
  BY DEF Members!JobFails, Members!Restart, Members!WriteDeleted, Members!NoJob
<1>2. Spent'
  BY DEF Members!JobFails, Members!Restart, Members!WriteDeleted, HomeInv,
     Spent, Members!Spend
<1>3. Members!TypeOK'
  <2>2. membersJob' \in Running
    BY <1>0, AtRest
  <2>3. membersQueue' \in Seq(Waiting) /\ deleted' \subseteq MembersParams.Segs
    <3>1. <<>> \in Seq(Waiting)
      OBVIOUS
    <3>2. membersQueue \in Seq(Waiting) /\ deleted \subseteq MembersParams.Segs
      BY DEF HomeInv, Members!TypeOK, Waiting
    <3> QED
      BY <1>1, <3>1, <3>2
  <2>4. /\ edit'
            \in [seg : MembersParams.Segs \cup {MembersParams.NoSeg},
                 without : SUBSET MembersParams.Leads,
                      snap : Members!Lists]
        /\ membersSetting'
             \in [open : BOOLEAN, counts : [MembersParams.Segs -> Nat]]
    <3>1. Members!NoEdit
            \in [seg : MembersParams.Segs \cup {MembersParams.NoSeg},
                 without : SUBSET MembersParams.Leads,
                              snap : Members!Lists]
      BY DEF Members!NoEdit, Members!Lists
    <3>2. Members!NoSetting
            \in [open : BOOLEAN, counts : [MembersParams.Segs -> Nat]]
      BY DEF Members!NoSetting
    <3> QED
      BY <1>1, <3>1, <3>2 DEF HomeInv, Members!TypeOK
  <2>5. torn' \subseteq MembersParams.Leads
    BY <1>0 DEF HomeInv, Members!TypeOK
  <2> QED
    BY <1>0, <2>2, <2>3, <2>4, <2>5
       DEF HomeInv, Members!TypeOK, Waiting, Running
<1>4. JobKnows'
  <2>1. membersQueue' = <<>> => Len(membersQueue') = 0
    OBVIOUS
  <2> QED
    BY <1>0, <1>1, <2>1 DEF HomeInv, JobKnows, Members!Idle
<1>5. EditsApart' /\ HalfDone'
  BY <1>0, <1>1
     DEF HomeInv, EditsApart, HalfDone, Members!Idle, Members!NoSetting
<1>6. HomesTrue'
  BY <1>0, HomesKept DEF HomeInv
<1> QED
  BY <1>2, <1>3, <1>4, <1>5, <1>6 DEF HomeInv

\* An edit of a segment, that meets no job.
LEMMA EditReads ==
  ASSUME Members!MembershipAssumption, HomeInv, NEW s \in MembersParams.Segs,
         NEW L \in SUBSET MembersParams.Leads,
         Members!EditRead(s, L)
  PROVE  HomeInv'
<1>0. /\ s \in membersExists /\ edit = Members!NoEdit /\ membersJob.pc = "idle"
      /\ edit' = [seg |-> s, without |-> L, snap |-> membersLists[s]]
      /\ UNCHANGED <<membersExists, membersLists, config, membersQueue,
                     membersJob, arrived, membersSetting, deleted, home, got,
                     torn, steady>>
  BY DEF Members!EditRead, Members!NoJob, HomeInv
<1>1. Spent'
  BY DEF Members!EditRead, HomeInv, Spent, Members!Spend
<1>2. Members!TypeOK'
  BY <1>0 DEF HomeInv, Members!TypeOK
<1>3. JobKnows' /\ EditsApart' /\ HalfDone'
  BY <1>0 DEF HomeInv, JobKnows, EditsApart, HalfDone
<1>4. HomesTrue'
  BY <1>0, HomesKept DEF HomeInv
<1> QED
  BY <1>1, <1>2, <1>3, <1>4 DEF HomeInv

LEMMA EditWrites ==
  ASSUME Members!MembershipAssumption, HomeInv, Members!EditWrite
  PROVE  HomeInv'
<1>0. /\ edit # Members!NoEdit /\ edit' = Members!NoEdit
      /\ UNCHANGED <<membersExists, config, membersQueue, membersJob, arrived,
                     membersSetting, deleted, membersUsed, got, torn, steady>>
  BY DEF Members!EditWrite
<1>1. /\ membersJob.pc = "idle" /\ edit.seg \in MembersParams.Segs
      /\ edit.snap = membersLists[edit.seg]
      /\ membersLists[edit.seg] \in Members!Lists
      /\ edit.without \subseteq MembersParams.Leads
      /\ membersExists \subseteq MembersParams.Segs
      /\ MembersParams.NoSeg \notin MembersParams.Segs
  BY <1>0 DEF HomeInv, EditsApart, Members!TypeOK, Members!MembershipAssumption
<1>2. \/ edit.seg \notin membersExists /\ UNCHANGED <<membersLists, home>>
      \/ /\ edit.seg \in membersExists
         /\ membersLists' = [membersLists EXCEPT ![edit.seg] =
                        [incl |-> edit.snap.incl \ edit.without,
                         excl |-> edit.snap.excl \cup edit.without]]
         /\ home' = [l \in MembersParams.Leads |->
                       IF l \in edit.without /\ home[l] = edit.seg
                       THEN MembersParams.NoSeg ELSE home[l]]
  BY DEF Members!EditWrite
<1>3. Members!TypeOK'
  <2>1. membersLists' \in [MembersParams.Segs -> Members!Lists]
    <3>1. [incl |-> edit.snap.incl \ edit.without,
           excl |-> edit.snap.excl \cup edit.without] \in Members!Lists
      BY <1>1 DEF Members!Lists
    <3>2. membersLists \in [MembersParams.Segs -> Members!Lists]
            /\ edit.seg \in MembersParams.Segs
      BY <1>1 DEF HomeInv, Members!TypeOK
    <3> QED
      BY <1>2, <3>1, <3>2
  <2>2. home' \in [MembersParams.Leads -> MembersParams.Segs
          \cup {MembersParams.NoSeg}]
    BY <1>1, <1>2 DEF HomeInv, Members!TypeOK
  <2>3. edit' \in [seg : MembersParams.Segs \cup {MembersParams.NoSeg},
                   without : SUBSET MembersParams.Leads,
                   snap : Members!Lists]
    BY <1>0 DEF Members!NoEdit, Members!Lists
  <2> QED
    BY <1>0, <2>1, <2>2, <2>3 DEF HomeInv, Members!TypeOK
<1>4. JobKnows' /\ EditsApart' /\ HalfDone'
  BY <1>0, <1>1 DEF HomeInv, JobKnows, EditsApart, HalfDone
<1>5. HomesTrue'
  <2>1. CASE UNCHANGED <<membersLists, home>>
    BY <1>0, <2>1, HomesKept DEF HomeInv
  <2>2. CASE /\ edit.seg \in membersExists
             /\ membersLists' = [membersLists EXCEPT ![edit.seg] =
                            [incl |-> edit.snap.incl \ edit.without,
                             excl |-> edit.snap.excl \cup edit.without]]
             /\ home' = [l \in MembersParams.Leads |->
                           IF l \in edit.without /\ home[l] = edit.seg
                           THEN MembersParams.NoSeg ELSE home[l]]
    <3>1. \A l \in MembersParams.Leads :
            Listed(l)' = IF l \in edit.without THEN Listed(l) \ {edit.seg}
                                               ELSE Listed(l)
      <4>1. \A s \in membersExists : s # edit.seg
              => membersLists'[s] = membersLists[s]
        BY <2>2, <1>1 DEF HomeInv, Members!TypeOK
      <4>2. membersLists'[edit.seg].incl
              = membersLists[edit.seg].incl \ edit.without
        BY <2>2, <1>1 DEF HomeInv, Members!TypeOK
      <4> QED
        BY <1>0, <4>1, <4>2 DEF Listed
    <3>2. \A l \in MembersParams.Leads : AtHome(l) => AtHome(l)'
      <4> SUFFICES ASSUME NEW l \in MembersParams.Leads, AtHome(l)
                          PROVE AtHome(l)'
        OBVIOUS
      <4>1. CASE l \in edit.without /\ home[l] = edit.seg
        BY <1>0, <1>1, <2>2, <3>1, <4>1 DEF AtHome
      <4>2. CASE ~(l \in edit.without /\ home[l] = edit.seg)
        BY <1>0, <1>1, <2>2, <3>1, <4>2 DEF AtHome
      <4> QED
        BY <4>1, <4>2
    <3> QED
      BY <1>0, <1>1, <3>2 DEF HomeInv, HomesTrue
  <2> QED
    BY <1>2, <2>1, <2>2
<1>6. Spent'
  BY <1>0 DEF HomeInv, Spent
<1> QED
  BY <1>3, <1>4, <1>5, <1>6 DEF HomeInv

\* The settings of the distribution.
LEMMA SettingChanges ==
  ASSUME Members!MembershipAssumption, HomeInv,
         \/ Members!SettingRead \/ Members!SettingStop
         \/ \E a \in BOOLEAN, R \in SUBSET MembersParams.Segs :
              Members!SettingWrite(a, R)
  PROVE  HomeInv'
<1>0. UNCHANGED <<membersExists, membersLists, membersQueue, membersJob,
                  arrived, edit, deleted, home, got, torn>>
  BY DEF Members!SettingRead, Members!SettingStop, Members!SettingWrite
<1>1. Spent'
  <2>1. membersUsed' = membersUsed
          \/ membersUsed' = [membersUsed EXCEPT !["edits"] = @ + 1]
    BY DEF Members!SettingRead, Members!SettingStop, Members!SettingWrite,
       Members!Spend
  <2> QED
    BY <2>1 DEF HomeInv, Spent
<1>2. config' \in Members!Config
  <2>1. config \in Members!Config
          /\ membersSetting.counts \in [MembersParams.Segs -> Nat]
    BY DEF HomeInv, Members!TypeOK
  <2>2. ASSUME NEW a \in BOOLEAN, NEW R \in SUBSET MembersParams.Segs,
               Members!SettingWrite(a, R)
        PROVE  config' \in Members!Config
    BY <2>1, <2>2 DEF Members!SettingWrite, Members!Config
  <2>3. CASE Members!SettingRead \/ Members!SettingStop
    BY <2>1, <2>3, AtRest DEF Members!SettingRead, Members!SettingStop
  <2> QED
    BY <2>2, <2>3
<1>3. membersSetting'
        \in [open : BOOLEAN, counts : [MembersParams.Segs -> Nat]]
  <2>1. config.counts \in [MembersParams.Segs -> Nat]
    BY DEF HomeInv, Members!TypeOK, Members!Config
  <2>2. membersSetting' = [open |-> TRUE, counts |-> config.counts]
          \/ membersSetting' = Members!NoSetting
    BY DEF Members!SettingRead, Members!SettingStop, Members!SettingWrite
  <2>3. Members!NoSetting
          \in [open : BOOLEAN, counts : [MembersParams.Segs -> Nat]]
    BY DEF Members!NoSetting
  <2>4. [open |-> TRUE, counts |-> config.counts]
          \in [open : BOOLEAN, counts : [MembersParams.Segs -> Nat]]
    BY <2>1
  <2> QED
    BY <2>2, <2>3, <2>4
<1>4. steady' \in BOOLEAN
  BY DEF Members!SettingRead, Members!SettingStop, Members!SettingWrite,
     HomeInv, Members!TypeOK
<1>5. Members!TypeOK'
  BY <1>0, <1>2, <1>3, <1>4 DEF HomeInv, Members!TypeOK
<1>6. membersJob.pc = "idle"
  BY DEF Members!SettingRead, Members!SettingStop, Members!SettingWrite,
     HomeInv, EditsApart, Members!NoJob
<1>7. JobKnows' /\ EditsApart' /\ HalfDone'
  BY <1>0, <1>6 DEF HomeInv, JobKnows, EditsApart, HalfDone
<1>8. HomesTrue'
  BY <1>0, HomesKept DEF HomeInv
<1> QED
  BY <1>1, <1>5, <1>7, <1>8 DEF HomeInv

LEMMA HomeStep == Members!MembershipAssumption /\ HomeInv
                    /\ [Members!Next]_(Members!vars) => HomeInv'
<1> SUFFICES ASSUME Members!MembershipAssumption, HomeInv,
                    [Members!Next]_(Members!vars) PROVE HomeInv'
  OBVIOUS
<1>1. CASE UNCHANGED Members!vars
  <2>1. Members!TypeOK' /\ Spent' /\ JobKnows'
    BY <1>1 DEF Members!vars, HomeInv, Members!TypeOK, Spent, JobKnows
  <2>2. EditsApart' /\ HalfDone' /\ HomesTrue'
    BY <1>1
       DEF Members!vars, HomeInv, EditsApart, HalfDone, HomesTrue,
       Members!Assigned, AtHome, Listed
  <2> QED
    BY <2>1, <2>2 DEF HomeInv
<1>2. CASE Members!Next
  BY <1>2, JobJoins, SegmentDeleted, JobStarts, JobReads, SiblingsRead,
     SegmentWritten, AssignEnds, JobCut, EditReads, EditWrites, SettingChanges
  DEF Members!Next, Members!JobStep, Members!EditStep
<1> QED
  BY <1>1, <1>2

LEMMA HomeHolds == HomeInv => Members!OneHome
BY DEF HomeInv, HomesTrue, AtHome, Listed, Members!OneHome, Members!NoJob

-----------------------------------------------------------------------------
\* How the counts are kept.

\* The lead that is assigned but not counted.
Pending(s) == IF membersJob.pc = "count" /\ membersJob.target = s THEN 1 ELSE 0

\* As long as the rules stay, what a distribution has read is still so.
Undisturbed ==
  /\ membersExists = MembersParams.Segs /\ deleted = {}
  /\ config.rules = MembersParams.Segs
  /\ membersJob.pc # "forget"
  /\ membersJob.pc = "config" => membersJob.op = "auto"
  /\ \A i \in 1..Len(membersQueue) : membersQueue[i].op # "cleanup"
  /\ membersSetting.open => membersSetting.counts = config.counts
  /\ membersJob.op = "auto" /\ membersJob.pc \notin {"idle", "config"}
       => membersJob.config = config

\* The segment chosen is the one whose count is lowest for its weight.
Lowest ==
  membersJob.op = "auto"
    /\ membersJob.pc \in {"check", "read", "write", "count"} =>
    \A s \in MembersParams.Segs :
      config.counts[membersJob.target] * MembersParams.Weight[s]
        <= config.counts[s] * MembersParams.Weight[membersJob.target]

\* The counts are shared out by weight, and are what the segments have got.
Balanced ==
  \A r, s \in MembersParams.Segs :
    (config.counts[r] - 1) * MembersParams.Weight[s]
      <= config.counts[s] * MembersParams.Weight[r]

Counts ==
  \A s \in MembersParams.Segs :
    /\ config.counts[s] + Pending(s) <= got[s]
    /\ got[s] <= config.counts[s] + Pending(s) + membersUsed.faults

ShareInv ==
  HomeInv /\ (steady => Undisturbed /\ Lowest /\ Balanced /\ Counts)

LEMMA ShareInit == Members!MembershipAssumption /\ ~MembersParams.Overlap
                     /\ Members!Init => ShareInv
<1> SUFFICES ASSUME Members!MembershipAssumption, ~MembersParams.Overlap,
                    Members!Init PROVE ShareInv
  OBVIOUS
<1>1. HomeInv
  BY HomeInit
<1>2. /\ config.rules = MembersParams.Segs /\ \A s \in MembersParams.Segs :
           config.counts[s] = 0
      /\ membersJob.pc = "idle" /\ membersJob.op = "none"
      /\ Len(membersQueue) = 0
      /\ got = [s \in MembersParams.Segs |-> 0] /\ membersUsed.faults = 0
      /\ membersExists = MembersParams.Segs /\ deleted = {}
      /\ ~membersSetting.open
  BY DEF Members!Init, Members!Fresh, Members!Idle, Members!NoSetting
<1>3. Undisturbed /\ Lowest
  BY <1>2 DEF Undisturbed, Lowest
<1>4. Balanced
  <2> SUFFICES ASSUME NEW r \in MembersParams.Segs,
                      NEW s \in MembersParams.Segs
               PROVE  (0 - 1) * MembersParams.Weight[s]
                        <= 0 * MembersParams.Weight[r]
    BY <1>2 DEF Balanced
  <2>1. MembersParams.Weight[s] \in Nat /\ MembersParams.Weight[r] \in Nat
    BY DEF Members!MembershipAssumption
  <2> QED
    BY <2>1
<1>5. Counts
  BY <1>2 DEF Counts, Pending
<1> QED
  BY <1>1, <1>3, <1>4, <1>5 DEF ShareInv

LEMMA Numbers ==
  ASSUME Members!MembershipAssumption, HomeInv
  PROVE  /\ \A s \in MembersParams.Segs :
              config.counts[s] \in Nat /\ MembersParams.Weight[s] \in Nat
                            /\ got[s] \in Nat /\ MembersParams.Weight[s] > 0
         /\ membersUsed.faults \in Nat
         /\ config.counts \in [MembersParams.Segs -> Nat]
         /\ membersJob \in Running /\ config \in Members!Config
<1>1. config \in Members!Config /\ got \in [MembersParams.Segs -> Nat]
        /\ membersJob \in Running
  BY DEF HomeInv, Members!TypeOK, Running
<1> QED
  BY <1>1 DEF Members!Config, HomeInv, Spent, Members!MembershipAssumption

LEMMA TimesMore ==
  ASSUME NEW a \in Int, NEW b \in Int, a <= b, NEW w \in Nat
  PROVE  a * w <= b * w
OBVIOUS

\* Steps that leave the job, the counts and the rules as they are.
LEMMA ShareQuiet ==
  ASSUME Members!MembershipAssumption, ShareInv, steady, steady',
         \/ \E l \in MembersParams.Leads : Members!Arrive(l)
         \/ \E t \in MembersParams.Segs, L \in SUBSET MembersParams.Leads :
              Members!Assign(t, L)
         \/ \E s \in MembersParams.Segs :
              Members!DeleteSegment(s) \/ Members!QueueCleanup(s)
         \/ \E s \in MembersParams.Segs, L \in SUBSET MembersParams.Leads :
              Members!EditRead(s, L)
         \/ Members!EditWrite \/ Members!SettingRead \/ Members!SettingStop
  PROVE  Undisturbed' /\ Lowest' /\ Balanced' /\ Counts'
<1>1. Undisturbed /\ Lowest /\ Balanced /\ Counts /\ Members!TypeOK /\ Spent
  BY DEF ShareInv, HomeInv
<1>2. /\ ~Members!SettingStop /\ \A s \in MembersParams.Segs :
           ~Members!DeleteSegment(s) /\ ~Members!QueueCleanup(s)
  BY <1>1
     DEF Members!SettingStop, Members!DeleteSegment, Members!QueueCleanup,
     Undisturbed
<1>3. /\ UNCHANGED <<membersExists, config, membersJob, got, deleted>>
      /\ membersSetting' = membersSetting
         \/ membersSetting' = [open |-> TRUE, counts |-> config.counts]
  BY <1>2
     DEF Members!Arrive, Members!Assign, Members!EditRead, Members!EditWrite,
     Members!SettingRead
<1>4. membersUsed'.faults = membersUsed.faults
  <2>1. \/ membersUsed' = membersUsed
             \/ membersUsed' = [membersUsed EXCEPT !["assigns"] = @ + 1]
        \/ membersUsed' = [membersUsed EXCEPT !["edits"] = @ + 1]
    BY <1>2
       DEF Members!Arrive, Members!Assign, Members!EditRead,
       Members!EditWrite, Members!SettingRead, Members!Spend
  <2> QED
    BY <1>1, <2>1 DEF Spent
<1>5. \A i \in 1..Len(membersQueue') : membersQueue'[i].op # "cleanup"
  <2>1. ASSUME NEW w \in Waiting, w.op # "cleanup",
               membersQueue' = Append(membersQueue, w)
        PROVE  \A i \in 1..Len(membersQueue') : membersQueue'[i].op # "cleanup"
    BY <1>1, <2>1, JoinsQueue DEF Undisturbed
  <2>2. ASSUME NEW l \in MembersParams.Leads, Members!Arrive(l)
        PROVE  \A i \in 1..Len(membersQueue') : membersQueue'[i].op # "cleanup"
    <3>1. /\ Members!Job("auto", MembersParams.NoSeg, {l}) \in Waiting
          /\ Members!Job("auto", MembersParams.NoSeg, {l}).op = "auto"
      BY DEF Members!Job, Waiting
    <3> QED
      BY <2>1, <2>2, <3>1 DEF Members!Arrive
  <2>3. ASSUME NEW t \in MembersParams.Segs,
               NEW L \in SUBSET MembersParams.Leads, Members!Assign(t, L)
        PROVE  \A i \in 1..Len(membersQueue') : membersQueue'[i].op # "cleanup"
    <3>1. Members!Job("assign", t, L) \in Waiting
            /\ Members!Job("assign", t, L).op = "assign"
      BY DEF Members!Job, Waiting
    <3> QED
      BY <2>1, <2>3, <3>1 DEF Members!Assign
  <2>4. CASE UNCHANGED membersQueue
    BY <1>1, <2>4 DEF Undisturbed
  <2> QED
    BY <1>2, <2>2, <2>3, <2>4
       DEF Members!EditRead, Members!EditWrite, Members!SettingRead
<1>6. Undisturbed'
  BY <1>1, <1>3, <1>5 DEF Undisturbed
<1>7. Lowest' /\ Balanced'
  BY <1>1, <1>3 DEF Lowest, Balanced
<1>8. Counts'
  BY <1>1, <1>3, <1>4 DEF Counts, Pending
<1> QED
  BY <1>6, <1>7, <1>8

\* New settings with the same rules keep the counts.
LEMMA SettingKeeps ==
  ASSUME Members!MembershipAssumption, ShareInv, steady, steady',
         NEW a \in BOOLEAN, NEW R \in SUBSET MembersParams.Segs,
           Members!SettingWrite(a, R)
  PROVE  Undisturbed' /\ Lowest' /\ Balanced' /\ Counts'
<1>1. Undisturbed /\ Lowest /\ Balanced /\ Counts /\ membersJob.pc = "idle"
  BY DEF ShareInv, HomeInv, EditsApart, Members!SettingWrite
<1>2. /\ config'.counts = config.counts /\ config'.rules = config.rules
      /\ UNCHANGED <<membersExists, membersJob, got, deleted, membersQueue,
                     membersUsed>>
      /\ ~membersSetting'.open
  BY <1>1, AtRest DEF Members!SettingWrite, Undisturbed
<1>3. Undisturbed'
  BY <1>1, <1>2 DEF Undisturbed
<1>4. Lowest' /\ Balanced' /\ Counts'
  BY <1>1, <1>2 DEF Lowest, Balanced, Counts, Pending
<1> QED
  BY <1>3, <1>4

\* Steps of a job up to the end of its assignment.
LEMMA JobMoves ==
  ASSUME Members!MembershipAssumption, ShareInv, steady,
         \/ Members!StartJob \/ Members!ReadConfig \/ Members!CheckTarget
              \/ Members!ReadSiblings
         \/ \E s \in MembersParams.Segs : Members!WriteSegment(s)
  PROVE  Undisturbed' /\ Lowest' /\ Balanced' /\ Counts'
<1>1. /\ Undisturbed /\ Lowest /\ Balanced /\ Counts /\ JobKnows
      /\ Members!TypeOK
      /\ membersJob \in Running
  BY Numbers DEF ShareInv, HomeInv
<1>2. UNCHANGED <<membersExists, config, got, deleted, membersSetting,
                  membersUsed>>
  BY DEF Members!StartJob, Members!ReadConfig, Members!CheckTarget,
     Members!ReadSiblings, Members!WriteSegment
<1>3. \A i \in 1..Len(membersQueue') : membersQueue'[i].op # "cleanup"
  <2>1. CASE Members!StartJob
    BY <1>1, <2>1, InQueue DEF Members!StartJob, Undisturbed
  <2>2. CASE UNCHANGED membersQueue
    BY <1>1, <2>2 DEF Undisturbed
  <2> QED
    BY <2>1, <2>2
       DEF Members!ReadConfig, Members!CheckTarget, Members!ReadSiblings,
       Members!WriteSegment
<1>4. /\ membersJob.pc # "count" /\ membersJob'.pc \notin {"count", "forget"}
      /\ membersJob'.pc = "config" => membersJob'.op = "auto"
      /\ membersJob'.op = "auto" /\ membersJob'.pc \notin {"idle", "config"}
           => /\ membersJob'.config = config /\ membersJob.op = "auto"
              /\ \/ membersJob'.pc = "choose"
                 \/ /\ membersJob.pc \in {"check", "read", "write"}
                    /\ membersJob'.target = membersJob.target
  <2>1. CASE Members!StartJob
    <3>1. /\ Head(membersQueue) \in Waiting
          /\ Head(membersQueue).op # "cleanup"
      BY <1>1, <2>1, InQueue DEF Members!StartJob, Undisturbed
    <3>2. /\ membersJob'.op = Head(membersQueue).op
          /\ membersJob'.pc = IF Head(membersQueue).op = "assign"
               THEN "check" ELSE "config"
          /\ membersJob.pc = "idle"
      BY <2>1, AtRest DEF Members!StartJob, Members!NoJob, Running
    <3> QED
      BY <3>1, <3>2 DEF Waiting
  <2>2. CASE Members!ReadConfig
    BY <1>1, <2>2, AtRest DEF Members!ReadConfig, Undisturbed, Running
  <2>3. CASE Members!CheckTarget
    BY <1>1, <2>3, AtRest
       DEF Members!CheckTarget, Undisturbed, JobKnows, Running
  <2>4. CASE Members!ReadSiblings
    BY <1>1, <2>4 DEF Members!ReadSiblings, Undisturbed, Running
  <2>5. CASE \E s \in MembersParams.Segs : Members!WriteSegment(s)
    BY <1>1, <2>5 DEF Members!WriteSegment, Undisturbed, Running
  <2> QED
    BY <2>1, <2>2, <2>3, <2>4, <2>5
<1>5. Undisturbed'
  BY <1>1, <1>2, <1>3, <1>4 DEF Undisturbed
<1>6. Lowest' /\ Balanced'
  BY <1>1, <1>2, <1>4 DEF Lowest, Balanced
<1>7. Counts'
  BY <1>1, <1>2, <1>4 DEF Counts, Pending
<1> QED
  BY <1>5, <1>6, <1>7

LEMMA ChooseMoves ==
  ASSUME Members!MembershipAssumption, ShareInv, steady, Members!ChooseSegment
  PROVE  Undisturbed' /\ Lowest' /\ Balanced' /\ Counts'
<1>1. /\ Undisturbed /\ Lowest /\ Balanced /\ Counts /\ JobKnows
      /\ membersJob \in Running
  BY Numbers DEF ShareInv, HomeInv
<1>2. /\ membersJob.pc = "choose" /\ membersJob.op = "auto"
      /\ membersJob.config = config
      /\ UNCHANGED <<membersExists, config, got, deleted, membersSetting,
                     membersUsed, membersQueue>>
  BY <1>1 DEF Members!ChooseSegment, Undisturbed, JobKnows
<1>3. \/ membersJob' = Members!Idle /\ membersJob'.pc = "idle"
      \/ \E t \in MembersParams.Segs :
           /\ \A s \in MembersParams.Segs :
                config.counts[t] * MembersParams.Weight[s]
                                <= config.counts[s] * MembersParams.Weight[t]
           /\ membersJob' = [membersJob EXCEPT !.target = t, !.pc = "check"]
  BY <1>1, <1>2, AtRest DEF Members!ChooseSegment, Undisturbed
<1>4. Undisturbed'
  BY <1>1, <1>2, <1>3 DEF Undisturbed, Running
<1>5. Lowest'
  BY <1>1, <1>2, <1>3 DEF Lowest, Running
<1>6. membersJob'.pc # "count"
  BY <1>1, <1>3 DEF Running
<1>7. Balanced' /\ Counts'
  BY <1>1, <1>2, <1>6 DEF Balanced, Counts, Pending
<1> QED
  BY <1>4, <1>5, <1>7

\* A lead that has been assigned waits for its count.
LEMMA EndMoves ==
  ASSUME Members!MembershipAssumption, ShareInv, steady, Members!EndAssign
  PROVE  Undisturbed' /\ Lowest' /\ Balanced' /\ Counts'
<1>1. /\ Undisturbed /\ Lowest /\ Balanced /\ Counts /\ JobKnows
      /\ membersJob \in Running /\ got \in [MembersParams.Segs -> Nat]
  BY Numbers DEF ShareInv, HomeInv, Members!TypeOK
<1>2. /\ membersJob.pc = "write" /\ membersJob.target \in MembersParams.Segs
      /\ UNCHANGED <<membersExists, config, deleted, membersSetting,
                     membersUsed, membersQueue>>
  BY <1>1 DEF Members!EndAssign, JobKnows
<1>3. \/ membersJob' = Members!Idle /\ membersJob'.pc = "idle" /\ got' = got
      \/ /\ membersJob'.pc = "count"
         /\ membersJob'.target = membersJob.target /\ membersJob'.op = "auto"
         /\ membersJob'.config = membersJob.config /\ membersJob.op = "auto"
         /\ got' = [got EXCEPT ![membersJob.target] = @ + 1]
  BY <1>1, AtRest DEF Members!EndAssign, Running
<1>4. Undisturbed' /\ Lowest'
  BY <1>1, <1>2, <1>3 DEF Undisturbed, Lowest
<1>5. Balanced'
  BY <1>1, <1>2 DEF Balanced
<1>6. Counts'
  BY <1>1, <1>2, <1>3, Numbers DEF Counts, Pending, ShareInv
<1> QED
  BY <1>4, <1>5, <1>6

\* The count of the lowest goes up by one.
LEMMA CountMoves ==
  ASSUME Members!MembershipAssumption, ShareInv, steady, Members!CountLead
  PROVE  Undisturbed' /\ Lowest' /\ Balanced' /\ Counts'
<1> DEFINE t == membersJob.target
           c == config.counts
<1>1. /\ Undisturbed /\ Lowest /\ Balanced /\ Counts /\ JobKnows
      /\ membersJob \in Running /\ config \in Members!Config
  BY Numbers DEF ShareInv, HomeInv
<1>2. /\ membersJob.pc = "count" /\ membersJob.op = "auto"
      /\ t \in MembersParams.Segs
      /\ membersJob.config = config /\ membersJob' = Members!Idle
      /\ membersJob'.pc = "idle"
      /\ config' = [config EXCEPT !.counts[t] = @ + 1]
      /\ UNCHANGED <<membersExists, got, deleted, membersSetting, membersUsed,
                     membersQueue>>
  BY <1>1, AtRest DEF Members!CountLead, JobKnows, Undisturbed
<1>3. /\ config'.rules = config.rules /\ config'.counts[t] = c[t] + 1
      /\ \A s \in MembersParams.Segs : s # t => config'.counts[s] = c[s]
  BY <1>1, <1>2 DEF Members!Config
<1>4. ~membersSetting.open
  BY <1>2 DEF ShareInv, HomeInv, EditsApart
<1>5. Undisturbed'
  BY <1>1, <1>2, <1>3, <1>4 DEF Undisturbed
<1>6. Lowest'
  BY <1>2 DEF Lowest
<1>7. Balanced'
  <2> SUFFICES ASSUME NEW r \in MembersParams.Segs,
                      NEW s \in MembersParams.Segs
               PROVE  (config'.counts[r] - 1) * MembersParams.Weight[s]
                        <= config'.counts[s] * MembersParams.Weight[r]
    BY DEF Balanced
  <2>1. /\ c[r] \in Nat /\ c[s] \in Nat /\ MembersParams.Weight[r] \in Nat
        /\ MembersParams.Weight[s] \in Nat /\ c[t] \in Nat
    BY <1>2, Numbers DEF ShareInv
  <2>2. config'.counts[s] \in Nat /\ c[s] <= config'.counts[s]
    BY <1>3, <2>1
  <2>3. c[s] * MembersParams.Weight[r]
          <= config'.counts[s] * MembersParams.Weight[r]
    BY <2>1, <2>2, TimesMore
  <2>4. (config'.counts[r] - 1) * MembersParams.Weight[s]
          <= c[s] * MembersParams.Weight[r]
    <3>1. CASE r = t
      <4>1. config'.counts[r] - 1 = c[r]
        BY <1>3, <2>1, <3>1
      <4>2. c[t] * MembersParams.Weight[s] <= c[s] * MembersParams.Weight[t]
        BY <1>1, <1>2 DEF Lowest
      <4> QED
        BY <3>1, <4>1, <4>2
    <3>2. CASE r # t
      <4>1. config'.counts[r] = c[r]
        BY <1>3, <3>2
      <4> QED
        BY <1>1, <4>1 DEF Balanced
    <3> QED
      BY <3>1, <3>2
  <2>5. /\ (config'.counts[r] - 1) * MembersParams.Weight[s] \in Int
        /\ c[s] * MembersParams.Weight[r] \in Int
        /\ config'.counts[s] * MembersParams.Weight[r] \in Int
    <3>1. config'.counts[r] \in Nat
      BY <1>3, <2>1
    <3> QED
      BY <2>1, <2>2, <3>1
  <2> QED
    BY <2>3, <2>4, <2>5
<1>8. Counts'
  <2>1. \A s \in MembersParams.Segs : c[s] \in Nat
    BY Numbers DEF ShareInv
  <2> HIDE DEF t, c
  <2> QED
    BY <1>1, <1>2, <1>3, <2>1 DEF Counts, Pending, t, c
<1> QED
  BY <1>5, <1>6, <1>7, <1>8

\* A job that is cut short may leave one lead uncounted.
LEMMA CutMoves ==
  ASSUME Members!MembershipAssumption, ShareInv, steady,
         Members!JobFails \/ Members!Restart \/ \E s \in MembersParams.Segs :
           Members!WriteDeleted(s)
  PROVE  Undisturbed' /\ Lowest' /\ Balanced' /\ Counts'
<1>1. /\ Undisturbed /\ Lowest /\ Balanced /\ Counts /\ Members!TypeOK /\ Spent
      /\ \A s \in MembersParams.Segs : ~Members!WriteDeleted(s)
  BY DEF ShareInv, HomeInv, Undisturbed, Members!WriteDeleted
<1>2. /\ membersJob' = Members!Idle /\ membersJob'.pc = "idle"
      /\ membersUsed' = [membersUsed EXCEPT !["faults"] = @ + 1]
      /\ UNCHANGED <<membersExists, config, got>>
      /\ deleted' \subseteq deleted
      /\ membersQueue' = membersQueue \/ membersQueue' = <<>>
      /\ membersSetting' = membersSetting \/ ~membersSetting'.open
  BY <1>1, AtRest DEF Members!JobFails, Members!Restart, Members!Spend
<1>3. membersUsed'.faults = membersUsed.faults + 1
        /\ membersUsed.faults \in Nat
  BY <1>1, <1>2 DEF Spent
<1>4. \A i \in 1..Len(membersQueue') : membersQueue'[i].op # "cleanup"
  <2>1. membersQueue' = <<>> => Len(membersQueue') = 0
    OBVIOUS
  <2> QED
    BY <1>1, <1>2, <2>1 DEF Undisturbed
<1>5. Undisturbed' /\ Lowest' /\ Balanced'
  BY <1>1, <1>2, <1>4 DEF Undisturbed, Lowest, Balanced
<1>6. \A s \in MembersParams.Segs : Pending(s) \in 0..1 /\ Pending(s)' = 0
  BY <1>2 DEF Pending
<1>7. \A s \in MembersParams.Segs : config.counts[s] \in Nat /\ got[s] \in Nat
  BY Numbers DEF ShareInv
<1>8. \A s \in MembersParams.Segs : /\ config.counts[s] + Pending(s) <= got[s]
                     /\ got[s]
                          <= config.counts[s] + Pending(s) + membersUsed.faults
  BY <1>1 DEF Counts
<1>9. ASSUME NEW s \in MembersParams.Segs
      PROVE  /\ config'.counts[s] + Pending(s)' <= got'[s]
             /\ got'[s]
                  <= config'.counts[s] + Pending(s)' + membersUsed'.faults
  <2>1. Pending(s) = 0 \/ Pending(s) = 1
    BY <1>6
  <2>2. /\ config'.counts[s] = config.counts[s] /\ got'[s] = got[s]
        /\ membersUsed'.faults = membersUsed.faults + 1 /\ Pending(s)' = 0
    BY <1>2, <1>3, <1>6
  <2>3. /\ config.counts[s] \in Nat /\ got[s] \in Nat
        /\ membersUsed.faults \in Nat
    BY <1>3, <1>7
  <2>4. /\ config.counts[s] + Pending(s) <= got[s]
        /\ got[s] <= config.counts[s] + Pending(s) + membersUsed.faults
    BY <1>8
  <2> QED
    BY <2>1, <2>2, <2>3, <2>4
<1>10. Counts'
  BY <1>9 DEF Counts
<1> QED
  BY <1>5, <1>10

LEMMA ShareStep == Members!MembershipAssumption /\ ShareInv
                     /\ [Members!Next]_(Members!vars) => ShareInv'
<1> SUFFICES ASSUME Members!MembershipAssumption, ShareInv,
                    [Members!Next]_(Members!vars) PROVE ShareInv'
  OBVIOUS
<1>1. HomeInv'
  BY HomeStep DEF ShareInv
<1>2. ASSUME steady', Members!Next
      PROVE  steady
  <2>1. CASE Members!JobStep
    BY <1>2, <2>1
       DEF Members!JobStep, Members!StartJob, Members!ReadConfig,
       Members!ChooseSegment, Members!CheckTarget, Members!ReadSiblings,
       Members!WriteSegment, Members!WriteDeleted, Members!EndAssign,
       Members!CountLead, Members!ForgetSegment
  <2>2. CASE Members!EditStep
    BY <1>2, <2>2
       DEF Members!EditStep, Members!EditWrite, Members!SettingWrite,
       Members!SettingStop
  <2>3. CASE ~Members!JobStep /\ ~Members!EditStep
    BY <1>2, <2>3
       DEF Members!Next, Members!Arrive, Members!Assign,
       Members!DeleteSegment, Members!QueueCleanup, Members!JobFails,
       Members!Restart, Members!EditRead, Members!SettingRead
  <2> QED
    BY <2>1, <2>2, <2>3, ZenonT(40)
<1>3. CASE UNCHANGED Members!vars
  <2>2. /\ Undisturbed => Undisturbed'
        /\ Lowest => Lowest'
        /\ Balanced => Balanced'
        /\ Counts => Counts'
    BY <1>3 DEF Members!vars, Undisturbed, Lowest, Balanced, Counts, Pending
  <2> QED
    BY <1>1, <1>3, <2>2 DEF Members!vars, ShareInv
<1>4. ASSUME steady', Members!Next
      PROVE  Undisturbed' /\ Lowest' /\ Balanced' /\ Counts'
  <2>1. steady
    BY <1>2, <1>4
  <2>2. ~Members!ForgetSegment
    BY <2>1 DEF ShareInv, Undisturbed, Members!ForgetSegment
  <2> QED
    BY <1>4, <2>1, <2>2, ShareQuiet, SettingKeeps, JobMoves, ChooseMoves,
       EndMoves, CountMoves, CutMoves
    DEF Members!Next, Members!JobStep, Members!EditStep
<1> QED
  BY <1>1, <1>3, <1>4 DEF ShareInv

LEMMA ShareHolds == Members!MembershipAssumption /\ ShareInv
                      => Members!OneHome /\ Members!FairShare
<1> SUFFICES ASSUME Members!MembershipAssumption, ShareInv
                    PROVE Members!OneHome /\ Members!FairShare
  OBVIOUS
<1>1. Members!OneHome
  BY HomeHolds DEF ShareInv
<1>2. ASSUME Members!NoJob, steady, NEW r \in config.rules,
             NEW s \in config.rules
      PROVE  (got[r] - 1 - membersUsed.faults) * MembersParams.Weight[s]
               <= got[s] * MembersParams.Weight[r]
  <2> DEFINE c == config.counts
             f == membersUsed.faults
  <2>1. r \in MembersParams.Segs /\ s \in MembersParams.Segs
    BY <1>2 DEF ShareInv, Undisturbed
  <2>2. /\ c[r] \in Nat /\ c[s] \in Nat /\ got[r] \in Nat /\ got[s] \in Nat
        /\ MembersParams.Weight[r] \in Nat /\ MembersParams.Weight[s] \in Nat
        /\ f \in Nat
    BY <2>1, Numbers DEF ShareInv
  <2>3. got[r] <= c[r] + f /\ c[s] <= got[s]
    BY <1>2, <2>1, <2>2 DEF ShareInv, Counts, Pending, Members!NoJob
  <2>4. (c[r] - 1) * MembersParams.Weight[s] <= c[s] * MembersParams.Weight[r]
    BY <1>2, <2>1 DEF ShareInv, Balanced
  <2> HIDE DEF c, f
  <2>5. got[r] - 1 - f \in Int /\ c[r] - 1 \in Int
          /\ got[r] - 1 - f <= c[r] - 1
    BY <2>2, <2>3
  <2>6. (got[r] - 1 - f) * MembersParams.Weight[s]
          <= (c[r] - 1) * MembersParams.Weight[s]
    BY <2>2, <2>5, TimesMore
  <2>7. c[s] * MembersParams.Weight[r] <= got[s] * MembersParams.Weight[r]
    BY <2>2, <2>3, TimesMore
  <2>8. /\ (got[r] - 1 - f) * MembersParams.Weight[s] \in Int
        /\ (c[r] - 1) * MembersParams.Weight[s] \in Int
        /\ c[s] * MembersParams.Weight[r] \in Int
        /\ got[s] * MembersParams.Weight[r] \in Int
    BY <2>2, <2>5
  <2> QED
    BY <2>4, <2>6, <2>7, <2>8 DEF f
<1> QED
  BY <1>1, <1>2 DEF Members!FairShare

\* A lead stays in the one segment it was last put in, when the rewriting of
\* two segments never overlaps, except for the leads of an assignment that was
\* cut short (membership.service.ts:58-101).
THEOREM LeadsHaveOneHome ==
  ~MembersParams.Overlap /\ Spec => []OneHome
<1> DEFINE I == ~MembersParams.Overlap /\ (part = "members" => ShareInv)
<1>1. ~MembersParams.Overlap /\ Init => I
  BY PartsAssumption, ShareInit DEF Init
<1>2. I /\ [Next]_vars => I'
  BY PartsAssumption, PartSteps, ShareStep
<1>3. I => OneHome
  BY PartsAssumption, ShareHolds DEF OneHome
<1>4. I /\ [][Next]_vars => []I
  BY <1>2, PTL
<1> QED
  BY <1>1, <1>3, <1>4, PTL DEF Spec

\* As long as the rules stay, no segment is more than one lead, and the leads
\* lost to faults, ahead of its share (membership.service.ts:108-150).
THEOREM SharesAreFair ==
  ~MembersParams.Overlap /\ Spec => []FairShare
<1> DEFINE I == ~MembersParams.Overlap /\ (part = "members" => ShareInv)
<1>1. ~MembersParams.Overlap /\ Init => I
  BY PartsAssumption, ShareInit DEF Init
<1>2. I /\ [Next]_vars => I'
  BY PartsAssumption, PartSteps, ShareStep
<1>3. I => FairShare
  BY PartsAssumption, ShareHolds DEF FairShare
<1>4. I /\ [][Next]_vars => []I
  BY <1>2, PTL
<1> QED
  BY <1>1, <1>3, <1>4, PTL DEF Spec
=============================================================================
