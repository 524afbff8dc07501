--------------------------- MODULE SegmentAudience ---------------------------
(***************************************************************************)
(* Who a segment means, and in which order a campaign dials: the filter     *)
(* grammar and its `where` (segment-compiler.ts), the edits and lists of    *)
(* the dashboard (segments.controller.ts, subscribers.controller.ts), and   *)
(* the order of a campaign's audience (campaign-runner.service.ts,          *)
(* resolveAudienceOrder), which reads the criteria of its segments together *)
(* and then the leads of one segment after the other, while edits go on.    *)
(*                                                                          *)
(* A `where` is evaluated by the database, in three values: a comparison    *)
(* with a missing field is neither true nor false, and a row is found when  *)
(* the whole is true.  Exclusive assignment is Membership's; here it is one *)
(* step.                                                                    *)
(***************************************************************************)
EXTENDS Integers, FiniteSets, SequencesExt

CONSTANTS
  Segs,        \* the property's segments
  Leads,       \* a sequence of its leads, in the order of their ids
  Country,     \* the country each lead came from
  Zone,        \* the place of each lead's timezone in collation order
  Conditions,  \* the conditions an editor may write
  Filters,     \* the filters of the subscriber list
  Null,        \* a field without a value
  MaxAudience, \* MAX_AUDIENCE
  MaxEdits     \* bound: changes of segments and leads

Lead     == ToSet(Leads)
Status   == {"active", "unsubscribed", "erased"}
Texts    == {1, Null}
Pushes   == 0 .. 1
Mixes    == {"mixed", "sequential", "zone"}
Criteria == [all : SUBSET Conditions, all_active : BOOLEAN,
             manual_include : SUBSET Lead, manual_exclude : SUBSET Lead]

AudienceAssumption ==
  /\ Leads \in Seq(Lead) /\ IsInjective(Leads)
  /\ Zone \in [Lead -> 1 .. Len(Leads)]
  /\ Country \in [Lead -> Texts]
  /\ IsFiniteSet(Segs)
  /\ Null \notin Int
  /\ MaxAudience \in Nat \ {0} /\ MaxEdits \in Nat

VARIABLES
  rows,       \* the leads: status, country (a nullable text), pushes received
  criteria,   \* the stored criteria of each segment
  targets,    \* the campaign being resolved: its segments, in order
  mix,        \* and its mixStrategy
  asked,      \* the criteria as resolveAudienceOrder() has read them
  lists,      \* what has been read of each target so far
  order,      \* the order that came out; Null until there is one
  edits,      \* changes made
  stayed      \* history: leads that met `asked` since targeting began

vars == <<rows, criteria, targets, mix, asked, lists, order, edits, stayed>>

-----------------------------------------------------------------------------
(* The compiler.                                                            *)

FIELDS == [country |-> "string", pushes |-> "number"]

\* compileCriteria() refuses an unknown field and an operator that the field's
\* kind or the value's shape does not suit.
Compiles(c) ==
  /\ c.field \in DOMAIN FIELDS
  /\ c.op \in {"eq", "neq", "in", "nin", "gte", "contains"}
  /\ c.op = "contains" => FIELDS[c.field] = "string"

\* The comparison of one condition; `value` is the set of the values that an
\* equality, a list or a substring names.
Compare(c, x) ==
  \/ c.op \in {"eq", "in", "contains"} /\ x \in c.value
  \/ c.op \in {"neq", "nin"} /\ x \notin c.value
  \/ c.op = "gte" /\ \A v \in c.value : x >= v

Clause(c, l) ==
  IF rows[l][c.field] = Null THEN "unknown"
  ELSE IF Compare(c, rows[l][c.field]) THEN "true" ELSE "false"

And3(V) == IF "false" \in V THEN "false"
           ELSE IF "unknown" \in V THEN "unknown" ELSE "true"
Not3(v) == CASE v = "true" -> "false" [] v = "false" -> "true"
             [] OTHER -> "unknown"
Or3(V)  == Not3(And3({Not3(v) : v \in V}))
Is(b)   == IF b THEN "true" ELSE "false"

Base(k, l) == And3({Clause(c, l) : c \in k.all})

\* Mutant: a bucket without a filter and without leads is inferred to be all.
ChosenByEmptiness(k, l) ==
  CASE k.all_active \/ (k.all = {} /\ k.manual_include = {}) -> "true"
    [] ~k.all_active /\ k.all # {} ->
         Or3({Base(k, l), Is(l \in k.manual_include)})
    [] OTHER -> Is(l \in k.manual_include)

\* segmentAudienceWhere(): everyone only by the flag; the filter or the manual
\* list; nobody when there is neither; and never who was removed by hand.
Chosen(k, l) ==
  CASE k.all_active                -> "true"
    [] ~k.all_active /\ k.all # {} ->
         Or3({Base(k, l), Is(l \in k.manual_include)})
    [] OTHER                       -> Is(l \in k.manual_include)

Where(k, l) == And3({Chosen(k, l), Is(l \notin k.manual_exclude)})

Active(l) == rows[l].status = "active"

\* What counting, sending and listing members all use.
Members(k) == {l \in Lead : Active(l) /\ Where(k, l) = "true"}

Audience(s) == Members(criteria[s])

\* The leads offered for adding: those the negated `where` finds.
Candidates(s) ==
  {l \in Lead : Active(l) /\ Not3(Where(criteria[s], l)) = "true"}

\* buildSubscriberWhere(), with the status of assign-filtered.
Filtered(f) ==
  {l \in Lead : /\ Active(l)
                /\ f.country # Null => rows[l].country = f.country
                /\ f.fresh = "yes" => rows[l].pushes = 0
                /\ f.fresh = "no" => rows[l].pushes > 0}

-----------------------------------------------------------------------------
(* Edits.                                                                   *)

Init ==
  /\ rows = [l \in Lead |-> [status |-> "active", country |-> Country[l],
                             pushes |-> 0]]
  /\ criteria = [s \in Segs |-> [all |-> {}, all_active |-> FALSE,
                                 manual_include |-> {}, manual_exclude |-> {}]]
  /\ targets = <<>>
  /\ mix = "mixed"
  /\ asked = criteria
  /\ lists = <<>>
  /\ order = Null
  /\ edits = 0
  /\ stayed = [s \in Segs |-> {}]

Edited ==
  /\ edits < MaxEdits
  /\ edits' = edits + 1
  /\ UNCHANGED <<targets, mix, asked, lists, order>>
  /\ stayed' = [s \in Segs |-> stayed[s] \cap Members(asked[s])']

\* PATCH of a segment: the conditions of the form, the rest of the criteria as
\* it was read.
SaveCriteria(s, C, everyone) ==
  /\ \A c \in C : Compiles(c)
  /\ criteria' = [criteria EXCEPT ![s].all = C, ![s].all_active = everyone]
  /\ UNCHANGED rows
  /\ Edited

\* Leads move into a segment, and out of every other: exclusiveAssign().
Move(s, L) ==
  /\ criteria' = [t \in Segs |->
       IF t = s
       THEN [criteria[t] EXCEPT !.manual_include = @ \cup L,
                                !.manual_exclude = @ \ L]
       ELSE [criteria[t] EXCEPT !.manual_include = @ \ L,
                                !.manual_exclude = @ \cup L]]
  /\ UNCHANGED rows
  /\ Edited

AddMember(s, l) == rows[l].status # "erased" /\ Move(s, {l})

AssignFiltered(s, f) == Filtered(f) # {} /\ Move(s, Filtered(f))

RemoveMember(s, l) ==
  /\ criteria' = [criteria EXCEPT ![s].manual_include = @ \ {l},
                                  ![s].manual_exclude = @ \cup {l}]
  /\ UNCHANGED rows
  /\ Edited

\* A lead leaves, comes back from elsewhere, or is erased; a push arrives.
Leave(l) ==
  /\ Active(l)
  /\ \E st \in {"unsubscribed", "erased"} :
       rows' = [rows EXCEPT ![l].status = st]
  /\ UNCHANGED criteria
  /\ Edited

Return(l) ==
  /\ rows[l].status = "unsubscribed"
  /\ \E c \in Texts : rows' = [rows EXCEPT ![l].status = "active",
                                           ![l].country = c]
  /\ UNCHANGED criteria
  /\ Edited

Pushed(l) ==
  /\ Active(l) /\ rows[l].pushes = 0
  /\ rows' = [rows EXCEPT ![l].pushes = 1]
  /\ UNCHANGED criteria
  /\ Edited

-----------------------------------------------------------------------------
(* resolveAudienceOrder().                                                  *)

\* A campaign with segments is dispatched (without any, or with the explicit
\* target-all, there is nothing to order).
Resolve(T, m) ==
  /\ order = Null /\ targets = <<>>
  /\ targets' = T
  /\ mix' = m
  /\ asked' = criteria
  /\ lists' = <<>>
  /\ stayed' = [s \in Segs |-> Audience(s)]
  /\ UNCHANGED <<rows, criteria, order, edits>>

Loaded == FoldLeft(LAMBDA n, list : n + Len(list), 0, lists)

\* The leads of a sequence that are in L, as they stand.
Only(seq, L) ==
  FoldLeft(LAMBDA out, l : IF l \in L THEN Append(out, l) ELSE out, <<>>, seq)

\* One findMany: the next target's leads by id, as many as the cap leaves, by
\* the criteria that were read for all targets at the start.
LoadSegment ==
  /\ Len(lists) < Len(targets) /\ Loaded < MaxAudience
  /\ LET s     == targets[Len(lists) + 1]
         found == Only(Leads, Members(asked[s]))
         take  == IF Len(found) <= MaxAudience - Loaded
                  THEN Len(found) ELSE MaxAudience - Loaded
     IN  lists' = Append(lists, SubSeq(found, 1, take))
  /\ UNCHANGED <<rows, criteria, targets, mix, asked, order, edits, stayed>>

\* Mutant: a lead of two segments is dialled for each.
UnlessNever(seen, l) == Append(seen, l)

Unless(seen, l) == IF l \in ToSet(seen) THEN seen ELSE Append(seen, l)

Sequential == FoldLeft(LAMBDA out, list : FoldLeft(Unless, out, list), <<>>, lists)

\* One turn of a list in the round robin: its first lead not dialled yet.
Turn(out, i) ==
  LET rest == {k \in DOMAIN lists[i] : lists[i][k] \notin ToSet(out)}
  IN  IF rest = {} THEN out ELSE Append(out, lists[i][Min(rest)])

Interleaved ==
  FoldLeft(Turn, <<>>, [k \in 1 .. Len(lists) * Loaded |->
                          ((k - 1) % Len(lists)) + 1])

\* The stable sort by timezone.
ByZone(seq) ==
  FoldLeft(LAMBDA out, z : out \o Only(seq, {l \in Lead : Zone[l] = z}),
           <<>>, [z \in DOMAIN Leads |-> z])

\* Mutant: every strategy drains a list before the next has its turn.
OrderedInSequence == Sequential

Ordered == CASE mix = "sequential" -> Sequential
             [] mix = "mixed"      -> Interleaved
             [] mix = "zone"       -> ByZone(Interleaved)

Order ==
  /\ targets # <<>> /\ order = Null
  /\ Len(lists) = Len(targets) \/ Loaded >= MaxAudience
  /\ order' = Ordered
  /\ UNCHANGED <<rows, criteria, targets, mix, asked, lists, edits, stayed>>

Next ==
  \/ \E s \in Segs :
       \/ \E C \in SUBSET Conditions, b \in BOOLEAN : SaveCriteria(s, C, b)
       \/ \E l \in Lead : AddMember(s, l) \/ RemoveMember(s, l)
       \/ \E f \in Filters : AssignFiltered(s, f)
  \/ \E l \in Lead : Leave(l) \/ Return(l) \/ Pushed(l)
  \/ \E T \in SetToSeqs(Segs), m \in Mixes : Resolve(T, m)
  \/ LoadSegment
  \/ Order

Spec == Init /\ [][Next]_vars

-----------------------------------------------------------------------------
TypeOK ==
  /\ rows \in [Lead -> [status : Status, country : Texts, pushes : Pushes]]
  /\ criteria \in [Segs -> Criteria] /\ asked \in [Segs -> Criteria]
  /\ targets \in Seq(Segs) /\ mix \in Mixes
  /\ lists \in Seq(Seq(Lead)) /\ Len(lists) <= Len(targets)
  /\ order = Null \/ order \in Seq(Lead)
  /\ edits \in 0 .. MaxEdits
  /\ stayed \in [Segs -> SUBSET Lead]

\* After any edits, a segment reaches exactly its active leads that meet every
\* condition of a filter there is, or were put there by hand, less those that
\* were removed by hand; all of them only by the flag, so that a bucket that has
\* lost its last lead reaches nobody (segment-compiler.ts:46-54).  The reference
\* knows neither three values nor null: a missing field meets no condition.
ReachesWhoIsMeant ==
  \A s \in Segs :
    LET k        == criteria[s]
        Meets(l) == \A c \in k.all : /\ rows[l][c.field] # Null
                                     /\ Compare(c, rows[l][c.field])
    IN  Audience(s) =
          {l \in Lead :
             /\ Active(l) /\ l \notin k.manual_exclude
             /\ \/ k.all_active
                \/ k.all # {} /\ Meets(l)
                \/ l \in k.manual_include}

\* While leads leave, come back and move between segments that are read one by
\* one, no lead is dialled twice, nobody is dialled whom no target had, and who
\* met a target as it was when targeting began, wherever it has been moved
\* since, is dialled unless the cap cut the list
\* (campaign-runner.service.ts:386-451).
OrderExact ==
  order # Null =>
    /\ IsInjective(order)
    /\ ToSet(order) = UNION {ToSet(lists[i]) : i \in DOMAIN lists}
    /\ Loaded <= MaxAudience
    /\ Loaded < MaxAudience =>
         \A i \in DOMAIN targets : stayed[targets[i]] \subseteq ToSet(order)

\* A mixed campaign takes turns: at any moment of the dialling, of two segments
\* without a common lead and with leads left, neither is more than one lead
\* ahead.  By zone, the leads of a zone follow each other.
OrderFair ==
  order # Null =>
    /\ mix = "mixed" =>
         \A n \in 0 .. Len(order) :
           LET dialled(i) == ToSet(lists[i]) \cap ToSet(SubSeq(order, 1, n))
               waits(i)   == dialled(i) # ToSet(lists[i])
               apart      == \A i, j \in DOMAIN lists : i # j =>
                               ToSet(lists[i]) \cap ToSet(lists[j]) = {}
           IN  apart =>
                 \A i, j \in DOMAIN lists :
                   waits(i) =>
                     Cardinality(dialled(j)) <= Cardinality(dialled(i)) + 1
    /\ mix = "zone" =>
         \A m, n \in DOMAIN order : m < n => Zone[order[m]] <= Zone[order[n]]

\* The order of the leads, and its fairness.
OrderSound == OrderExact /\ OrderFair

\* "Leads of the property NOT in the segment - candidates to add"
\* (segments.controller.ts:243): every active lead is a member or a candidate.
CandidatesAreTheRest ==
  \A s \in Segs : Candidates(s) = {l \in Lead : Active(l)} \ Audience(s)
=============================================================================
