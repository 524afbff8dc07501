------------------------------ MODULE SendQuota ------------------------------
(***************************************************************************)
(* Who may still be pushed: the plan's monthly quota, the property's daily *)
(* and weekly frequency caps and the round-robin call routing, where       *)
(* several dispatch() loops of one tenant target the same leads            *)
(* (campaign-runner.service.ts, quotaRemaining and the targeting loop).    *)
(*                                                                         *)
(* CampaignRunner follows one campaign in depth and knows no limits; here  *)
(* dispatches are reduced to the statements that read and create Send rows.*)
(* Each await between the cap query, the quota query and createMany lets   *)
(* the other dispatches run.                                               *)
(***************************************************************************)
EXTENDS Integers, FiniteSets

CONSTANTS
  Campaigns,    \* the tenant's campaigns, each dispatched at most once
  NumLeads,     \* the property's leads are 1..NumLeads, all active
  BatchSize,    \* BATCH_SIZE
  Quota,        \* PLAN_QUOTAS[plan]
  CapDay,       \* property.frequencyCapPerDay
  CapWeek,      \* property.frequencyCapPerWeek
  Numbers,      \* length of a campaign's call pool
  DayTicks, WeekTicks, MonthTicks,   \* a day, a week and a month of the clock
  MaxParallel,  \* bound: dispatches under way at the same time
  MaxTime,      \* bound: the clock
  MaxDirect,    \* bound: test sends and drips
  MaxFailures   \* bound: pushes that fail

\* Test sends and drips are no campaign's.
QuotaAssumption ==
  /\ \A i \in 1..MaxDirect : <<"direct", i>> \notin Campaigns
  /\ NumLeads \in Nat \ {0} /\ BatchSize \in Nat \ {0}
  /\ Quota \in Nat /\ CapDay \in Nat \ {0} /\ CapWeek \in Nat \ {0}
  /\ Numbers \in Nat \ {0}
  /\ DayTicks \in Nat /\ WeekTicks \in Nat /\ MonthTicks \in Nat \ {0}
  /\ MaxParallel \in Nat \ {0}
  /\ MaxTime \in Nat /\ MaxDirect \in Nat /\ MaxFailures \in Nat

Leads == 1..NumLeads

\* A Send row: who created it, for which lead, when, whether it still counts
\* against the caps ("queued" or "sent"), and the index of the number its call
\* button dials.
Direct == {<<"direct", i>> : i \in 1..MaxDirect}
Row    == [by : Campaigns \cup Direct, lead : Leads, at : 0..MaxTime,
           counts : BOOLEAN, number : 0..(Numbers - 1)]

VARIABLES
  rows,       \* the tenant's Send rows
  now,        \* the clock
  pc,         \* per campaign: where its dispatch is
  since,      \* per campaign: when its dispatch began
  cursor,     \* per campaign: the last lead read
  held,       \* per campaign: `eligible`, the leads about to get a row
  quotaHit,   \* per campaign: the batch in hand is the last
  failures    \* how much of MaxFailures is spent

vars == <<rows, now, pc, since, cursor, held, quotaHit, failures>>

Least(a, b) == IF a < b THEN a ELSE b

\* The n smallest leads of S: eligible.slice(0, n).
FirstOf(S, n) == {s \in S : Cardinality({r \in S : r < s}) < n}

MonthStart == (now \div MonthTicks) * MonthTicks

\* Every row created this calendar month, whoever created it.
Used == Cardinality({r \in rows : r.at >= MonthStart})

\* quotaRemaining()
QuotaRemaining == IF Quota > Used THEN Quota - Used ELSE 0

\* Rows of the lead, queued or sent, since `from`.
Count(s, from) ==
  Cardinality({r \in rows : r.lead = s /\ r.counts /\ r.at >= from})

\* Mutant: the weekly cap is not looked at.
DayOnly(c, s) == Count(s, since[c] - DayTicks) < CapDay

\* Both caps leave room.  The windows are taken when the dispatch begins.
UnderCaps(c, s) ==
  /\ Count(s, since[c] - DayTicks) < CapDay
  /\ Count(s, since[c] - WeekTicks) < CapWeek

\* `targeted`: the rows the dispatch has created.
Targeted(c) == Cardinality({r \in rows : r.by = c})

\* Mutant: the index starts afresh with every batch.
PoolIndexPerBatch(c, s) == Cardinality({r \in held[c] : r < s}) % Numbers

\* Mutant: the position is not reduced to the length of the pool.
PoolIndexRaw(c, s) == Targeted(c) + Cardinality({r \in held[c] : r < s})

\* resolveActions(): round robin over the call pool, by the lead's position.
PoolIndex(c, s) == (Targeted(c) + Cardinality({r \in held[c] : r < s})) % Numbers

Active == {c \in Campaigns : pc[c] \notin {"idle", "ended"}}

Init ==
  /\ rows = {}
  /\ now = 0
  /\ pc = [c \in Campaigns |-> "idle"]
  /\ since = [c \in Campaigns |-> 0]
  /\ cursor = [c \in Campaigns |-> 0]
  /\ held = [c \in Campaigns |-> {}]
  /\ quotaHit = [c \in Campaigns |-> FALSE]
  /\ failures = 0

\* dispatch() is refused while the quota is exhausted.
Start(c) ==
  /\ pc[c] = "idle"
  /\ Cardinality(Active) < MaxParallel
  /\ QuotaRemaining > 0
  /\ pc' = [pc EXCEPT ![c] = "read"]
  /\ since' = [since EXCEPT ![c] = now]
  /\ UNCHANGED <<rows, now, cursor, held, quotaHit, failures>>

\* The next batch of leads, and the two cap queries.  A batch with nobody left
\* is skipped.
ReadBatch(c) ==
  /\ pc[c] = "read"
  /\ cursor[c] < NumLeads
  /\ LET last     == Least(cursor[c] + BatchSize, NumLeads)
         eligible == {s \in Leads : /\ cursor[c] < s /\ s <= last
                                    /\ UnderCaps(c, s)}
     IN  /\ cursor' = [cursor EXCEPT ![c] = last]
         /\ held' = [held EXCEPT ![c] = eligible]
         /\ pc' = [pc EXCEPT ![c] = IF eligible = {} THEN "read" ELSE "quota"]
  /\ UNCHANGED <<rows, now, since, quotaHit, failures>>

\* Mutant: the quota read when the dispatch was accepted is trusted.
CheckQuotaOnce(c) ==
  /\ pc[c] = "quota"
  /\ pc' = [pc EXCEPT ![c] = "insert"]
  /\ UNCHANGED <<rows, now, since, cursor, held, quotaHit, failures>>

\* The quota is read again: the batch is cut to what it leaves.
CheckQuota(c) ==
  /\ pc[c] = "quota"
  /\ IF QuotaRemaining = 0
     THEN /\ held' = [held EXCEPT ![c] = {}]
          /\ quotaHit' = [quotaHit EXCEPT ![c] = TRUE]
          /\ pc' = [pc EXCEPT ![c] = "ended"]
     ELSE /\ held' = [held EXCEPT ![c] = FirstOf(@, QuotaRemaining)]
          /\ quotaHit' = [quotaHit EXCEPT
                            ![c] = Cardinality(held[c]) > QuotaRemaining]
          /\ pc' = [pc EXCEPT ![c] = "insert"]
  /\ UNCHANGED <<rows, now, since, cursor, failures>>

\* createMany, each row with the number its position in the blast gives it.
Insert(c) ==
  /\ pc[c] = "insert"
  /\ rows' = rows \cup {[by |-> c, lead |-> s, at |-> now, counts |-> TRUE,
                         number |-> PoolIndex(c, s)] : s \in held[c]}
  /\ held' = [held EXCEPT ![c] = {}]
  /\ pc' = [pc EXCEPT ![c] = IF quotaHit[c] THEN "ended" ELSE "read"]
  /\ UNCHANGED <<now, since, cursor, quotaHit, failures>>

EndOfAudience(c) ==
  /\ pc[c] = "read"
  /\ cursor[c] = NumLeads
  /\ pc' = [pc EXCEPT ![c] = "ended"]
  /\ UNCHANGED <<rows, now, since, cursor, held, quotaHit, failures>>

\* A test send or a drip: it creates its row without looking at any limit.
DirectSend(d, s) ==
  /\ d \in Direct
  /\ \A r \in rows : r.by # d
  /\ rows' = rows \cup {[by |-> d, lead |-> s, at |-> now, counts |-> TRUE,
                         number |-> 0]}
  /\ UNCHANGED <<now, pc, since, cursor, held, quotaHit, failures>>

\* A push fails, or finds its subscription gone: the row stops counting
\* against the caps, not against the quota.
PushFails(r) ==
  /\ r.counts
  /\ failures < MaxFailures
  /\ failures' = failures + 1
  /\ rows' = (rows \ {r}) \cup {[r EXCEPT !.counts = FALSE]}
  /\ UNCHANGED <<now, pc, since, cursor, held, quotaHit>>

Tick ==
  /\ now < MaxTime
  /\ now' = now + 1
  /\ UNCHANGED <<rows, pc, since, cursor, held, quotaHit, failures>>

Next ==
  \/ \E c \in Campaigns : \/ Start(c) \/ ReadBatch(c) \/ CheckQuota(c)
                          \/ Insert(c) \/ EndOfAudience(c)
  \/ \E d \in Direct, s \in Leads : DirectSend(d, s)
  \/ \E r \in rows : PushFails(r)
  \/ Tick

Spec == Init /\ [][Next]_vars

-----------------------------------------------------------------------------
(* Properties                                                               *)

TypeOK ==
  /\ rows \subseteq Row
  /\ now \in 0..MaxTime
  /\ pc \in [Campaigns -> {"idle", "read", "quota", "insert", "ended"}]
  /\ since \in [Campaigns -> 0..MaxTime]
  /\ cursor \in [Campaigns -> 0..NumLeads]
  /\ held \in [Campaigns -> SUBSET Leads]
  /\ quotaHit \in [Campaigns -> BOOLEAN]
  /\ failures \in 0..MaxFailures

\* Blasts take the month's pushes beyond the plan's quota by at most one batch
\* for every other dispatch that was under way ("shrinking the cross-campaign
\* over-send window to at most one batch"): one dispatch alone never exceeds it.
QuotaBound ==
  Cardinality({r \in rows : r.at >= MonthStart /\ r.by \in Campaigns})
     <= Quota + (MaxParallel - 1) * BatchSize

CapRows(s, from) ==
  Cardinality({r \in rows : /\ r.lead = s /\ r.counts /\ r.by \in Campaigns
                            /\ r.at >= from})

\* Within a day, and within a week, a lead gets from blasts at most its cap,
\* plus one push for every other dispatch that had already read its count when
\* it was about to be taken: the caps hold for any number of blasts, paced or
\* not, because queued rows count.
CapBound ==
  \A s \in Leads :
    /\ CapRows(s, now - DayTicks) <= CapDay + MaxParallel - 1
    /\ CapRows(s, now - WeekTicks) <= CapWeek + MaxParallel - 1

\* The quota and the caps.
LimitsHold == QuotaBound /\ CapBound

\* A blast spreads its calls evenly over the call pool, across batches, leads
\* that were skipped and a quota that cut it short.
EvenRouting ==
  \A c \in Campaigns : \A i, j \in 0..(Numbers - 1) :
    Cardinality({r \in rows : r.by = c /\ r.number = i})
      <= Cardinality({r \in rows : r.by = c /\ r.number = j}) + 1
=============================================================================
