----------------------------- MODULE PublicIntake -----------------------------
(***************************************************************************)
(* The handlers a visitor's browser reaches without a login                *)
(* (public.controller.ts, webhooks.controller.ts, public.service.ts) and   *)
(* the rows they change.  Each await lets the other requests run; what a   *)
(* handler has read before is kept in its record.  Browsers repeat: a page *)
(* is loaded twice, a notification is tapped twice, the call bridge and    *)
(* the service worker report the same tap, a shop repeats its webhook.     *)
(*                                                                         *)
(* The drips and the distribution that a new lead sets going are modelled  *)
(* in Automations and Membership; here they are counted.                   *)
(***************************************************************************)
EXTENDS Naturals, FiniteSets

CONSTANTS
  Calls,         \* requests that may be under way at the same time
  Browsers,      \* push endpoints
  Paths,         \* page paths
  Sends,         \* Send rows of one campaign, clicked or not
  Origins,       \* values of the Origin header, "none" for a missing one
  Domains,       \* property.domains
  PageCap,       \* PAGE_CAP
  MaxCalls,      \* bound: requests
  MaxFaults      \* bound: statements that throw, and restarts

IntakeAssumption ==
  /\ IsFiniteSet(Calls) /\ Calls # {}
  /\ PageCap \in Nat /\ MaxCalls \in Nat /\ MaxFaults \in Nat
  /\ Domains \subseteq Origins /\ "none" \notin Domains

VARIABLES
  sub,           \* subscriber rows: "none", "active", "unsubscribed"
  welcomed,      \* per endpoint: times that drips and distribution were started
  views,         \* page rows: the views counted, 0 = no row
  clicked,       \* Send rows with clicked = true
  leadClicks,    \* sum of subscriber.pushesClicked
  campClicks,    \* campaign.totalClicked
  revenue,       \* conversion rows
  call,          \* the handlers under way
  told,          \* per path: beacons that were answered with a view counted
  lost,          \* what a fault took away: "welcome", "lead", "campaign"
  calls, faults

vars == <<sub, welcomed, views, clicked, leadClicks, campClicks, revenue, call,
          told, lost, calls, faults>>
rows == <<sub, welcomed, views, clicked, leadClicks, campClicks, revenue, told>>

Idle == [op |-> "idle", arg |-> "", at |-> "", found |-> FALSE]
Steps == {"", "find", "upsert", "welcome", "set", "row", "count", "create", "flip",
          "lead", "campaign"}

TypeOK ==
  /\ sub \in [Browsers -> {"none", "active", "unsubscribed"}]
  /\ welcomed \in [Browsers -> 0..MaxCalls]
  /\ views \in [Paths -> 0..MaxCalls] /\ told \in [Paths -> 0..MaxCalls]
  /\ clicked \subseteq Sends
  /\ leadClicks \in 0..MaxCalls /\ campClicks \in 0..MaxCalls
  /\ revenue \in [Sends \cup {"direct"} -> 0..MaxCalls]
  /\ call \in [Calls -> [op : {"idle", "subscribe", "unsubscribe", "view", "click", "sale"},
                         arg : Browsers \cup Paths \cup Sends \cup {"", "direct"},
                         at : Steps, found : BOOLEAN]]
  /\ lost \in [{"welcome", "lead", "campaign"} -> 0..MaxFaults * Cardinality(Calls)]
  /\ calls \in 0..MaxCalls /\ faults \in 0..MaxFaults

Init ==
  /\ sub = [b \in Browsers |-> "none"] /\ welcomed = [b \in Browsers |-> 0]
  /\ views = [p \in Paths |-> 0] /\ told = views
  /\ clicked = {} /\ leadClicks = 0 /\ campClicks = 0
  /\ revenue = [s \in Sends \cup {"direct"} |-> 0]
  /\ call = [c \in Calls |-> Idle]
  /\ lost = [w \in {"welcome", "lead", "campaign"} |-> 0]
  /\ calls = 0 /\ faults = 0

Goto(c, step) == call' = [call EXCEPT ![c].at = step]
Answer(c) == call' = [call EXCEPT ![c] = Idle]
In(c, op, step) == call[c].op = op /\ call[c].at = step
UnderWay(op, steps) == {c \in Calls : call[c].op = op /\ call[c].at \in steps}

\* resolveProperty(): who may write with the property's public key.
Resolves(origin, requireOrigin) ==
  IF origin = "none" THEN ~requireOrigin ELSE origin \in Domains

\* A request arrives: the first statement it waits for is given.  Clicks carry
\* no origin and name a Send row; sales come from the pixel or with an API key.
Arrive(c, op, arg, step, passes) ==
  /\ call[c] = Idle /\ calls < MaxCalls /\ passes
  /\ call' = [call EXCEPT ![c] = [op |-> op, arg |-> arg, at |-> step, found |-> FALSE]]
  /\ calls' = calls + 1
  /\ UNCHANGED <<rows, lost, faults>>

Request(c) ==
  \/ \E o \in Origins :
       \/ \E b \in Browsers : Arrive(c, "subscribe", b, "find", Resolves(o, TRUE))
       \/ \E b \in Browsers : Arrive(c, "unsubscribe", b, "set", Resolves(o, TRUE))
       \/ \E p \in Paths : Arrive(c, "view", p, "find", Resolves(o, TRUE))
  \/ \E s \in Sends : s \notin clicked /\ Arrive(c, "click", s, "flip", TRUE)
  \/ \E s \in Sends \cup {"direct"} : Arrive(c, "sale", s, "create", TRUE)

----------------------------------------------------------------------------
\* subscribe() and unsubscribe()

FindLead(c) ==
  /\ In(c, "subscribe", "find")
  /\ call' = [call EXCEPT ![c].at = "upsert", ![c].found = sub[call[c].arg] # "none"]
  /\ UNCHANGED <<rows, lost, calls, faults>>

Upsert(c) ==
  /\ In(c, "subscribe", "upsert")
  /\ sub' = [sub EXCEPT ![call[c].arg] = "active"]
  /\ Goto(c, "welcome")
  /\ UNCHANGED <<welcomed, views, clicked, leadClicks, campClicks, revenue, told,
                 lost, calls, faults>>

\* Mutant: every subscribe is taken for a new lead.
AlwaysNew(c) == TRUE

IsNew(c) == ~call[c].found

\* Drips and distribution are started, not awaited.
Welcome(c) ==
  /\ In(c, "subscribe", "welcome")
  /\ welcomed' = [welcomed EXCEPT ![call[c].arg] = IF IsNew(c) THEN @ + 1 ELSE @]
  /\ Answer(c)
  /\ UNCHANGED <<sub, views, clicked, leadClicks, campClicks, revenue, told, lost,
                 calls, faults>>

Unsubscribe(c) ==
  /\ In(c, "unsubscribe", "set")
  /\ sub' = [sub EXCEPT ![call[c].arg] = IF @ = "none" THEN @ ELSE "unsubscribed"]
  /\ Answer(c)
  /\ UNCHANGED <<welcomed, views, clicked, leadClicks, campClicks, revenue, told, lost,
                 calls, faults>>

----------------------------------------------------------------------------
\* trackPageview()

PagesStored == {p \in Paths : views[p] > 0}

FindPage(c) ==
  /\ In(c, "view", "find")
  /\ Goto(c, IF views[call[c].arg] > 0 THEN "row" ELSE "count")
  /\ UNCHANGED <<rows, lost, calls, faults>>

CountView(c) ==
  /\ views' = [views EXCEPT ![call[c].arg] = @ + 1]
  /\ told' = [told EXCEPT ![call[c].arg] = @ + 1]
  /\ Answer(c)
  /\ UNCHANGED <<sub, welcomed, clicked, leadClicks, campClicks, revenue, lost, calls, faults>>

AddView(c) == In(c, "view", "row") /\ CountView(c)

\* Mutant: the cap is not looked at.
NoCap == FALSE

Capped == Cardinality(PagesStored) >= PageCap

CountPages(c) ==
  /\ In(c, "view", "count")
  /\ IF Capped THEN Answer(c) ELSE Goto(c, "create")
  /\ UNCHANGED <<rows, lost, calls, faults>>

\* The unique key refuses the second of two that found no row.
CreatePage(c) ==
  /\ In(c, "view", "create")
  /\ IF views[call[c].arg] = 0 THEN CountView(c)
     ELSE Answer(c) /\ UNCHANGED <<rows, lost, calls, faults>>

----------------------------------------------------------------------------
\* trackClick(): the row was read as not clicked before the request got here.

\* Mutant: the row is set without the condition clicked = false.
FlipAlways(c) ==
  /\ In(c, "click", "flip")
  /\ clicked' = clicked \cup {call[c].arg}
  /\ Goto(c, "lead")
  /\ UNCHANGED <<sub, welcomed, views, leadClicks, campClicks, revenue, told, lost,
                 calls, faults>>

\* updateMany({clicked: false}): only the first of two taps goes on.
Flip(c) ==
  /\ In(c, "click", "flip")
  /\ clicked' = clicked \cup {call[c].arg}
  /\ IF call[c].arg \in clicked THEN Answer(c) ELSE Goto(c, "lead")
  /\ UNCHANGED <<sub, welcomed, views, leadClicks, campClicks, revenue, told, lost,
                 calls, faults>>

CountLead(c) ==
  /\ In(c, "click", "lead")
  /\ leadClicks' = leadClicks + 1
  /\ Goto(c, "campaign")
  /\ UNCHANGED <<sub, welcomed, views, clicked, campClicks, revenue, told, lost, calls, faults>>

CountCampaign(c) ==
  /\ In(c, "click", "campaign")
  /\ campClicks' = campClicks + 1
  /\ Answer(c)
  /\ UNCHANGED <<sub, welcomed, views, clicked, leadClicks, revenue, told, lost, calls, faults>>

----------------------------------------------------------------------------
\* trackConversion(): a row for each report, attributed to its Send if named.
Sale(c) ==
  /\ In(c, "sale", "create")
  /\ revenue' = [revenue EXCEPT ![call[c].arg] = @ + 1]
  /\ Answer(c)
  /\ UNCHANGED <<sub, welcomed, views, clicked, leadClicks, campClicks, told, lost,
                 calls, faults>>

\* What is gone when the handlers of D stop where they are.
Losses(D) ==
  [lost EXCEPT
     !["welcome"]  = @ + Cardinality(D \cap UnderWay("subscribe", {"welcome"})),
     !["lead"]     = @ + Cardinality(D \cap UnderWay("click", {"lead"})),
     !["campaign"] = @ + Cardinality(D \cap UnderWay("click", {"lead", "campaign"}))]

\* A statement throws: the request ends there.  Starting drips and
\* distribution cannot throw.
Fault(c) ==
  /\ call[c] # Idle /\ faults < MaxFaults /\ call[c].at # "welcome"
  /\ faults' = faults + 1
  /\ lost' = Losses({c})
  /\ Answer(c)
  /\ UNCHANGED <<rows, calls>>

Restart ==
  /\ faults < MaxFaults
  /\ faults' = faults + 1
  /\ lost' = Losses(Calls)
  /\ call' = [c \in Calls |-> Idle]
  /\ UNCHANGED <<rows, calls>>

Next ==
  \/ Restart
  \/ \E c \in Calls :
       \/ Request(c) \/ FindLead(c) \/ Upsert(c) \/ Welcome(c) \/ Unsubscribe(c)
       \/ FindPage(c) \/ AddView(c) \/ CountPages(c) \/ CreatePage(c)
       \/ Flip(c) \/ CountLead(c) \/ CountCampaign(c) \/ Sale(c) \/ Fault(c)

Spec == Init /\ [][Next]_vars

\* A tap is counted once for the lead and once for the campaign, whatever
\* number of requests report it at once; a count is missing only while its
\* request is between two statements, or when that request was cut off there
\* (public.service.ts:394-413).
ClicksExact ==
  /\ Cardinality(clicked) =
       leadClicks + Cardinality(UnderWay("click", {"lead"})) + lost["lead"]
  /\ Cardinality(clicked) =
       campClicks + Cardinality(UnderWay("click", {"lead", "campaign"})) + lost["campaign"]

\* The table of pages outgrows its cap by at most the requests that have
\* looked at it together, and every view that was answered is in it
\* (public.service.ts:342-361).
PagesBounded ==
  /\ Cardinality(PagesStored) <= PageCap + Cardinality(Calls) - 1
  /\ told = views

\* Both counts.
IntakeExact == ClicksExact /\ PagesBounded

\* A lead is welcomed by the subscribes that looked for it before its row was
\* there, so by at most as many as were under way together, however often the
\* browser leaves and comes back; and it is welcomed at all, unless the
\* request was cut off (public.service.ts:214-257).
Welcomed ==
  \A b \in Browsers :
    /\ welcomed[b] <= Cardinality(Calls)
    /\ sub[b] # "none" /\ lost["welcome"] = 0
         => welcomed[b] > 0 \/ \E c \in Calls : call[c].arg = b /\ In(c, "subscribe", "welcome")
=============================================================================
