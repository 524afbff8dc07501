--------------------------- MODULE CampaignSchedule ---------------------------
(***************************************************************************)
(* When a campaign is sent: schedule, cancel and send-now requests, the     *)
(* in-memory timer of a scheduled campaign, what happens when it fires, the *)
(* occurrences of a recurring campaign, and the re-arming after a restart   *)
(* (campaign-runner.service.ts armSchedule, fireScheduled, onModuleInit;    *)
(* campaigns.controller.ts).  CampaignRunner follows the blast itself.      *)
(*                                                                          *)
(* Assumed: a schedule or cancel request is not under way together with a   *)
(* firing timer or a dispatch that has yet to claim (Calm).  Send-now meets *)
(* the timer, and another send-now, at any point.  A unit of time is longer *)
(* than the second by which a timer may be early.                           *)
(***************************************************************************)
EXTENDS Integers, Sequences

CONSTANTS
  MaxHop,       \* the longest delay of setTimeout, 2^31-1 ms
  Period,       \* from one occurrence of a recurring campaign to the next
  MaxTime,      \* bound: the clock
  MaxRequests,  \* bound: schedule, cancel and send-now requests
  MaxCrashes,   \* bound: stops of the process
  MaxRefusals   \* bound: dispatches refused, the quota being exhausted

ScheduleAssumption ==
  /\ MaxHop \in Nat \ {0} /\ Period \in Nat \ {0}
  /\ MaxTime \in Nat /\ MaxRequests \in Nat
  /\ MaxCrashes \in Nat /\ MaxRefusals \in Nat

Times   == 1..(MaxTime + Period)
Never   == 0
NoTimer == [at |-> Never, fire |-> Never]

VARIABLES
  \* the database
  status,      \* Campaign.status
  at,          \* Campaign.scheduleAt, or Never
  recurring,   \* Campaign.recurrence is set
  occurrences, \* the campaigns created for the occurrences of a recurring one,
               \* in order: the time each is for, and is it claimed?  For the
               \* properties: when, in which life of the process and for which
               \* schedule request it was created
  \* memory
  up,          \* the process runs
  timer,       \* the campaign's entry in scheduledTimers
  fire,        \* fireScheduled(): where it is, and what it has read
  request,     \* a schedule or cancel request between two of its statements
  dispatches,  \* dispatch() calls of this campaign before their claim
  \* the environment
  now,         \* the clock
  used,        \* how much of each bound is spent
  \* history
  series,      \* schedule requests written
  claims,      \* claims of this campaign that were won
  early        \* has a timer set something going before its time?

dbVars  == <<status, at, recurring, occurrences>>
memVars == <<timer, fire, request, dispatches>>
vars == <<dbVars, up, memVars, now, used, series, claims, early>>

Spend(k) == used' = [used EXCEPT ![k] = @ + 1]
Idle == [pc |-> "idle", at |-> Never]

\* What keeps schedule and cancel requests apart from a timer that fires.
Calm == fire = Idle /\ request.pc = "idle" /\ dispatches = 0

\* armSchedule(): a timer replaces the one before; far times take several hops.
Armed(time) ==
  [at |-> time,
   fire |-> IF time <= now THEN now
            ELSE IF time - now <= MaxHop THEN time ELSE now + MaxHop]

Init ==
  /\ status = "draft" /\ at = Never /\ recurring = FALSE /\ occurrences = <<>>
  /\ up = TRUE
  /\ timer = NoTimer /\ fire = Idle /\ request = Idle /\ dispatches = 0
  /\ now = 0
  /\ used = [requests |-> 0, crashes |-> 0, refusals |-> 0]
  /\ series = 0 /\ claims = 0 /\ early = FALSE

-----------------------------------------------------------------------------
(* Requests.                                                                *)

ScheduleRead(time) ==
  /\ up /\ Calm
  /\ status \in {"draft", "scheduled"}
  /\ now <= time
  /\ used.requests < MaxRequests /\ Spend("requests")
  /\ request' = [pc |-> "write", at |-> time]
  /\ UNCHANGED <<dbVars, up, timer, fire, dispatches, now, series, claims,
                 early>>

ScheduleWrite(rec) ==
  /\ request.pc = "write"
  /\ status' = "scheduled" /\ at' = request.at /\ recurring' = rec
  /\ series' = series + 1
  /\ request' = [request EXCEPT !.pc = "arm"]
  /\ UNCHANGED <<occurrences, up, timer, fire, dispatches, now, used,
                 claims, early>>

ScheduleArm ==
  /\ request.pc = "arm"
  /\ timer' = Armed(request.at)
  /\ request' = Idle
  /\ UNCHANGED <<dbVars, up, fire, dispatches, now, used, series, claims,
                 early>>

CancelRead ==
  /\ up /\ Calm
  /\ status = "scheduled"
  /\ used.requests < MaxRequests /\ Spend("requests")
  /\ request' = [pc |-> "clear", at |-> Never]
  /\ UNCHANGED <<dbVars, up, timer, fire, dispatches, now, series, claims,
                 early>>

\* cancelSchedule(), then the update is sent.
CancelClear ==
  /\ request.pc = "clear"
  /\ timer' = NoTimer
  /\ request' = [request EXCEPT !.pc = "cancel"]
  /\ UNCHANGED <<dbVars, up, fire, dispatches, now, used, series, claims,
                 early>>

CancelWrite ==
  /\ request.pc = "cancel"
  /\ status' = "cancelled" /\ at' = Never
  /\ request' = Idle
  /\ UNCHANGED <<recurring, occurrences, up, timer, fire, dispatches, now,
                 used, series, claims, early>>

\* send-now: dispatch() runs beside the request, and has read the status.
SendNow ==
  /\ up
  /\ request.pc = "idle"
  /\ status \in {"draft", "scheduled"}
  /\ used.requests < MaxRequests /\ Spend("requests")
  /\ dispatches' = dispatches + 1
  /\ UNCHANGED <<dbVars, up, timer, fire, request, now, series, claims,
                 early>>

\* Mutant: the status is not part of the claim.
ClaimBlindly ==
  /\ dispatches > 0
  /\ dispatches' = dispatches - 1
  /\ status' = "sending" /\ claims' = claims + 1
  /\ UNCHANGED <<at, recurring, occurrences, up, timer, fire, request, now,
                 used, series, early>>

\* The atomic claim of dispatch(): one of several callers wins.
Claim ==
  /\ dispatches > 0
  /\ dispatches' = dispatches - 1
  /\ IF status \in {"draft", "scheduled"}
     THEN status' = "sending" /\ claims' = claims + 1
     ELSE UNCHANGED <<status, claims>>
  /\ UNCHANGED <<at, recurring, occurrences, up, timer, fire, request, now,
                 used, series, early>>

-----------------------------------------------------------------------------
(* The timer.                                                               *)

\* Mutant: the end of a hop is taken for the time itself.
TimerFiresAtHop ==
  /\ up
  /\ timer # NoTimer /\ timer.fire <= now
  /\ request.pc = "idle"
  /\ timer' = NoTimer
  /\ fire' = [pc |-> "read", at |-> timer.at]
  /\ UNCHANGED <<dbVars, up, request, dispatches, now, used, series, claims,
                 early>>

\* Mutant: a hop that ends early is the last.
TimerHopsOnce ==
  /\ up
  /\ timer # NoTimer /\ timer.fire <= now
  /\ request.pc = "idle"
  /\ timer' = NoTimer
  /\ fire' = IF timer.at > now THEN fire ELSE [pc |-> "read", at |-> timer.at]
  /\ UNCHANGED <<dbVars, up, request, dispatches, now, used, series, claims,
                 early>>

\* The timeout's callback: before its time it arms the next hop, else it calls
\* fireScheduled().
TimerFires ==
  /\ up
  /\ timer # NoTimer /\ timer.fire <= now
  /\ request.pc = "idle"
  /\ IF timer.at > now
     THEN timer' = Armed(timer.at) /\ UNCHANGED fire
     ELSE timer' = NoTimer /\ fire' = [pc |-> "read", at |-> timer.at]
  /\ UNCHANGED <<dbVars, up, request, dispatches, now, used, series, claims,
                 early>>

\* The campaign is read again; one that is no longer scheduled is let be.  The
\* time on the row is the one that counts from here.
FireRead ==
  /\ fire.pc = "read"
  /\ fire' = IF status # "scheduled" THEN Idle
             ELSE [pc |-> IF recurring THEN "create" ELSE "dispatch", at |-> at]
  /\ UNCHANGED <<dbVars, up, timer, request, dispatches, now, used, series,
                 claims, early>>

\* A single campaign: dispatch() reads it once more and goes on to its claim.
FireDispatch ==
  /\ fire.pc = "dispatch"
  /\ fire' = Idle
  /\ dispatches' = IF status \in {"draft", "scheduled"} THEN dispatches + 1
                                                        ELSE dispatches
  /\ early' = (early \/ fire.at > now)
  /\ UNCHANGED <<dbVars, up, timer, request, now, used, series, claims>>

\* The monthly quota is exhausted: dispatch() rejects, and that is logged.
FireRefused ==
  /\ fire.pc = "dispatch"
  /\ used.refusals < MaxRefusals /\ Spend("refusals")
  /\ fire' = Idle
  /\ UNCHANGED <<dbVars, up, timer, request, dispatches, now, series, claims,
                 early>>

\* A recurring campaign: a campaign is created for this occurrence.
FireCreate ==
  /\ fire.pc = "create"
  /\ occurrences' = Append(occurrences,
       [due |-> fire.at, claimed |-> FALSE,
        when |-> now, life |-> used.crashes, series |-> series])
  /\ fire' = [fire EXCEPT !.pc = "advance"]
  /\ early' = (early \/ fire.at > now)
  /\ UNCHANGED <<status, at, recurring, up, timer, request, dispatches, now,
                 used, series, claims>>

\* Its dispatch(), which is not awaited, wins its claim.
OccurrenceClaim(i) ==
  /\ up
  /\ i \in 1..Len(occurrences)
  /\ ~occurrences[i].claimed
  /\ occurrences[i].life = used.crashes
  /\ occurrences' = [occurrences EXCEPT ![i].claimed = TRUE]
  /\ UNCHANGED <<status, at, recurring, up, memVars, now, used, series, claims,
                 early>>

\* Mutant: one period too many is taken for missed.
NextSkips(time) == time + Period * ((now - time) \div Period + 2)

\* Strictly in the future, however many periods were missed.
NextTime(time) ==
  LET missed == IF now < time THEN 0 ELSE (now - time) \div Period
  IN  time + Period * (missed + 1)

\* Mutant: the row keeps the time of the occurrence just created.
FireKeeps ==
  /\ fire.pc = "advance"
  /\ fire' = [pc |-> "arm", at |-> NextTime(fire.at)]
  /\ UNCHANGED <<dbVars, up, timer, request, dispatches, now, used, series,
                 claims, early>>

\* The template's time moves on, whatever its status is by now.
FireAdvance ==
  /\ fire.pc = "advance"
  /\ at' = NextTime(fire.at)
  /\ fire' = [pc |-> "arm", at |-> NextTime(fire.at)]
  /\ UNCHANGED <<status, recurring, occurrences, up, timer, request,
                 dispatches, now, used, series, claims, early>>

FireArm ==
  /\ fire.pc = "arm"
  /\ timer' = Armed(fire.at)
  /\ fire' = Idle
  /\ UNCHANGED <<dbVars, up, request, dispatches, now, used, series, claims,
                 early>>

-----------------------------------------------------------------------------
(* The process stops and starts, time passes.                               *)

Crash ==
  /\ up
  /\ used.crashes < MaxCrashes /\ Spend("crashes")
  /\ up' = FALSE
  /\ timer' = NoTimer /\ fire' = Idle /\ request' = Idle /\ dispatches' = 0
  /\ UNCHANGED <<dbVars, now, series, claims, early>>

\* Mutant: a time that has passed is not armed again.
BootFutureOnly ==
  /\ ~up
  /\ up' = TRUE
  /\ timer' = IF status = "scheduled" /\ at > now THEN Armed(at) ELSE NoTimer
  /\ UNCHANGED <<dbVars, fire, request, dispatches, now, used, series, claims,
                 early>>

\* onModuleInit(): scheduled campaigns are armed again, also those whose time
\* has passed.
Boot ==
  /\ ~up
  /\ up' = TRUE
  /\ timer' = IF status = "scheduled" /\ at # Never THEN Armed(at) ELSE NoTimer
  /\ UNCHANGED <<dbVars, fire, request, dispatches, now, used, series, claims,
                 early>>

Tick ==
  /\ now < MaxTime
  /\ now' = now + 1
  /\ UNCHANGED <<dbVars, up, memVars, used, series, claims, early>>

-----------------------------------------------------------------------------
FireStep ==
  \/ TimerFires \/ FireRead \/ FireDispatch \/ FireRefused
  \/ FireCreate \/ FireAdvance \/ FireArm

CallStep ==
  \/ \E rec \in BOOLEAN : ScheduleWrite(rec)
  \/ ScheduleArm \/ CancelClear \/ CancelWrite \/ Claim
  \/ \E i \in 1..Len(occurrences) : OccurrenceClaim(i)

Next ==
  \/ \E time \in 1..MaxTime : ScheduleRead(time)
  \/ CancelRead \/ SendNow
  \/ CallStep
  \/ FireStep
  \/ Crash \/ Boot
  \/ Tick

Spec == Init /\ [][Next]_vars

\* Time passes, the timer and the event loop run, the process is started again.
FairSpec ==
  Spec /\ WF_vars(CallStep) /\ WF_vars(FireStep) /\ WF_vars(Boot) /\ WF_vars(Tick)

-----------------------------------------------------------------------------
(* Properties                                                               *)

TypeOK ==
  /\ status \in {"draft", "scheduled", "sending", "cancelled"}
  /\ at \in {Never} \cup Times
  /\ recurring \in BOOLEAN
  /\ occurrences \in Seq([due : Times, claimed : BOOLEAN, when : 0..MaxTime,
                          life : 0..MaxCrashes, series : Nat])
  /\ up \in BOOLEAN /\ early \in BOOLEAN
  /\ timer \in [at : {Never} \cup Times, fire : 0..(MaxTime + Period)]
  /\ fire \in [pc : {"idle", "read", "dispatch", "create", "advance", "arm"},
               at : {Never} \cup Times]
  /\ request \in [pc : {"idle", "write", "arm", "clear", "cancel"},
                  at : {Never} \cup Times]
  /\ dispatches \in Nat /\ series \in Nat /\ claims \in Nat
  /\ now \in 0..MaxTime

\* The campaign is dispatched at most once, also when send-now meets the timer
\* or a second send-now ("only one caller can move the campaign").
DispatchedOnce == claims <= 1

\* Nothing goes out before its time, however far away it is ("Node clamps
\* setTimeout delays ... which would fire a far-future / monthly schedule
\* immediately").
NeverEarly == ~early

\* An occurrence is for a time after the one before was created: periods missed
\* while the process was down are made up for by one occurrence ("fire at most
\* one catch-up rather than one blast per missed period").  Only a stop between
\* the creation and the template's next time repeats an occurrence.
OneCatchUp ==
  \A i, j \in 1..Len(occurrences) :
    LET o == occurrences[i]
        p == occurrences[j]
    IN  i < j /\ o.series = p.series =>
          p.due > o.when \/ (p.due = o.due /\ p.life # o.life)

\* A scheduled campaign has its timer whenever the process is up and nothing is
\* under way, unless a dispatch of it was refused: database and memory agree.
ArmedWhenScheduled ==
  up /\ Calm /\ status = "scheduled" /\ used.refusals = 0 => timer.at = at

\* A campaign goes out once and on time: the four together.
OnTime == DispatchedOnce /\ NeverEarly /\ OneCatchUp /\ ArmedWhenScheduled

\* A single scheduled campaign goes out, or is cancelled, or refused.
GoesOut ==
  status = "scheduled" /\ ~recurring
    ~> status # "scheduled" \/ recurring \/ used.refusals > 0
=============================================================================
