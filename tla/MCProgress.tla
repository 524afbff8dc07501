----------------------------- MODULE MCProgress -----------------------------
(***************************************************************************)
(* What must get somewhere: the parts whose liveness is checked, each on a *)
(* small instance.  They share no state, so a behaviour is one of `part`,  *)
(* and the other parts rest in their initial states.                       *)
(***************************************************************************)
EXTENDS Naturals, FiniteSets, Sequences

VARIABLES
  part,
  exists, lists, config, queue, membersJob, arrived, edit, setting, deleted,
  membersUsed, home, got, torn, steady,
  dripsLead, active, dripsJob, due, send, of, dripsRequest, known, cancels,
  dripsPc, batch, current, snapshot, dripsUsed, pushed, leftInTick,
  scheduleStatus, at, recurring, occurrences, up, timer, fire,
  scheduleRequest, dispatches, now, scheduleUsed, series, claims, early,
  cfg, choice, seen, permission, pushSub, scriptLead, tab, loads,
  updateRequest, updateStatus, lock, updatePc, fetched, latest, deployed,
  posting, shown, broken, applies, kills,
  row, page, launch, took, edits, presses, losses

Members == INSTANCE Membership WITH
  job <- membersJob, used <- membersUsed, Segs <- {"a"}, Leads <- {"l"},
  Weight <- [s \in {"a"} |-> 1], NoSeg <- "none", Overlap <- FALSE,
  MaxAssigns <- 1, MaxEdits <- 1, MaxFaults <- 1

Drips == INSTANCE Automations WITH
  lead <- dripsLead, job <- dripsJob, request <- dripsRequest, pc <- dripsPc,
  used <- dripsUsed, Leads <- {"l"}, Requests <- {"r"}, NumSteps <- 2,
  BatchSize <- 1, NoLead <- "none", MaxLeaves <- 1, MaxToggles <- 1,
  MaxFaults <- 1, MaxCrashes <- 1

Schedule == INSTANCE CampaignSchedule WITH
  status <- scheduleStatus, request <- scheduleRequest, used <- scheduleUsed,
  MaxHop <- 2, Period <- 2, MaxTime <- 3, MaxRequests <- 2, MaxCrashes <- 1,
  MaxRefusals <- 1

\* A prompt behind every gate.
Owners ==
  {[reask |-> TRUE, samePage |-> FALSE, autoClose |-> FALSE,
    yes |-> "subscribe", ios |-> FALSE, visitor |-> "all", human |-> TRUE,
    farm |-> TRUE, turnstile |-> TRUE]}

Script == INSTANCE OptIn WITH
  lead <- scriptLead, Tabs <- {"t"}, Owners <- Owners, MaxLoads <- 1,
  MaxPrompts <- 1

Update == INSTANCE HostUpdater WITH
  request <- updateRequest, status <- updateStatus, pc <- updatePc,
  Pages <- {"p", "q"}, Scripts <- {"s1", "s2"}, MaxCommits <- 1,
  MaxApplies <- 2, MaxKills <- 0

Console == INSTANCE CampaignConsole WITH
  Pages <- {"p"}, Editors <- {"p"}, Leads <- {"none"}, MaxEdits <- 0,
  MaxPresses <- 1, MaxAnswers <- 2, MaxLosses <- 1

ASSUME ProgressAssumption ==
  /\ Members!MembershipAssumption
  /\ Drips!AutomationsAssumption
  /\ Schedule!ScheduleAssumption
  /\ Script!OptInAssumption
  /\ Update!UpdaterAssumption
  /\ Console!ConsoleAssumption

members == <<exists, lists, config, queue, membersJob, arrived, edit, setting,
             deleted, membersUsed, home, got, torn, steady>>
drips == <<dripsLead, active, dripsJob, due, send, of, dripsRequest, known,
           cancels, dripsPc, batch, current, snapshot, dripsUsed, pushed,
           leftInTick>>
schedule == <<scheduleStatus, at, recurring, occurrences, up, timer, fire,
              scheduleRequest, dispatches, now, scheduleUsed, series, claims,
              early>>
script == <<cfg, choice, seen, permission, pushSub, scriptLead, tab, loads>>
update == <<updateRequest, updateStatus, lock, updatePc, fetched, latest,
            deployed, posting, shown, broken, applies, kills>>
console == <<row, page, launch, took, edits, presses, losses>>

Parts == {"members", "drips", "schedule", "script", "update", "console"}

\* A part that rests is in one of its initial states.
Init ==
  /\ part \in Parts
  /\ Members!Init /\ Drips!Init /\ Schedule!Init /\ Script!Init /\ Update!Init
  /\ Console!Init
  /\ part # "console" => row.status = "draft"

Next ==
  \/ /\ part = "members" /\ Members!Next
     /\ UNCHANGED <<part, drips, schedule, script, update, console>>
  \/ /\ part = "drips" /\ Drips!Next
     /\ UNCHANGED <<part, members, schedule, script, update, console>>
  \/ /\ part = "schedule" /\ Schedule!Next
     /\ UNCHANGED <<part, members, drips, script, update, console>>
  \/ /\ part = "script" /\ Script!Next
     /\ UNCHANGED <<part, members, drips, schedule, update, console>>
  \/ /\ part = "update" /\ Update!Next
     /\ UNCHANGED <<part, members, drips, schedule, script, console>>
  \/ /\ part = "console" /\ Console!Next
     /\ UNCHANGED <<part, members, drips, schedule, script, update>>

vars == <<part, members, drips, schedule, script, update, console>>

\* The fairness of each part, in the behaviours that are its own: the job of
\* the membership queue and the request that edits go on; the poller of drips
\* runs; calls, the timer, a start and the clock of the scheduler; the timers
\* of the gates; the API and the script of the host; and the polls of a page,
\* which are answered.
Fairness ==
  /\ WF_members(part = "members" /\ Members!JobStep)
  /\ WF_members(part = "members" /\ Members!EditStep)
  /\ WF_drips(part = "drips" /\ Drips!TickStep)
  /\ WF_schedule(part = "schedule" /\ Schedule!CallStep)
  /\ WF_schedule(part = "schedule" /\ Schedule!FireStep)
  /\ WF_schedule(part = "schedule" /\ Schedule!Boot)
  /\ WF_schedule(part = "schedule" /\ Schedule!Tick)
  /\ WF_script(part = "script" /\ Script!FarmTimer("t"))
  /\ WF_script(part = "script" /\ Script!TurnstileTimer("t"))
  /\ \A p \in {"p", "q"} : WF_update(part = "update" /\ Update!Page(p))
  /\ \A s \in {"s1", "s2"} :
       /\ SF_update(part = "update" /\ Update!Cron(s))
       /\ WF_update(part = "update" /\ Update!Run(s))
  /\ WF_console(part = "console" /\ Console!Poll("p"))
  /\ WF_console(part = "console" /\ Console!LoadRead("p"))
  /\ WF_console(part = "console" /\ Console!Loaded("p"))

Spec == Init /\ [][Next]_vars /\ Fairness

\* The queue of membership jobs drains (membership.service.ts:39-43).
ChainDrains == part = "members" => Members!ChainDrains

\* A due drip is taken up, whatever happens to the others
\* (automations.service.ts:71-101).
JobsTakenUp == part = "drips" => Drips!JobsTakenUp

\* A scheduled campaign goes out, is cancelled or refused
\* (campaign-runner.service.ts:117-194).
GoesOut == part = "schedule" => Schedule!GoesOut

\* Every gate gives its verdict (pushvault.ts:1011, 1056).
GatesSettle == part = "script" => Script!GatesSettle

\* What was at origin when an update was requested comes to run
\* (host-updater.sh:32-44).
UpdateServed == part = "update" => Update!UpdateServed

\* Every page comes to show a status that stays (CampaignDetail.tsx:388-398).
PagesCatchUp == part = "console" => Console!PagesCatchUp
=============================================================================
