-------------------------------- MODULE Parts -------------------------------
(***************************************************************************)
(* The parts of the platform around the send engine.  They share no state  *)
(* in these models, so a behaviour is one of `part`, and the variables of  *)
(* the others are off.  The constants of a part are the fields of one      *)
(* record, named as in its module.                                         *)
(***************************************************************************)
EXTENDS Naturals, FiniteSets, Sequences

CONSTANTS
  Null,    \* the value of a field that has none
  Off,     \* the value of a variable that is not used
  QuotaParams, MembersParams, AudienceParams, DripsParams, ScheduleParams,
  RateParams, FarmParams, HostParams, IntakeParams, ScriptParams,
  PoolParams, UpdateParams, ConsoleParams, RightsParams, EditorParams,
  AdsParams

VARIABLES
  part,
  quotaRows, quotaNow, quotaPc, since, cursor, held, quotaHit, failures,
  membersExists, membersLists, config, membersQueue, membersJob, arrived,
  edit, membersSetting, deleted, membersUsed, home, got, torn, steady,
  audienceRows, criteria, targets, mix, asked, audienceLists, audienceOrder,
  audienceEdits, stayed,
  dripsLead, dripsActive, dripsJob, due, send, of, dripsRequest, known,
  cancels, dripsPc, batch, current, snapshot, dripsUsed, pushed, leftInTick,
  scheduleStatus, at, recurring, occurrences, up, timer, fire,
  scheduleRequest, dispatches, scheduleNow, scheduleUsed, series, claims,
  early,
  rateClock, admitted, kept, lastSweep,
  farmClock, farmOrder, ips, last, verdict,
  hostClock, cache, req,
  sub, welcomed, views, clicked, leadClicks, campClicks, revenue, call,
  intakeTold, lost, calls, faults,
  cfg, choice, seen, permission, pushSub, scriptLead, tab, loads,
  poolClock, poolQueue, poolActive, stage, wake, interval, nextAt, slots,
  changes,
  updateRequest, updateStatus, lock, updatePc, fetched, latest, deployed,
  posting, updateShown, broken, applies, kills,
  consoleRow, page, launch, took, consoleEdits, presses, losses,
  rightsClock, account, token, login, saving, rightsEdits,
  editorRow, form, listed, sent, reload, hosted, removal, editorExists, parts,
  leads, moves, saved, toggled,
  stored, adsShown, adsSetting, site, check, adsCheck, google, press, adsTold,
  adsUsed, viewed

Quota == INSTANCE SendQuota WITH
  rows <- quotaRows, now <- quotaNow, pc <- quotaPc,
  Campaigns <- QuotaParams.Campaigns, NumLeads <- QuotaParams.NumLeads,
  BatchSize <- QuotaParams.BatchSize, Quota <- QuotaParams.Quota,
  CapDay <- QuotaParams.CapDay, CapWeek <- QuotaParams.CapWeek,
  Numbers <- QuotaParams.Numbers, DayTicks <- QuotaParams.DayTicks,
  WeekTicks <- QuotaParams.WeekTicks, MonthTicks <- QuotaParams.MonthTicks,
  MaxParallel <- QuotaParams.MaxParallel, MaxTime <- QuotaParams.MaxTime,
  MaxDirect <- QuotaParams.MaxDirect,
  MaxFailures <- QuotaParams.MaxFailures

Members == INSTANCE Membership WITH
  exists <- membersExists, lists <- membersLists, queue <- membersQueue,
  job <- membersJob, setting <- membersSetting, used <- membersUsed,
  Segs <- MembersParams.Segs, Leads <- MembersParams.Leads,
  Weight <- MembersParams.Weight, NoSeg <- MembersParams.NoSeg,
  Overlap <- MembersParams.Overlap, MaxAssigns <- MembersParams.MaxAssigns,
  MaxEdits <- MembersParams.MaxEdits, MaxFaults <- MembersParams.MaxFaults

Audience == INSTANCE SegmentAudience WITH
  rows <- audienceRows, lists <- audienceLists, order <- audienceOrder,
  edits <- audienceEdits, Segs <- AudienceParams.Segs,
  Leads <- AudienceParams.Leads, Country <- AudienceParams.Country,
  Zone <- AudienceParams.Zone, Conditions <- AudienceParams.Conditions,
  Filters <- AudienceParams.Filters,
  MaxAudience <- AudienceParams.MaxAudience,
  MaxEdits <- AudienceParams.MaxEdits, Null <- Null

Drips == INSTANCE Automations WITH
  lead <- dripsLead, active <- dripsActive, job <- dripsJob,
  request <- dripsRequest, pc <- dripsPc, used <- dripsUsed,
  Leads <- DripsParams.Leads, Requests <- DripsParams.Requests,
  NumSteps <- DripsParams.NumSteps, BatchSize <- DripsParams.BatchSize,
  NoLead <- DripsParams.NoLead, MaxLeaves <- DripsParams.MaxLeaves,
  MaxToggles <- DripsParams.MaxToggles, MaxFaults <- DripsParams.MaxFaults,
  MaxCrashes <- DripsParams.MaxCrashes

Schedule == INSTANCE CampaignSchedule WITH
  status <- scheduleStatus, request <- scheduleRequest, now <- scheduleNow,
  used <- scheduleUsed, MaxHop <- ScheduleParams.MaxHop,
  Period <- ScheduleParams.Period, MaxTime <- ScheduleParams.MaxTime,
  MaxRequests <- ScheduleParams.MaxRequests,
  MaxCrashes <- ScheduleParams.MaxCrashes,
  MaxRefusals <- ScheduleParams.MaxRefusals

Rate == INSTANCE RateLimit WITH
  clock <- rateClock, Keys <- RateParams.Keys, Limit <- RateParams.Limit,
  Window <- RateParams.Window, SweepEvery <- RateParams.SweepEvery,
  Horizon <- RateParams.Horizon, MaxClock <- RateParams.MaxClock,
  MaxAdmitted <- RateParams.MaxAdmitted

Farm == INSTANCE Fingerprints WITH
  clock <- farmClock, order <- farmOrder, Prints <- FarmParams.Prints,
  Addresses <- FarmParams.Addresses, FpWindow <- FarmParams.FpWindow,
  FarmIps <- FarmParams.FarmIps, MaxEntries <- FarmParams.MaxEntries,
  MaxClock <- FarmParams.MaxClock

Host == INSTANCE HostCache WITH
  clock <- hostClock, Requests <- HostParams.Requests,
  Ttl <- HostParams.Ttl, MaxClock <- HostParams.MaxClock

Intake == INSTANCE PublicIntake WITH
  told <- intakeTold, Calls <- IntakeParams.Calls,
  Browsers <- IntakeParams.Browsers, Paths <- IntakeParams.Paths,
  Sends <- IntakeParams.Sends, Origins <- IntakeParams.Origins,
  Domains <- IntakeParams.Domains, PageCap <- IntakeParams.PageCap,
  MaxCalls <- IntakeParams.MaxCalls, MaxFaults <- IntakeParams.MaxFaults

Script == INSTANCE OptIn WITH
  lead <- scriptLead, Tabs <- ScriptParams.Tabs,
  Owners <- ScriptParams.Owners, MaxLoads <- ScriptParams.MaxLoads,
  MaxPrompts <- ScriptParams.MaxPrompts

Pool == INSTANCE TaskPool WITH
  clock <- poolClock, queue <- poolQueue, active <- poolActive,
  Tasks <- PoolParams.Tasks, Concurrency <- PoolParams.Concurrency,
  Intervals <- PoolParams.Intervals, MaxClock <- PoolParams.MaxClock,
  MaxChanges <- PoolParams.MaxChanges

Update == INSTANCE HostUpdater WITH
  request <- updateRequest, status <- updateStatus, pc <- updatePc,
  shown <- updateShown, Pages <- UpdateParams.Pages,
  Scripts <- UpdateParams.Scripts, MaxCommits <- UpdateParams.MaxCommits,
  MaxApplies <- UpdateParams.MaxApplies, MaxKills <- UpdateParams.MaxKills

Console == INSTANCE CampaignConsole WITH
  row <- consoleRow, edits <- consoleEdits, Pages <- ConsoleParams.Pages,
  Editors <- ConsoleParams.Editors, Leads <- ConsoleParams.Leads,
  MaxEdits <- ConsoleParams.MaxEdits,
  MaxPresses <- ConsoleParams.MaxPresses,
  MaxAnswers <- ConsoleParams.MaxAnswers,
  MaxLosses <- ConsoleParams.MaxLosses

Rights == INSTANCE Accounts WITH
  clock <- rightsClock, edits <- rightsEdits, Users <- RightsParams.Users,
  First <- RightsParams.First, Properties <- RightsParams.Properties,
  Whitelists <- RightsParams.Whitelists, Ttl <- RightsParams.Ttl,
  MaxClock <- RightsParams.MaxClock, MaxEdits <- RightsParams.MaxEdits

Editor == INSTANCE PropertyEditor WITH
  row <- editorRow, exists <- editorExists,
  Editors <- EditorParams.Editors, Paths <- EditorParams.Paths,
  Patterns <- EditorParams.Patterns, Rules <- EditorParams.Rules,
  Texts <- EditorParams.Texts, Domains <- EditorParams.Domains,
  MaxMoves <- EditorParams.MaxMoves, MaxLeads <- EditorParams.MaxLeads

Ads == INSTANCE GoogleAds WITH
  shown <- adsShown, setting <- adsSetting, told <- adsTold,
  used <- adsUsed, Staff <- AdsParams.Staff, Secrets <- AdsParams.Secrets,
  Sites <- AdsParams.Sites, MaxMoves <- AdsParams.MaxMoves,
  MaxPresses <- AdsParams.MaxPresses

ASSUME PartsAssumption ==
  /\ Quota!QuotaAssumption
  /\ Members!MembershipAssumption
  /\ Audience!AudienceAssumption
  /\ Drips!AutomationsAssumption
  /\ Schedule!ScheduleAssumption
  /\ Rate!RateAssumption
  /\ Farm!FingerprintAssumption
  /\ Host!CacheAssumption
  /\ Intake!IntakeAssumption
  /\ Script!OptInAssumption
  /\ Pool!PoolAssumption
  /\ Update!UpdaterAssumption
  /\ Console!ConsoleAssumption
  /\ Rights!AccountsAssumption
  /\ Editor!EditorAssumption
  /\ Ads!AdsAssumption

quota == <<quotaRows, quotaNow, quotaPc, since, cursor, held, quotaHit,
           failures>>
members == <<membersExists, membersLists, config, membersQueue, membersJob,
             arrived, edit, membersSetting, deleted, membersUsed, home, got,
             torn, steady>>
audience == <<audienceRows, criteria, targets, mix, asked, audienceLists,
              audienceOrder, audienceEdits, stayed>>
drips == <<dripsLead, dripsActive, dripsJob, due, send, of, dripsRequest,
           known, cancels, dripsPc, batch, current, snapshot, dripsUsed,
           pushed, leftInTick>>
schedule == <<scheduleStatus, at, recurring, occurrences, up, timer, fire,
              scheduleRequest, dispatches, scheduleNow, scheduleUsed, series,
              claims, early>>
rate == <<rateClock, admitted, kept, lastSweep>>
farm == <<farmClock, farmOrder, ips, last, verdict>>
host == <<hostClock, cache, req>>
intake == <<sub, welcomed, views, clicked, leadClicks, campClicks, revenue,
            call, intakeTold, lost, calls, faults>>
script == <<cfg, choice, seen, permission, pushSub, scriptLead, tab, loads>>
pool == <<poolClock, poolQueue, poolActive, stage, wake, interval, nextAt,
          slots, changes>>
update == <<updateRequest, updateStatus, lock, updatePc, fetched, latest,
            deployed, posting, updateShown, broken, applies, kills>>
console == <<consoleRow, page, launch, took, consoleEdits, presses, losses>>
rights == <<rightsClock, account, token, login, saving, rightsEdits>>
editor == <<editorRow, form, listed, sent, reload, hosted, removal,
            editorExists, parts, leads, moves, saved, toggled>>
ads == <<stored, adsShown, adsSetting, site, check, adsCheck, google, press,
         adsTold, adsUsed, viewed>>

Parts == {"quota", "members", "audience", "drips", "schedule", "rate", "farm",
          "host", "intake", "script", "pool", "update", "console", "rights",
          "editor", "ads"}

QuotaOff ==
  /\ quotaRows = Off /\ quotaNow = Off /\ quotaPc = Off /\ since = Off
  /\ cursor = Off /\ held = Off /\ quotaHit = Off /\ failures = Off

MembersOff ==
  /\ membersExists = Off /\ membersLists = Off /\ config = Off
  /\ membersQueue = Off /\ membersJob = Off /\ arrived = Off /\ edit = Off
  /\ membersSetting = Off /\ deleted = Off /\ membersUsed = Off /\ home = Off
  /\ got = Off /\ torn = Off /\ steady = Off

AudienceOff ==
  /\ audienceRows = Off /\ criteria = Off /\ targets = Off /\ mix = Off
  /\ asked = Off /\ audienceLists = Off /\ audienceOrder = Off
  /\ audienceEdits = Off /\ stayed = Off

DripsOff ==
  /\ dripsLead = Off /\ dripsActive = Off /\ dripsJob = Off /\ due = Off
  /\ send = Off /\ of = Off /\ dripsRequest = Off /\ known = Off
  /\ cancels = Off /\ dripsPc = Off /\ batch = Off /\ current = Off
  /\ snapshot = Off /\ dripsUsed = Off /\ pushed = Off /\ leftInTick = Off

ScheduleOff ==
  /\ scheduleStatus = Off /\ at = Off /\ recurring = Off /\ occurrences = Off
  /\ up = Off /\ timer = Off /\ fire = Off /\ scheduleRequest = Off
  /\ dispatches = Off /\ scheduleNow = Off /\ scheduleUsed = Off
  /\ series = Off /\ claims = Off /\ early = Off

RateOff ==
  /\ rateClock = Off /\ admitted = Off /\ kept = Off /\ lastSweep = Off

FarmOff ==
  /\ farmClock = Off /\ farmOrder = Off /\ ips = Off /\ last = Off
  /\ verdict = Off

HostOff ==
  /\ hostClock = Off /\ cache = Off /\ req = Off

IntakeOff ==
  /\ sub = Off /\ welcomed = Off /\ views = Off /\ clicked = Off
  /\ leadClicks = Off /\ campClicks = Off /\ revenue = Off /\ call = Off
  /\ intakeTold = Off /\ lost = Off /\ calls = Off /\ faults = Off

ScriptOff ==
  /\ cfg = Off /\ choice = Off /\ seen = Off /\ permission = Off
  /\ pushSub = Off /\ scriptLead = Off /\ tab = Off /\ loads = Off

PoolOff ==
  /\ poolClock = Off /\ poolQueue = Off /\ poolActive = Off /\ stage = Off
  /\ wake = Off /\ interval = Off /\ nextAt = Off /\ slots = Off
  /\ changes = Off

UpdateOff ==
  /\ updateRequest = Off /\ updateStatus = Off /\ lock = Off /\ updatePc = Off
  /\ fetched = Off /\ latest = Off /\ deployed = Off /\ posting = Off
  /\ updateShown = Off /\ broken = Off /\ applies = Off /\ kills = Off

ConsoleOff ==
  /\ consoleRow = Off /\ page = Off /\ launch = Off /\ took = Off
  /\ consoleEdits = Off /\ presses = Off /\ losses = Off

RightsOff ==
  /\ rightsClock = Off /\ account = Off /\ token = Off /\ login = Off
  /\ saving = Off /\ rightsEdits = Off

EditorOff ==
  /\ editorRow = Off /\ form = Off /\ listed = Off /\ sent = Off
  /\ reload = Off /\ hosted = Off /\ removal = Off /\ editorExists = Off
  /\ parts = Off /\ leads = Off /\ moves = Off /\ saved = Off /\ toggled = Off

AdsOff ==
  /\ stored = Off /\ adsShown = Off /\ adsSetting = Off /\ site = Off
  /\ check = Off /\ adsCheck = Off /\ google = Off /\ press = Off
  /\ adsTold = Off /\ adsUsed = Off /\ viewed = Off

\* Only the variables of one part are used.
Init ==
  /\ part \in Parts
  /\ IF part = "quota" THEN Quota!Init ELSE QuotaOff
  /\ IF part = "members" THEN Members!Init ELSE MembersOff
  /\ IF part = "audience" THEN Audience!Init ELSE AudienceOff
  /\ IF part = "drips" THEN Drips!Init ELSE DripsOff
  /\ IF part = "schedule" THEN Schedule!Init ELSE ScheduleOff
  /\ IF part = "rate" THEN Rate!Init ELSE RateOff
  /\ IF part = "farm" THEN Farm!Init ELSE FarmOff
  /\ IF part = "host" THEN Host!Init ELSE HostOff
  /\ IF part = "intake" THEN Intake!Init ELSE IntakeOff
  /\ IF part = "script" THEN Script!Init ELSE ScriptOff
  /\ IF part = "pool" THEN Pool!Init ELSE PoolOff
  /\ IF part = "update" THEN Update!Init ELSE UpdateOff
  /\ IF part = "console" THEN Console!Init ELSE ConsoleOff
  /\ IF part = "rights" THEN Rights!Init ELSE RightsOff
  /\ IF part = "editor" THEN Editor!Init ELSE EditorOff
  /\ IF part = "ads" THEN Ads!Init ELSE AdsOff

Next ==
  \/ /\ part = "quota" /\ Quota!Next
     /\ UNCHANGED <<part, members, audience, drips, schedule, rate, farm,
                    host, intake, script, pool, update, console, rights,
                    editor, ads>>
  \/ /\ part = "members" /\ Members!Next
     /\ UNCHANGED <<part, quota, audience, drips, schedule, rate, farm, host,
                    intake, script, pool, update, console, rights, editor,
                    ads>>
  \/ /\ part = "audience" /\ Audience!Next
     /\ UNCHANGED <<part, quota, members, drips, schedule, rate, farm, host,
                    intake, script, pool, update, console, rights, editor,
                    ads>>
  \/ /\ part = "drips" /\ Drips!Next
     /\ UNCHANGED <<part, quota, members, audience, schedule, rate, farm,
                    host, intake, script, pool, update, console, rights,
                    editor, ads>>
  \/ /\ part = "schedule" /\ Schedule!Next
     /\ UNCHANGED <<part, quota, members, audience, drips, rate, farm, host,
                    intake, script, pool, update, console, rights, editor,
                    ads>>
  \/ /\ part = "rate" /\ Rate!Next
     /\ UNCHANGED <<part, quota, members, audience, drips, schedule, farm,
                    host, intake, script, pool, update, console, rights,
                    editor, ads>>
  \/ /\ part = "farm" /\ Farm!Next
     /\ UNCHANGED <<part, quota, members, audience, drips, schedule, rate,
                    host, intake, script, pool, update, console, rights,
                    editor, ads>>
  \/ /\ part = "host" /\ Host!Next
     /\ UNCHANGED <<part, quota, members, audience, drips, schedule, rate,
                    farm, intake, script, pool, update, console, rights,
                    editor, ads>>
  \/ /\ part = "intake" /\ Intake!Next
     /\ UNCHANGED <<part, quota, members, audience, drips, schedule, rate,
                    farm, host, script, pool, update, console, rights, editor,
                    ads>>
  \/ /\ part = "script" /\ Script!Next
     /\ UNCHANGED <<part, quota, members, audience, drips, schedule, rate,
                    farm, host, intake, pool, update, console, rights, editor,
                    ads>>
  \/ /\ part = "pool" /\ Pool!Next
     /\ UNCHANGED <<part, quota, members, audience, drips, schedule, rate,
                    farm, host, intake, script, update, console, rights,
                    editor, ads>>
  \/ /\ part = "update" /\ Update!Next
     /\ UNCHANGED <<part, quota, members, audience, drips, schedule, rate,
                    farm, host, intake, script, pool, console, rights, editor,
                    ads>>
  \/ /\ part = "console" /\ Console!Next
     /\ UNCHANGED <<part, quota, members, audience, drips, schedule, rate,
                    farm, host, intake, script, pool, update, rights, editor,
                    ads>>
  \/ /\ part = "rights" /\ Rights!Next
     /\ UNCHANGED <<part, quota, members, audience, drips, schedule, rate,
                    farm, host, intake, script, pool, update, console, editor,
                    ads>>
  \/ /\ part = "editor" /\ Editor!Next
     /\ UNCHANGED <<part, quota, members, audience, drips, schedule, rate,
                    farm, host, intake, script, pool, update, console, rights,
                    ads>>
  \/ /\ part = "ads" /\ Ads!Next
     /\ UNCHANGED <<part, quota, members, audience, drips, schedule, rate,
                    farm, host, intake, script, pool, update, console, rights,
                    editor>>

vars == <<part, quota, members, audience, drips, schedule, rate, farm, host,
          intake, script, pool, update, console, rights, editor, ads>>

Spec == Init /\ [][Next]_vars

\* The variables of every part keep their types.
PartTypes ==
  /\ part \in Parts
  /\ part = "quota" => Quota!TypeOK
  /\ part = "members" => Members!TypeOK
  /\ part = "audience" => Audience!TypeOK
  /\ part = "drips" => Drips!TypeOK
  /\ part = "schedule" => Schedule!TypeOK
  /\ part = "rate" => Rate!TypeOK
  /\ part = "farm" => Farm!TypeOK
  /\ part = "host" => Host!TypeOK
  /\ part = "intake" => Intake!TypeOK
  /\ part = "script" => Script!TypeOK
  /\ part = "pool" => Pool!TypeOK
  /\ part = "update" => Update!TypeOK
  /\ part = "console" => Console!TypeOK
  /\ part = "rights" => Rights!TypeOK
  /\ part = "editor" => Editor!TypeOK
  /\ part = "ads" => Ads!TypeOK

\* The month's quota and the caps of a lead (campaign-runner.service.ts:551,
\* 579).
LimitsHold == part = "quota" => Quota!LimitsHold

\* A blast spreads its calls over the pool of numbers
\* (campaign-runner.service.ts:324-341).
EvenRouting == part = "quota" => Quota!EvenRouting

\* A lead is in one segment (membership.service.ts:58-101).
OneHome == part = "members" => Members!OneHome

\* New leads are shared out by weight (membership.service.ts:132-150).
FairShare == part = "members" => Members!FairShare

\* A segment reaches the leads that were meant (segment-compiler.ts:37-85).
ReachesWhoIsMeant == part = "audience" => Audience!ReachesWhoIsMeant

\* A campaign dials each lead of its segments once, in turn
\* (campaign-runner.service.ts:365-452).
OrderSound == part = "audience" => Audience!OrderSound

\* Drips go out once, and say so truly (automations.service.ts:104-183).
DripsSound == part = "drips" => Drips!DripsSound

\* A lead that has left gets no further drip, but from the tick that had read
\* its jobs before (automations.service.ts:117-124).
QuietAfterLeave == [][part = "drips" => Drips!PushesWhoStayed]_pushed

\* Nothing goes out twice, early, or again for missed periods, or stays without
\* its timer (campaign-runner.service.ts:88-194).
OnTime == part = "schedule" => Schedule!OnTime

\* The windows of the public routes: requests of a bucket
\* (rate-limit.guard.ts:51), addresses of a fingerprint
\* (public.service.ts:180).
WindowsHold ==
  /\ part = "rate" => Rate!AtMostLimit
  /\ part = "farm" => Farm!FarmIsReal

\* No certificate on old rows (public.service.ts:77).
CertsFresh == part = "host" => Host!CertsFresh

\* Clicks, sales and the number of pages are counted exactly
\* (public.service.ts:312, 356, 392).
IntakeExact == part = "intake" => Intake!IntakeExact

\* Drips and distribution start once for a lead that is new, or back
\* (public.service.ts:214).
Welcomed == part = "intake" => Intake!Welcomed

\* A verdict of a gate that has been given stands (pushvault.ts:1048).
VerdictStands == part = "script" => Script!VerdictStands

\* Two builds never run at once (host-updater.sh:28).
OneBuilder == part = "update" => Update!OneBuilder

\* Workers and slots of the pool (task-pool.ts:21, 54).
PacedPool == part = "pool" => Pool!PacedPool

\* The number of leads that is shown belongs to the leads that are chosen
\* (CampaignDetail.tsx:400-410).
AudienceFits == part = "console" => Console!AudienceFits

\* A blast carries what its press has saved (CampaignDetail.tsx:478-486).
SendsSaved == part = "console" => Console!SendsSaved

\* Clients see their property only, rights that are taken away lapse, and the
\* menu shows what the guard admits (settings.controller.ts:208,
\* auth.guard.ts:63, Layout.tsx:27).
AccountsSound == part = "rights" => Rights!AccountsSound

\* No panel writes another's fields, a toggled page is toggled, and a lead has
\* its property (PropertyDetail.tsx:302, 321, properties.service.ts:247).
PropertySound == part = "editor" => Editor!PropertySound

\* Stored secrets are real, stored verdicts earned (google-ads.service.ts:111,
\* 271).
AdsSound == part = "ads" => Ads!AdsSound
=============================================================================
