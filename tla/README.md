# PushVault in TLA+

PushVault collects web-push subscribers on its customers' sites and sends them
campaigns ("blasts"), scheduled and recurring campaigns, and drip sequences. The
API is one NestJS process over PostgreSQL; a snippet runs on the customers'
pages, a dashboard in the operators' browsers, and a cron script on the host.
This directory holds a model of all of these: what each module states is
translated from the code under `src/`, and every definition's lines are in
`PROJECT.json` under `map`.

One fact shapes all modules. The API, the snippet and the dashboard are each
single threads of JavaScript, so the code between two `await`s is atomic, and
every awaited statement, request, push or timer lets other handlers run. An
action is therefore one stretch of code from one await to the next, with the
statement that it waits for. Where several reads with nothing in between cannot
be told apart by a property they are one action; where another handler in
between makes a difference they are two.

## The system

| Component | State | What is hard | What makes it correct | Module |
|---|---|---|---|---|
| Send engine (`campaign-runner.service.ts`) with the hourly sweep | `Campaign`, `Send` rows; in memory `remaining`, `paused`, `epochs` | runs and pool tasks of one campaign overlap; restarts; statements that throw | one push per lead, the whole audience, honest rows, exact totals, the blast ends | `CampaignRunner` |
| Quota, caps, call routing (same file) | `Send` rows by tenant and lead | check, then insert, across blasts | bounded excess, even routing | `SendQuota` |
| Segments and the order of an audience (`segment-compiler.ts`, `segments.controller.ts`, `resolveAudienceOrder`) | criteria, manual lists | SQL's three values; edits while a list is read segment by segment | reaches who is meant; nobody twice, nobody left out, fair turns | `SegmentAudience` |
| Membership (`membership.service.ts`) | manual lists, `autoAssign`; the promise chain | read-modify-write of JSON columns | one lead in one segment, fair distribution, the chain drains | `Membership` |
| Scheduling (`armSchedule`, `fireScheduled`, controller) | `status`, `scheduleAt`; `scheduledTimers` | timers are lost at a stop; 32-bit delays; several ways to one claim | out once, not early, one catch-up | `CampaignSchedule` |
| Drips (`automations.service.ts`) | `AutomationJob`, `Send` rows | restarts in the middle of a job, stale reads, poison jobs | once per step, honest records, no starvation | `Automations` |
| Task pool, rate limiter (`task-pool.ts`) | queue, running tasks, `nextAt` | sleepers hold workers while the pace changes | no idle worker, slots apart | `TaskPool` |
| Public intake (`public.service.ts`) | subscribers, clicks, conversions, page paths | races of repeated requests, cut-off requests | counted once, welcomed once per first contact under way | `PublicIntake` |
| Fingerprints, host cache (same file) | bounded map; cached rows | eviction; slow reads that end late | a farm is real; answers are fresh | `Fingerprints`, `HostCache` |
| Rate limit guard | `buckets`, `lastSweep` | pruning and the sweep | never more than the limit in any window | `RateLimit` |
| Snippet (`pushvault.ts`) | `localStorage`, permission, timers per page | gates, safety timers, late answers, several tabs | a verdict stands, gates settle | `OptIn` |
| Campaign page (`CampaignDetail.tsx`) with the controller | forms, polls, requests under way | answers out of order or lost | what is sent was saved; counts fit; pages catch up | `CampaignConsole` |
| Properties and their page (`properties.service.ts`, `PropertyDetail.tsx`) | the row, several forms of it | panels save over each other; deletion in steps | panels stay apart, a toggle takes, leads have a home | `PropertyEditor` |
| Accounts, roles, pages (`auth.*`, `settings.controller.ts`, `Layout.tsx`) | users, tokens | a token is a copy; two administrators at once | clients scoped, rights lapse, menu and guard agree | `Accounts` |
| Google Ads (`google-ads.service.ts`) | credentials, the review of a page | masked values that come back; a site that changes under review | secrets real, verdicts earned | `GoogleAds` |
| Updates (`updates.service.ts`, `host-updater.sh`, `Updates.tsx`) | request, status and lock files | a killed script, a lost request | one build at a time, every request served | `HostUpdater` |

How they interact: a subscribe calls the drips and the membership chain without
awaiting them; an unsubscribe cancels drips the same way. The campaigns
controller calls the send engine and does not await `dispatch` or `resume`.
Timers call `dispatch` through `fireScheduled`. The sweep asks the engine
`isLive` and writes the campaign. Blasts, test sends and drips share the `sends`
table, which quota and caps are counted from. A blast reads the criteria of its
segments, which the membership chain and the dashboard write. The pool of a
tenant runs the tasks of all its blasts, each paced by its campaign's limiter.
Each module takes what the others do to its state as actions of its own.

`PROJECT.json` lists the hazards of the code, each at its line, with the
properties that would catch it, or why none does.

## Modules

Besides those in the table: `BlastContract` is what a blast promises, without
pool, epochs, counts or cursors, and `RunnerRefinement` shows that
`CampaignRunner` implements it. `Parts` puts the sixteen modules beside the
engine next to each other, with one record of constants for each. `MCParts`
gives these their values for TLC; `MCRunner`, `MCProgress`, `MCMembership`,
`MCOptIn` and `MCAudience` do so for the other runs. The modules named
`...Proofs` hold theorems.

**CampaignRunner.** A *run* is one claim of the campaign: its `dispatch`, or a
`resume` by an operator or at boot. A run is named by the epoch that it obtains,
so `phase`, `attempt`, `outcome` and `pushed` are indexed by `<<epoch, lead>>`
for pool tasks and `<<epoch, 0>>` for the loop itself. `status`, `row`, `sub`
and `totals` are the database; `remaining`, `consumed`, `paused` and `epoch` the
runner's maps. `DispatchClaim` to `DispatchEnd`, `Pause...`, `ResumeClaim` to
`ScanEnd`, `TaskStart` to `TaskDone`, `Finalize...` and `Maintenance...` are the
statements of the handlers; `RunFault`, `RecordFault` and `FinalizeFault` those
that throw, where the code catches them; `Restart` loses all but the database and
starts what `onModuleInit` starts. Abstracted: payloads, the order of leads,
pacing in time, the pool's first come first served. `epoch` goes on counting
over a restart, where the map begins again; no task of an earlier process is
left to compare with. `Patient` is an assumption about operators: a pause waits
until earlier requests have returned, a resume until nothing of the earlier run
is past its last look at `stale()`. Without it three properties fail, as the
runs `bug_*` show.

**SendQuota.** Each campaign is a loop `Start`, `ReadBatch`, `CheckQuota`,
`Insert` over the table of `Send` rows. `DirectSend` is a test send or a drip,
which look at no limit.

**SegmentAudience.** `criteria` are the stored segments, `Chosen` and `Where` the
compiled condition, in three values, as the database evaluates it. Resolving an
audience reads all criteria in one step and then one segment's leads per step;
`Sequential`, `Interleaved` and `ByZone` are the three orders. Edits, leaves and
returns come between any two steps. Values are numbers: the grammar's texts,
regular expressions and dates compare alike.

**Membership.** `queue` and `job` are the promise chain of one property. The
edits that go around it (removal, a segment's PATCH, `setAutoAssign`) are a read
and a later write. `Overlap` says whether these may be under way with a job.
Among rules of equal fill ratio the model takes any. `home`, `got`, `torn`,
`steady` are history.

**CampaignSchedule.** `timer` is the entry of `scheduledTimers` with the end of
its hop (`MaxHop` stands for 2^31-1 ms). `Calm` is an assumption: schedule and
cancel requests do not overlap a firing timer or a dispatch that has yet to
claim; send-now may come anywhere. A recurring campaign's next time is one
period later: the calendar of `recurrence.ts` is left out.

**Automations.** `job` and `send` are rows, `pc`, `batch`, `current`, `snapshot`
the poller; `snapshot` is what the tick's query has read, which the code looks at
when a job's turn comes. `JobFault` is a statement that throws.

**TaskPool.** `add`, `pump` and the end of a task are one action each, for there
is no await in `pump`. A slot is reserved when the task starts (`Reserve`); a
change of pace moves no slot that is reserved.

**PublicIntake.** `call` holds each request under way with what it has read. A
click is claimed by the one statement that sets `clickedAt`; the counts follow in
two more, and `lost` counts the requests cut off between them. Page paths are
counted, looked at and stored in three steps.

**RateLimit, Fingerprints, HostCache** have one action per call, or per side of
the one await there is, and a history of what really arrived to compare with.

**OptIn.** Tabs share `choice` (`localStorage`), the permission and the push
subscription; each has a script with its `stage`, the answers and timers still
`pending`, its prompts, re-ask timers and a subscription under way. Timers fire
whenever they are pending. Which page matches and what the gates answer are
choices.

**CampaignConsole.** A page has a form, the status it knows, and one flow of
requests (`flow`) at a time per button; polls and loads overlap it. Requests
read the row in one step and write in a later one, and answers may be lost.
`took` says what the last launch carried.

**PropertyEditor.** A page has a copy of the row (`form`); each panel saves its
own fields, `Body` says which. A pattern is the set of paths it matches, and a
property may have been set up with rules by API or seed. Verification asks the
DNS of several domains and writes what it found. Deletion removes the parts and
then the row.

**Accounts.** `account` is the row, `token` what a browser holds, `login` and
`saving` what a request has read. `Admits` is `JwtAuthGuard`, `Serves` the
handlers' own checks, `Menu` the layout. Requests are kinds: a page, whether they
write, and whom their handler serves.

**GoogleAds.** Texts know whether they are masks. The review fetches the page as
two devices and then `robots.txt`, while the site may change. Google takes a
campaign whole or not at all, and its answer may be lost.

**HostUpdater.** `Page`, `Poll` and `Click` are the dashboard and the API,
`Cron`, `TakeLock` and the steps after it the script; a kill leaves the lock
directory, which the code takes as "already running".

## Runs

| Run | Shows | Bounds and why they are enough |
|---|---|---|
| `runner_patient` | no lead pushed twice, audience complete, count exact, pause stops, the contract is implemented | two leads in batches of one: targeting has a middle, where a pause may fall; two slots: tasks overlap; two attempts: a task may sleep; one pause and resume, one lead that leaves |
| `runner_faults` | types, one push per run, honest rows, exact totals, no mislabelled delivery, replays of open rows only; the blast ends unless its loop was cut off | a restart, a task or finalize that throws, a loop that throws and a resume, in any order; a batch longer than the audience, which `runner_patient` does not have |
| `parts` | the safety of the sixteen modules beside the engine | see below |
| `progress` | liveness of six of them | see below |
| `bug_double_push` | `NoDoublePush` violated | one lead |
| `bug_pause_targeting` | `CompleteAtRest` violated | two leads |
| `bug_abort_stuck` | `BlastEnds` violated | one lead, one abort |
| `bug_drip_lost` | `JobsEnd` violated | one job, one restart |
| `bug_two_segments` | `NeverInTwo` violated | two assignments and one removal that overlap |
| `bug_turnstile` | `OnlyBotsHidden` violated | one tab with the challenge switched on |
| `bug_save_resume` | `ResumeSaves` violated | one page, one edit |
| `bug_candidates` | `CandidatesAreTheRest` violated | three leads, one without a country |

`Parts` and `MCProgress` instantiate many modules side by side. The modules
share no state in these models, so a behaviour is one of `part` and the
variables of all other parts stay `Off` (or in their initial state); this is the
same as a run per module. Each instance has what its hazards need: two
campaigns' dispatches at once and a quota that cuts a batch; two segments with
weights 1 and 2; three leads of which one lacks a field, and two segments that
change while they are read; two overlapping subscribes of one browser, a
restart and a fault for the drips; times that need two hops, a stop that outlasts
a period; buckets of different windows and a sweep of one horizon; a
fingerprint map that overflows; two requests with a cache that runs out between
them; pages beyond the cap by one; four configurations of the prompt that use
every switch; three tasks on two workers with one change of pace; two pages, two
scripts and a kill; two users who may both be administrators; property rules
with a glob over one page; two sites, one with failures of both kinds.
`Max...` constants are bounds of the model, except `MaxRetries`, `MaxHop`,
`MaxAudience` and `MaxEntries`, which are the code's.

No run has symmetry: leads are numbers, or liveness is checked. Deadlock is not
checked because each model comes to its end: a blast is over, bounds are spent.

What the violations show, each against a sentence of the code or its documents
(quoted in `PROJECT.json` under `findings`):

* `bug_double_push`: `processSend` looks at `stale()` for the last time before
  its first push. A push in flight survives a pause; its row is still
  `queued`, so a resume enqueues it again.
* `bug_pause_targeting`: `dispatch` goes on targeting while paused, so that
  resume delivers everything; but a resume that comes before targeting ends
  replays only the rows there are, and the tasks of later rows find their epoch
  superseded. The campaign ends as sent with rows in `queued`.
* `bug_abort_stuck`: if a statement of the targeting loop throws, `remaining`
  stays at its largest value, `isLive` stays true, and the sweep never closes
  the campaign.
* `bug_two_segments`: the removal of a member writes back lists that it read
  before the chain evicted another lead from the segment.
* `bug_drip_lost`: a job claimed when the process stops stays `sending`; only
  `queued` jobs are ever read.
* `bug_turnstile`: an API that answers with an error (429, 500) is taken for
  Cloudflare's verdict, and the prompt stays hidden.
* `bug_save_resume`: "Save & Resume" does not save.
* `bug_candidates`: a lead whose filtered field is null is neither a member of
  the segment nor offered as a candidate.

### Fairness

Weak fairness of each continuation that an event loop owes: a request that has
been accepted, the loop of each run, each task, each `finalize`, and the sweep's
timer (`CampaignRunner`); the promise chain and requests that have read and go on
to write (`Membership`); the poller's interval (`Automations`); the event loop,
the timer, the clock, and a process that is started again, `restart:
unless-stopped` in the compose file (`CampaignSchedule`); the gates' safety
timers (`OptIn`); the API's writes and the running script, and strong fairness of
cron's start of each script, which fires every minute and finds a request there
again and again (`HostUpdater`); a page's poll and its load (`CampaignConsole`).
Nobody is assumed to press a button, and nothing is assumed to fail, answer or
restart. For a waiting task it also says that the pool does not pass over it for
ever, which its first come first served queue ensures.

## Proofs

Each theorem holds for every value of the constants that its assumptions admit.

### The send engine

`CampaignRunner` needs `RunnerAssumption` (sizes are positive, bounds natural
numbers) for all that follows. Three theorems need no more:

* `CampaignRunnerProofs`. `TypeCorrect`: `TypeOK` is inductive; the delicate
  clause is `remaining`, which `SetRemaining` drops as soon as it would not be
  positive. `SentIsHonest`: `HonestInv` adds that a task whose outcome is "sent"
  has delivered its push. `OnePushPerRun`: `OnceInv` has three parts.
  `PushedOnce`: a task that has not ended its push has delivered nothing, any
  other at most once; so a second push needs a task created twice. `FreshRuns`:
  an epoch not reached yet has no process. `CursorPassed`: a lead whose task
  exists has been passed by its run's cursor, and `rowId` is injective; so
  neither loop creates a task for the same lead twice.

The others need patience, and some no faults. The assumptions are about
constants, so they select among the instances of the model and are named in each
theorem:

| Name | Says | Why it is needed |
|---|---|---|
| `Calm` | `Patient`, and no pauses in an instance in which statements throw | `bug_double_push` and `bug_pause_targeting` show what impatient operators do; a loop that throws leaves its count behind, and a sweep that found the campaign before a pause may write to it after the resume |
| `NoLoss` | no restart and no fault | a stop between a push and its record leaves the row `queued`, and the restart pushes again |
| `Faultless` | `Calm`, no restart, no fault, no abort | a stop during targeting loses the leads that have no row yet |

`runner_patient` satisfies all of them, with pauses, resumes, retries and leads
that leave; so no theorem is about instances in which nothing happens.

* The second half of `CampaignRunnerProofs`, under `Calm`: `FinalizeIsLast` and
  `PauseHolds`.
  `CalmInv` says which runs may still act. `Control`: a process past its last look
  at `stale()` belongs to the latest run, and to the current epoch unless the
  campaign is paused (`OneWorks`); a campaign that the database calls paused is so
  in memory too, or nothing of it is left to run (`Halted`). `Count`: the count
  that triggers `finalize()` is never less than the tasks that are still to take
  themselves off it (`Owing`). While a loop creates tasks the count is at its
  largest value and what tasks take off it is added up beside it; each action is a
  cardinality argument.
* The same module, under `Calm`: `TotalsAgree`, `OnlyOpenRows` and
  `NeverMislabelled`. `Rows`: the counters are behind the rows by exactly the
  tasks that have written the row and not yet the total, and what a `finalize()`
  or sweep has counted is still true when it writes. `FirstHonest`: a
  first run closes a row as "failed" only where no push was delivered. `Untouched`:
  a lead that the first run's cursor has not passed has no row.
* `RunnerContractProofs`. `PushedAtMostOnce`, under `Calm` and `NoLoss`: a
  delivered push is about to be recorded by its task or is recorded (`Single`),
  and by one task only. `SentIsComplete`, under `Faultless`: the audience is split
  into leads past the cursor, whose rows exist (`Targeted`, `Recorded`), and
  leads before it; each open row has a task that will close it, or the resume's
  scan is yet to read it (`Taken`, `Remains`); and the count accounts for all of
  them (`Consumes`), so it reaches zero only when all rows are closed
  (`AllClosed`). `RunnerKeepsContract`, under `Faultless`: the refinement. Of the
  engine's steps, `DispatchClaim` maps to `Launch`, `TargetInsert` to `Queue`, a
  batch of `ScanEnqueue` to `Close` with "failed" for leads that have left,
  `PushDelivered` to `Push`, `RecordRow` to `Close`, `PauseWrite` to `Pause`,
  `ResumeClaim` to `Resume` and `FinalizeWrite` to `Finish`; every other step
  leaves the contract's variables alone.

TLC agrees that `CalmInv`, `Rows`, `Single` and `Debts` are invariants on
`runner_patient`'s constants (127,918 states) and on three leads in batches of two
(100,878 states).

### The parts

The theorems about the modules beside the engine are stated of `Parts`, from
`PartsAssumption`, which is the conjunction of the modules' own assumptions.
`PartSteps` says that a step of `Parts` is one of its part, or none. Each
invariant is then that of one module.

* `PartsProofs`. `AnswersAreFresh`: rows are never older than the date they are
  kept under, in the cache and on their way to it (`DatesBind`), whichever of
  several reads ends last. `BuildsAlone`: a script beyond the lock is the only
  one there, and then there is a lock; a kill keeps the directory. `AdsHold`:
  every copy of the stored secret that a request has read is no mask, for that
  copy is what is "kept" (`SecretInv`), and a review's findings are those of the
  answers it has got so far (`ReviewInv`). `AccountsHold`: what is stored or about
  to be stored passed the checks (`Stored`), and a copy of an account that differs
  from it is not younger than the change (`Dated`): a sign-in under way is as old
  as the change, for no request outlives a tick, and so is its token. `MenuLemma`
  is a case split on roles and pages. `IntakeCounts`: the clicked rows are those
  counted, those whose handler has yet to count them, and those a fault has lost
  (`ClicksKept`); only a handler that has seen the table below its cap creates a
  page, so pages and those about to be created exceed it by at most one for each
  other request under way (`PagesKept`). `LeadsAreWelcomed`: what a lead has got
  and the subscribes that have found no row of it are together no more than the
  requests there can be, and one that finds the row inserted by another leaves
  the greeting to that one (`Greeted`). `IntakeAssumption` makes the set of
  requests under way finite and not empty.
* `LimiterProofs`. `WindowsAreKept`: the guard counts what the bucket holds, the
  property what was let through; they agree because no window is longer than the
  sweep's horizon and so no hit younger than the window is dropped
  (`Remembered`): the limit-th hit back must be old (`LimitthIsOld`). For the
  fingerprints, the addresses on the list came within the window, and the list is
  finite because each call adds one (`FarmInv`); `Addresses` may be infinite.
  `QuotaIsKept` and `CallsAreSpread`, from `QuotaInv`. A dispatch counts first and
  creates later, so what is bounded is the month's rows plus those about to be
  created (`QuotaKept`), and a lead's rows plus its takers (`CapsKept`). At most
  `MaxParallel` dispatches are under way (`Lanes`), so when one counts, the others
  hold a batch each at most: the leads of a batch map one to one to
  `0..BatchSize - 1` by their distance from the cursor (`HeldByFew`). For the
  calls, a row's number is the rank of its lead among its campaign's, modulo the
  pool (`Placed`); ranks run from zero without gaps, and of the first n numbers
  each remainder has as many as any other or one more. The assumption that test
  sends and drips are no campaigns (`QuotaAssumption`) fixes what `by` may name.
  TLC agrees that `QuotaInv` is an invariant on three campaigns of two leads in
  batches of two (146,288 states).
* `OutreachProofs`. `PoolIsPaced`: `nextAt` stays beyond the last slot (`Ahead`),
  and the queue holds each waiting task once while the workers hold exactly the
  tasks on their way (`Orderly`), so that `Pump` adds as many workers as it takes
  tasks. `DripsHold`: one request of a lead enrols it, namely one that found no
  lead while no other was between its lookup and its upsert (`EnrolledOnce`); a
  row that is queued has not been pushed and one that is sent has been, once
  (`RowsTrue`), which follows from what the worker has done with the job in hand
  (`HandTrue`). `LeaversAreLeft`, the action property `QuietAfterLeave`: the leads
  that a tick has read were active then, or left during the tick
  (`SnapshotTrue`). `SchedulesHold`: one request, timer or fire is under way at a
  time (`OneAtATime`); a timer and what it starts are for the time on the row
  (`RightTime`); what has been created is older than that time, until it moves on
  (`Past`), so an occurrence is neither created again nor made up twice.
* `AudienceProofs`. `SegmentsReach` needs no invariant: the three truth values of
  SQL are followed from a condition to the whole `where`. `AudiencesAreDialled`,
  from `OrderInv`: a lead that has met a target ever since its criteria were read
  is in the target's list, however edits move it (`Kept`), and the order is the one
  that the lists read so far make (`Made`). The loops of `resolveAudienceOrder()`
  are folds, each followed through a function of its first k values (`Recursion`,
  `Run`). In the round robin a list that is not used up has as many leads dialled
  as it had turns, and, if the lists share no lead, none has more (`Rounds`), so
  two such lists differ by one at most (`TurnsAreEven`). `AudienceAssumption` asks
  for a sequence of leads without repeats, zones numbered from one and no more than
  leads, and finitely many segments. TLC agrees that `OrderInv` is an invariant
  (461,000 states). `LeadsHaveOneHome` and `SharesAreFair` have the hypothesis
  `~Overlap`: the rewriting of two segments, by the chain and by an edit, does not
  overlap. Without it they are false, as `bug_two_segments` shows. A lead is at
  home but for those of an assignment under way (`HomesTrue`), of which what has
  been written is what will be and the rest is as it was read (`HalfDone`). For the
  shares, the counts fall short of what went out by the one under way and the
  faults (`Counts`), and the segment that a lead is given had the lowest share when
  it was chosen (`Lowest`); so none is more than one lead ahead (`Balanced`).
* `PagesProofs`. `HiddenStaysHidden`: a late answer is harmless because its gate
  is either the one the page waits for or settled, and prompts and re-ask timers
  are only where one was shown (`Good`). `CountsFitTheForm` and `SavesComeFirst`,
  from `ConsoleInv`: an edit that changes the leads makes the counts under way
  stale, so one that is not stale is for the form's leads; a button that saves
  goes on only after its save, and the row's number of saves never falls, so what
  a launch reads includes the save of its press. `PropertyHolds`, from
  `EditorInv`: a request sets exactly the fields that its panel is about, and the
  prompt that a toggle sends says of its path what the toggle was to say
  (`RequestOK`).
* `TypeProofs`. `PartsAreTyped`, from `PartsInv`: the invariants above, each with
  what its part's `TypeOK` needs beside it. Most of it is bookkeeping; four parts
  bound what they count by what was asked for, and there the bound is an argument.
  In the designer no text on a page, in a request or in the row is newer than the
  latest edit (`TextsKept`), and the saves and the presses still to save are
  together no more than the presses (`SavesPaid`), as one press saves once. In the
  intake, what a counter shows and the handlers that may yet count are together no
  more than the requests there were (`Paid`), and a fault loses at most one of
  each count per request under way. The list of fingerprints is as long as its
  members are many, because it has no repeats (`EntriesCounted`). A membership job
  knows its segment by the time it writes (`JobTargets`).

### Only model-checked

Liveness is out of the prover's reach together with `ENABLED`: `BlastEnds`,
`EndsUnlessAborted` and the properties of `progress`. `CompleteAtRest` is no
theorem: it is what `bug_pause_targeting` shows violated. `SentIsComplete` is what
holds of it. Every other invariant and action property of the passing runs is
stated by a theorem. No module uses `RECURSIVE`.

## Not modelled

* Tenant isolation (row level security): the database enforces it per statement;
  there is no state or order in it to check.
* Dashboard reports, listings, facets, exports, troubleshooting, the geo lookup
  and the hosted page: reads, file lookups and templates. The error log is a ring
  buffer that nothing reads but a person.
* The calendar of recurring campaigns, A/B variants, the push protocol, payloads,
  billing rates, `rotateApiKey` and `generateVapid`: arithmetic, a library, or
  single statements.
* The steps of an automation being edited while jobs are queued; creation and
  duplication of campaigns; the pop-under and the service worker of the snippet;
  the look of prompts, and pages of the dashboard that show what the API answers.
* Seeds, scripts, the demo site, build and deployment.

## Observed while modelling

Not stated by a sentence of the repository, so no run shows them as violations:

* A stop during targeting loses the leads without a row yet: the restart resumes
  rows. A scheduled campaign refused for its quota keeps its status without a
  timer until a restart.
* Two activations of hosted domains at once write the list each has read, and one
  is lost; a deletion of a property that fails at the row leaves its parts gone.
* `load()` of the property page discards unsaved edits of the designer, and the
  prompt's configuration is saved as a whole from what the page read.
* `setConfig` and `disconnect` of Google Ads write over each other; a creation
  whose answer is lost is made again by the next press.
* The records export pages by `createdAt` alone, which rows of one `createMany`
  share. "Assign filtered" asks to confirm a total that counts every status.
* The pop-under looks at its cap when the page loads: two tabs loaded before
  either was clicked open it twice.
