--------------------------- MODULE CampaignRunner ---------------------------
(***************************************************************************)
(* The life of one campaign in the send engine (campaign-runner.service.ts):*)
(* dispatch, the tenant's task pool, pause and resume, completion counting, *)
(* finalize, the maintenance sweep, and a restart of the API process.       *)
(*                                                                         *)
(* The API is one Node process: code between two awaits is atomic, every   *)
(* awaited database statement or push is a point where other handlers run. *)
(* An action is one such stretch of code with the statement it awaits.     *)
(*                                                                         *)
(* A run is one claim of the campaign: its dispatch, or a resume (by the   *)
(* operator or at boot).  A run is named by the epoch it obtains.  Process *)
(* <<e, s>> is the pool task that run e created for lead s; <<e, 0>> is    *)
(* the dispatch() or resume() coroutine of run e itself.                   *)
(***************************************************************************)
EXTENDS Integers, FiniteSets

CONSTANTS
  NumSubs,      \* the campaign's audience is the leads 1..NumSubs
  BatchSize,    \* BATCH_SIZE: leads targeted, or rows replayed, per round
  Concurrency,  \* TENANT_CONCURRENCY: slots of the tenant's pool
  MaxRetries,   \* MAX_RETRIES: push attempts against a throttling service
  Leavers,      \* the leads that may unsubscribe while the campaign runs
  MaxPauses,    \* bound: pause requests that find the campaign sending
  MaxResumes,   \* bound: resume requests that win the claim
  MaxCrashes,   \* bound: restarts of the API process
  MaxFaults,    \* bound: statements of a task or of finalize() that throw
  MaxAborts,    \* bound: statements of a dispatch or resume loop that throw
  Patient       \* operators act only when the last request has settled

ASSUME RunnerAssumption ==
  /\ NumSubs \in Nat \ {0}
  /\ BatchSize \in Nat \ {0}
  /\ Concurrency \in Nat \ {0}
  /\ MaxRetries \in Nat \ {0}
  /\ Leavers \subseteq 1..NumSubs
  /\ MaxPauses \in Nat /\ MaxResumes \in Nat
  /\ MaxCrashes \in Nat /\ MaxFaults \in Nat /\ MaxAborts \in Nat
  /\ Patient \in BOOLEAN

Subs   == 1..NumSubs
Epochs == 1..(1 + MaxPauses + MaxResumes + MaxCrashes)
Runs   == Epochs \X {0}
Tasks  == Epochs \X Subs
Procs  == Epochs \X (0..NumSubs)

Unset   == -1            \* no entry in the `remaining` map
MaxSafe == NumSubs + 1   \* Number.MAX_SAFE_INTEGER: above any real count

SendStatus == {"none", "queued", "sent", "expired", "failed"}
Outcome    == {"none", "sent", "expired", "failed"}
Tally      == [sent : Nat, expired : Nat, failed : Nat]
NoTally    == [sent |-> 0, expired |-> 0, failed |-> 0]

RunPhase  == {"audience", "target", "insert", "scan", "enqueue"}
TaskPhase == {"waiting", "pacing", "pushing", "backoff",
              "row", "lead", "total", "done"}
FinPhase  == {"finRead", "finTally", "finWrite"}
Phase     == {"none", "ended"} \cup RunPhase \cup TaskPhase \cup FinPhase

VARIABLES
  \* the database
  status,     \* Campaign.status
  row,        \* the status of each lead's Send row of this campaign
  sub,        \* Subscriber.status of each lead
  totals,     \* the campaign's totalSent, totalExpiredPruned, totalFailed
  \* the runner's maps, lost at a restart
  remaining,  \* remaining.get(id)
  consumed,   \* consumedMap.get(id)
  paused,     \* paused.has(id)
  epoch,      \* epochs.get(id); keeps counting over restarts, so that an
              \* epoch names one run of the whole behaviour
  \* coroutines and pool tasks, lost at a restart
  phase,      \* where each process is
  cursor,     \* per run: the last lead, or row id, read so far
  picked,     \* per run: <<lead, was it active?>> of the batch in hand
  attempt,    \* per task: push attempts started
  outcome,    \* per task: how its push ended
  tally,      \* per process: the counts its finalize() has read
  \* requests between two of their statements
  dispatchClaims, resumeClaims, pauseReads, pauseWrites, maint,
  \* the environment
  rowId,      \* the order of the leads' Send rows by id (random UUIDs)
  used,       \* how much of each bound is spent
  \* history
  pushed      \* per task: pushes delivered to the lead's browser

dbVars   == <<status, row, sub, totals>>
memVars  == <<remaining, consumed, paused, epoch>>
runVars  == <<cursor, picked>>
taskVars == <<attempt, outcome, pushed>>
callVars == <<dispatchClaims, resumeClaims, pauseReads, pauseWrites, maint>>
envVars  == <<rowId, used>>
vars == <<dbVars, memVars, phase, runVars, taskVars, tally, callVars, envVars>>

Spend(k) == used' = [used EXCEPT ![k] = @ + 1]
GoTo(p, l) == phase' = [phase EXCEPT ![p] = l]

\* How many rows have each final status (the groupBy of finalize and of the
\* maintenance sweep).
CountRows(st) == Cardinality({s \in Subs : row[s] = st})
RowTally == [sent    |-> CountRows("sent"),
             expired |-> CountRows("expired"),
             failed  |-> CountRows("failed")]

\* The leads a run has created a task for: `targeted`, `requeued`.
Added(e) == Cardinality({s \in Subs : phase[<<e, s>>] # "none"})

\* Mutant: only the pause flag is looked at, a superseded task goes on.
StalePausedOnly(e) == paused

\* stale(): paused or superseded.
Stale(e) == paused \/ epoch # e

\* The tasks that hold a slot of the pool.
InSlot == {t \in Tasks : phase[t] \notin {"none", "waiting", "ended"}}

\* isLive()
IsLive == remaining # Unset \/ paused

\* No request is between two of its statements, no dispatch or resume loop and
\* no finalize() is under way, no task is past its last look at stale(): tasks
\* still in the queue or waiting for a pacing slot do not count.
NoCall == dispatchClaims + resumeClaims + pauseReads + pauseWrites = 0
Settled ==
  /\ NoCall
  /\ \A p \in Procs : phase[p] \in {"none", "waiting", "pacing", "ended"}

\* remaining.set(id, n), then finalize() when nothing is left: its first
\* statements drop the bookkeeping before it awaits anything.
SetRemaining(p, n) ==
  IF n <= 0
  THEN /\ remaining' = Unset
       /\ consumed' = 0
       /\ GoTo(p, "finRead")
  ELSE /\ remaining' = n
       /\ GoTo(p, "ended")
       /\ UNCHANGED consumed

Init ==
  /\ status = "draft"
  /\ row = [s \in Subs |-> "none"]
  /\ sub = [s \in Subs |-> "active"]
  /\ totals = NoTally
  /\ remaining = Unset /\ consumed = 0 /\ paused = FALSE /\ epoch = 0
  /\ phase = [p \in Procs |-> "none"]
  /\ cursor = [e \in Epochs |-> 0]
  /\ picked = [e \in Epochs |-> {}]
  /\ attempt = [t \in Tasks |-> 0]
  /\ outcome = [t \in Tasks |-> "none"]
  /\ pushed = [t \in Tasks |-> 0]
  /\ tally = [p \in Procs |-> NoTally]
  /\ dispatchClaims = 0 /\ resumeClaims = 0
  /\ pauseReads = 0 /\ pauseWrites = 0
  /\ maint = "idle"
  /\ rowId \in {f \in [Subs -> Subs] : \A s, r \in Subs : f[s] = f[r] => s = r}
  /\ used = [pauses |-> 0, resumes |-> 0, crashes |-> 0,
             faults |-> 0, aborts |-> 0]

-----------------------------------------------------------------------------
(* dispatch(): claim the campaign, resolve the audience, create the rows.   *)

\* The updateMany that moves the campaign to "sending" and resets its
\* counters.  A second caller's updateMany finds no draft and does nothing.
DispatchClaim ==
  /\ status = "draft"
  /\ status' = "sending"
  /\ totals' = NoTally
  /\ dispatchClaims' = dispatchClaims + 1
  /\ UNCHANGED <<row, sub, memVars, phase, runVars, taskVars, tally,
                 resumeClaims, pauseReads, pauseWrites, maint, envVars>>

\* The claimant goes on: a new epoch, and the audience query is sent.
DispatchBegin ==
  /\ dispatchClaims > 0
  /\ dispatchClaims' = dispatchClaims - 1
  /\ paused' = FALSE
  /\ epoch' = epoch + 1
  /\ GoTo(<<epoch', 0>>, "audience")
  /\ UNCHANGED <<dbVars, remaining, consumed, runVars, taskVars, tally,
                 resumeClaims, pauseReads, pauseWrites, maint, envVars>>

AudienceResolved(e) ==
  /\ phase[<<e, 0>>] = "audience"
  /\ remaining' = MaxSafe
  /\ GoTo(<<e, 0>>, "target")
  /\ UNCHANGED <<dbVars, consumed, paused, epoch, runVars, taskVars, tally,
                 callVars, envVars>>

\* Mutant: orderedPos grows by BATCH_SIZE, not by the length of the chunk.
TargetReadOvershoots(e) ==
  /\ phase[<<e, 0>>] = "target"
  /\ cursor[e] < NumSubs
  /\ LET live == {s \in Subs : /\ cursor[e] < s /\ s <= cursor[e] + BatchSize
                               /\ sub[s] = "active"}
     IN  /\ cursor' = [cursor EXCEPT ![e] = @ + BatchSize]
         /\ picked' = [picked EXCEPT ![e] = live \X {TRUE}]
         /\ GoTo(<<e, 0>>, IF live = {} THEN "target" ELSE "insert")
  /\ UNCHANGED <<dbVars, memVars, taskVars, tally, callVars, envVars>>

\* The next chunk of the audience, less the leads no longer active.  Targeting
\* does not look at `paused`.
TargetRead(e) ==
  /\ phase[<<e, 0>>] = "target"
  /\ cursor[e] < NumSubs
  /\ LET chunk == {s \in Subs : cursor[e] < s /\ s <= cursor[e] + BatchSize}
         live  == {s \in chunk : sub[s] = "active"}
     IN  /\ cursor' = [cursor EXCEPT ![e] = IF cursor[e] + BatchSize <= NumSubs
                                            THEN cursor[e] + BatchSize
                                            ELSE NumSubs]
         /\ picked' = [picked EXCEPT ![e] = live \X {TRUE}]
         /\ GoTo(<<e, 0>>, IF live = {} THEN "target" ELSE "insert")
  /\ UNCHANGED <<dbVars, memVars, taskVars, tally, callVars, envVars>>

\* createMany of the batch's rows; their tasks join the pool.
TargetInsert(e) ==
  /\ phase[<<e, 0>>] = "insert"
  /\ LET leads == {x[1] : x \in picked[e]}
     IN  /\ row' = [s \in Subs |-> IF s \in leads THEN "queued" ELSE row[s]]
         /\ phase' = [p \in Procs |->
              IF p[1] = e /\ p[2] \in leads THEN "waiting"
              ELSE IF p = <<e, 0>> THEN "target" ELSE phase[p]]
  /\ picked' = [picked EXCEPT ![e] = {}]
  /\ UNCHANGED <<status, sub, totals, memVars, cursor, taskVars, tally,
                 callVars, envVars>>

\* Mutant: a pause cuts the targeting short.
DispatchEndOnPause(e) ==
  /\ phase[<<e, 0>>] = "target"
  /\ cursor[e] = NumSubs \/ paused
  /\ IF paused
     THEN GoTo(<<e, 0>>, "ended") /\ UNCHANGED <<remaining, consumed>>
     ELSE SetRemaining(<<e, 0>>,
                       IF Added(e) = 0 THEN 0 ELSE Added(e) - consumed)
  /\ UNCHANGED <<dbVars, paused, epoch, runVars, taskVars, tally, callVars,
                 envVars>>

\* The audience is exhausted: the completion count is set, unless paused.
DispatchEnd(e) ==
  /\ phase[<<e, 0>>] = "target"
  /\ cursor[e] = NumSubs
  /\ IF paused
     THEN /\ GoTo(<<e, 0>>, "ended")
          /\ UNCHANGED <<remaining, consumed>>
     ELSE SetRemaining(<<e, 0>>,
                       IF Added(e) = 0 THEN 0 ELSE Added(e) - consumed)
  /\ UNCHANGED <<dbVars, paused, epoch, runVars, taskVars, tally, callVars,
                 envVars>>

-----------------------------------------------------------------------------
(* pause(): the status is read, the maps change, the status is written.     *)

PauseRead ==
  /\ status = "sending"
  /\ used.pauses < MaxPauses /\ Spend("pauses")
  /\ Patient => NoCall
  /\ pauseReads' = pauseReads + 1
  /\ UNCHANGED <<dbVars, memVars, phase, runVars, taskVars, tally,
                 dispatchClaims, resumeClaims, pauseWrites, maint, rowId>>

\* Mutant: the pause drops the bookkeeping but tells the workers nothing.
PauseMarkSilently ==
  /\ pauseReads > 0
  /\ pauseReads' = pauseReads - 1
  /\ pauseWrites' = pauseWrites + 1
  /\ remaining' = Unset
  /\ consumed' = 0
  /\ UNCHANGED <<dbVars, paused, epoch, phase, runVars, taskVars, tally,
                 dispatchClaims, resumeClaims, maint, envVars>>

PauseMark ==
  /\ pauseReads > 0
  /\ pauseReads' = pauseReads - 1
  /\ pauseWrites' = pauseWrites + 1
  /\ paused' = TRUE
  /\ epoch' = epoch + 1
  /\ remaining' = Unset
  /\ consumed' = 0
  /\ UNCHANGED <<dbVars, phase, runVars, taskVars, tally, dispatchClaims,
                 resumeClaims, maint, envVars>>

PauseWrite ==
  /\ pauseWrites > 0
  /\ pauseWrites' = pauseWrites - 1
  /\ status' = "paused"
  /\ UNCHANGED <<row, sub, totals, memVars, phase, runVars, taskVars, tally,
                 dispatchClaims, resumeClaims, pauseReads, maint, envVars>>

-----------------------------------------------------------------------------
(* resume(): claim the campaign, then replay its queued rows page by page.  *)

ResumeClaim ==
  /\ status \in {"paused", "failed"}
  /\ used.resumes < MaxResumes /\ Spend("resumes")
  /\ Patient => Settled
  /\ status' = "sending"
  /\ resumeClaims' = resumeClaims + 1
  /\ UNCHANGED <<row, sub, totals, memVars, phase, runVars, taskVars, tally,
                 dispatchClaims, pauseReads, pauseWrites, maint, rowId>>

\* A claimed resume, or the one onModuleInit() starts, goes on.
ResumeBegin ==
  /\ resumeClaims > 0
  /\ resumeClaims' = resumeClaims - 1
  /\ paused' = FALSE
  /\ epoch' = epoch + 1
  /\ remaining' = MaxSafe
  /\ GoTo(<<epoch', 0>>, "scan")
  /\ UNCHANGED <<dbVars, consumed, runVars, taskVars, tally, dispatchClaims,
                 pauseReads, pauseWrites, maint, envVars>>

\* Mutant: the pages are read without a cursor.
UnreadNoCursor(e) == {s \in Subs : row[s] = "queued"}

\* Mutant: the rows are read whatever their status.
UnreadAnyStatus(e) == {s \in Subs : row[s] # "none" /\ cursor[e] < rowId[s]}

\* The queued rows with an id beyond the cursor.
Unread(e) == {s \in Subs : row[s] = "queued" /\ cursor[e] < rowId[s]}

\* The first BatchSize of them, in the order of their ids.
ScanRead(e) ==
  /\ phase[<<e, 0>>] = "scan"
  /\ Unread(e) # {}
  /\ LET page == {s \in Unread(e) :
            Cardinality({r \in Unread(e) : rowId[r] < rowId[s]}) < BatchSize}
     IN  /\ \E last \in page :
              /\ \A s \in page : rowId[s] <= rowId[last]
              /\ cursor' = [cursor EXCEPT ![e] = rowId[last]]
         /\ picked' = [picked EXCEPT ![e] =
                         {<<s, sub[s] = "active">> : s \in page}]
  /\ GoTo(<<e, 0>>, "enqueue")
  /\ UNCHANGED <<dbVars, memVars, taskVars, tally, callVars, envVars>>

\* The rows of leads that were inactive are closed, the others join the pool.
ScanEnqueue(e) ==
  /\ phase[<<e, 0>>] = "enqueue"
  /\ row' = [s \in Subs |-> IF <<s, FALSE>> \in picked[e] THEN "failed"
                                                          ELSE row[s]]
  /\ phase' = [p \in Procs |->
       IF p[1] = e /\ <<p[2], TRUE>> \in picked[e] THEN "waiting"
       ELSE IF p = <<e, 0>> THEN "scan" ELSE phase[p]]
  /\ picked' = [picked EXCEPT ![e] = {}]
  /\ UNCHANGED <<status, sub, totals, memVars, cursor, taskVars, tally,
                 callVars, envVars>>

ScanEnd(e) ==
  /\ phase[<<e, 0>>] = "scan"
  /\ Unread(e) = {}
  /\ SetRemaining(<<e, 0>>, IF Added(e) = 0 THEN 0 ELSE Added(e) - consumed)
  /\ UNCHANGED <<dbVars, paused, epoch, runVars, taskVars, tally, callVars,
                 envVars>>

-----------------------------------------------------------------------------
(* processSend(): one pool task.                                            *)

\* A slot is free.  The pool is first come, first served, and shared with the
\* tenant's other campaigns; here any waiting task may be next.
TaskStart(t) ==
  /\ phase[t] = "waiting"
  /\ Cardinality(InSlot) < Concurrency
  /\ GoTo(t, IF Stale(t[1]) THEN "ended" ELSE "pacing")
  /\ UNCHANGED <<dbVars, memVars, runVars, taskVars, tally, callVars, envVars>>

\* Mutant: a task that finds itself stale still counts as done.
TaskPacedCounts(t) ==
  /\ phase[t] = "pacing"
  /\ IF Stale(t[1])
     THEN GoTo(t, "done") /\ UNCHANGED attempt
     ELSE GoTo(t, "pushing") /\ attempt' = [attempt EXCEPT ![t] = 1]
  /\ UNCHANGED <<dbVars, memVars, runVars, outcome, pushed, tally, callVars,
                 envVars>>

\* The pacing slot has come.  From here to done() nothing looks at stale().
TaskPaced(t) ==
  /\ phase[t] = "pacing"
  /\ IF Stale(t[1])
     THEN GoTo(t, "ended") /\ UNCHANGED attempt
     ELSE GoTo(t, "pushing") /\ attempt' = [attempt EXCEPT ![t] = 1]
  /\ UNCHANGED <<dbVars, memVars, runVars, outcome, pushed, tally, callVars,
                 envVars>>

PushEnds(t, o) ==
  /\ phase[t] = "pushing"
  /\ outcome' = [outcome EXCEPT ![t] = o]
  /\ GoTo(t, "row")
  /\ UNCHANGED <<dbVars, memVars, runVars, attempt, tally, callVars, envVars>>

\* The push service takes the push and delivers it.
PushDelivered(t) ==
  /\ PushEnds(t, "sent")
  /\ pushed' = [pushed EXCEPT ![t] = @ + 1]

\* 404 or 410: the subscription is gone.
PushGone(t) == PushEnds(t, "expired") /\ UNCHANGED pushed

\* Any other error, or a 429 at the last attempt.
PushFails(t) == PushEnds(t, "failed") /\ UNCHANGED pushed

\* 429: sleep, then try again.
PushThrottled(t) ==
  /\ phase[t] = "pushing"
  /\ attempt[t] < MaxRetries
  /\ GoTo(t, "backoff")
  /\ UNCHANGED <<dbVars, memVars, runVars, taskVars, tally, callVars, envVars>>

PushRetry(t) ==
  /\ phase[t] = "backoff"
  /\ GoTo(t, "pushing")
  /\ attempt' = [attempt EXCEPT ![t] = @ + 1]
  /\ UNCHANGED <<dbVars, memVars, runVars, outcome, pushed, tally, callVars,
                 envVars>>

\* Mutant: the row is written "sent" whatever the push service answered.
RecordRowSent(t) ==
  /\ phase[t] = "row"
  /\ row' = [row EXCEPT ![t[2]] = "sent"]
  /\ GoTo(t, IF outcome[t] = "failed" THEN "total" ELSE "lead")
  /\ UNCHANGED <<status, sub, totals, memVars, runVars, taskVars, tally,
                 callVars, envVars>>

\* The outcome is recorded: the Send row, the lead, the campaign's counter.
RecordRow(t) ==
  /\ phase[t] = "row"
  /\ row' = [row EXCEPT ![t[2]] = outcome[t]]
  /\ GoTo(t, IF outcome[t] = "failed" THEN "total" ELSE "lead")
  /\ UNCHANGED <<status, sub, totals, memVars, runVars, taskVars, tally,
                 callVars, envVars>>

RecordLead(t) ==
  /\ phase[t] = "lead"
  /\ sub' = IF outcome[t] = "expired" THEN [sub EXCEPT ![t[2]] = "expired"]
                                      ELSE sub
  /\ GoTo(t, "total")
  /\ UNCHANGED <<status, row, totals, memVars, runVars, taskVars, tally,
                 callVars, envVars>>

RecordTotal(t) ==
  /\ phase[t] = "total"
  /\ totals' = [totals EXCEPT ![outcome[t]] = @ + 1]
  /\ GoTo(t, "done")
  /\ UNCHANGED <<status, row, sub, memVars, runVars, taskVars, tally,
                 callVars, envVars>>

\* Mutant: what is done while the run is still adding tasks is not counted.
TaskDoneForgets(t) ==
  /\ phase[t] = "done"
  /\ IF remaining \in {MaxSafe, Unset}
     THEN GoTo(t, "ended") /\ UNCHANGED <<remaining, consumed>>
     ELSE SetRemaining(t, remaining - 1)
  /\ UNCHANGED <<dbVars, paused, epoch, runVars, taskVars, tally, callVars,
                 envVars>>

\* done(): `finally`, whatever the recording did.
TaskDone(t) ==
  /\ phase[t] = "done"
  /\ \/ /\ remaining = MaxSafe          \* the run is still adding tasks
        /\ consumed' = consumed + 1
        /\ GoTo(t, "ended")
        /\ UNCHANGED remaining
     \/ /\ remaining = Unset            \* paused: resume counts afresh
        /\ GoTo(t, "ended")
        /\ UNCHANGED <<remaining, consumed>>
     \/ /\ remaining \notin {MaxSafe, Unset}
        /\ SetRemaining(t, remaining - 1)
  /\ UNCHANGED <<dbVars, paused, epoch, runVars, taskVars, tally, callVars,
                 envVars>>

-----------------------------------------------------------------------------
(* finalize(), in whichever process it runs.                                *)

FinalizeRead(p) ==
  /\ phase[p] = "finRead"
  /\ GoTo(p, IF status = "paused" THEN "ended" ELSE "finTally")
  /\ UNCHANGED <<dbVars, memVars, runVars, taskVars, tally, callVars, envVars>>

FinalizeTally(p) ==
  /\ phase[p] = "finTally"
  /\ tally' = [tally EXCEPT ![p] = RowTally]
  /\ GoTo(p, "finWrite")
  /\ UNCHANGED <<dbVars, memVars, runVars, taskVars, callVars, envVars>>

\* Mutant: the incremented counters are trusted, not recomputed.
FinalizeWriteKeeps(p) ==
  /\ phase[p] = "finWrite"
  /\ status' = "sent"
  /\ GoTo(p, "ended")
  /\ UNCHANGED <<row, sub, totals, memVars, runVars, taskVars, tally, callVars,
                 envVars>>

FinalizeWrite(p) ==
  /\ phase[p] = "finWrite"
  /\ status' = "sent"
  /\ totals' = tally[p]
  /\ GoTo(p, "ended")
  /\ UNCHANGED <<row, sub, memVars, runVars, taskVars, tally, callVars,
                 envVars>>

-----------------------------------------------------------------------------
(* The hourly sweep over campaigns stuck in "sending".                      *)

\* Sending for an hour, no row touched for twenty minutes (so nothing of it is
\* moving in the process), and not live: the sweep decides to close it.
MaintenanceRead ==
  /\ maint = "idle"
  /\ status = "sending"
  /\ Settled
  /\ ~IsLive
  /\ maint' = "closing"
  /\ UNCHANGED <<dbVars, memVars, phase, runVars, taskVars, tally,
                 dispatchClaims, resumeClaims, pauseReads, pauseWrites,
                 envVars>>

\* Rows still queued are counted as failed.  Nothing is re-checked.
MaintenanceWrite ==
  /\ maint = "closing"
  /\ maint' = "idle"
  /\ status' = IF CountRows("queued") > 0 THEN "failed" ELSE "sent"
  /\ totals' = [RowTally EXCEPT !.failed = @ + CountRows("queued")]
  /\ UNCHANGED <<row, sub, memVars, phase, runVars, taskVars, tally,
                 dispatchClaims, resumeClaims, pauseReads, pauseWrites,
                 envVars>>

-----------------------------------------------------------------------------
(* Faults: a statement throws, the process restarts, a lead unsubscribes.   *)

\* dispatch() or resume() rejects; its caller only logs it.
RunFault(e) ==
  /\ phase[<<e, 0>>] \in RunPhase
  /\ used.aborts < MaxAborts /\ Spend("aborts")
  /\ GoTo(<<e, 0>>, "ended")
  /\ UNCHANGED <<dbVars, memVars, runVars, taskVars, tally, callVars, rowId>>

\* Mutant: an error while recording is taken for a failed push.
RecordFaultMislabels(t) ==
  /\ phase[t] \in {"row", "lead", "total"}
  /\ used.faults < MaxFaults /\ Spend("faults")
  /\ row' = [row EXCEPT ![t[2]] = "failed"]
  /\ GoTo(t, "done")
  /\ UNCHANGED <<status, sub, totals, memVars, runVars, taskVars, tally,
                 callVars, rowId>>

\* Recording an outcome throws: logged, and the rest of it is skipped.
RecordFault(t) ==
  /\ phase[t] \in {"row", "lead", "total"}
  /\ used.faults < MaxFaults /\ Spend("faults")
  /\ GoTo(t, "done")
  /\ UNCHANGED <<dbVars, memVars, runVars, taskVars, tally, callVars, rowId>>

\* finalize() throws: done() swallows it, dispatch() and resume() reject.
FinalizeFault(p) ==
  /\ phase[p] \in FinPhase
  /\ used.faults < MaxFaults /\ Spend("faults")
  /\ GoTo(p, "ended")
  /\ UNCHANGED <<dbVars, memVars, runVars, taskVars, tally, callVars, rowId>>

\* The process dies and starts again: everything but the database is lost,
\* and onModuleInit() resumes a campaign it finds sending.
Restart ==
  /\ used.crashes < MaxCrashes /\ Spend("crashes")
  /\ remaining' = Unset /\ consumed' = 0 /\ paused' = FALSE
  /\ phase' = [p \in Procs |-> IF phase[p] = "none" THEN "none" ELSE "ended"]
  /\ dispatchClaims' = 0 /\ pauseReads' = 0 /\ pauseWrites' = 0
  /\ resumeClaims' = IF status = "sending" THEN 1 ELSE 0
  /\ maint' = "idle"
  /\ UNCHANGED <<dbVars, epoch, runVars, taskVars, tally, rowId>>

Unsubscribe(s) ==
  /\ s \in Leavers
  /\ sub[s] = "active"
  /\ sub' = [sub EXCEPT ![s] = "unsubscribed"]
  /\ UNCHANGED <<status, row, totals, memVars, phase, runVars, taskVars,
                 tally, callVars, envVars>>

-----------------------------------------------------------------------------
RunStep(e) ==
  \/ AudienceResolved(e) \/ TargetRead(e) \/ TargetInsert(e) \/ DispatchEnd(e)
  \/ ScanRead(e) \/ ScanEnqueue(e) \/ ScanEnd(e)

TaskStep(t) ==
  \/ TaskStart(t) \/ TaskPaced(t)
  \/ PushDelivered(t) \/ PushGone(t) \/ PushFails(t)
  \/ PushThrottled(t) \/ PushRetry(t)
  \/ RecordRow(t) \/ RecordLead(t) \/ RecordTotal(t) \/ TaskDone(t)

FinalizeStep(p) == FinalizeRead(p) \/ FinalizeTally(p) \/ FinalizeWrite(p)

CallStep == DispatchBegin \/ PauseMark \/ PauseWrite \/ ResumeBegin

Maintenance == MaintenanceRead \/ MaintenanceWrite

Next ==
  \/ DispatchClaim \/ PauseRead \/ ResumeClaim
  \/ CallStep
  \/ \E e \in Epochs : RunStep(e)
  \/ \E t \in Tasks : TaskStep(t)
  \/ \E p \in Procs : FinalizeStep(p)
  \/ Maintenance
  \/ \E e \in Epochs : RunFault(e)
  \/ \E t \in Tasks : RecordFault(t)
  \/ \E p \in Procs : FinalizeFault(p)
  \/ Restart
  \/ \E s \in Subs : Unsubscribe(s)

\* The event loop runs every continuation, timers fire, the database and the
\* push service answer.  Nobody has to press a button.
Fairness ==
  /\ WF_vars(DispatchBegin) /\ WF_vars(PauseMark) /\ WF_vars(PauseWrite)
  /\ WF_vars(ResumeBegin)
  /\ WF_vars(Maintenance)
  /\ \A e \in Epochs : WF_vars(RunStep(e))
  /\ \A t \in Tasks : WF_vars(TaskStep(t))
  /\ \A p \in Procs : WF_vars(FinalizeStep(p))

Spec     == Init /\ [][Next]_vars
FairSpec == Spec /\ Fairness

-----------------------------------------------------------------------------
(* Properties                                                               *)

TypeOK ==
  /\ status \in {"draft", "sending", "paused", "sent", "failed"}
  /\ row \in [Subs -> SendStatus]
  /\ sub \in [Subs -> {"active", "unsubscribed", "expired"}]
  /\ totals \in Tally
  /\ remaining \in {Unset} \cup Nat
  /\ consumed \in Nat
  /\ paused \in BOOLEAN
  /\ epoch \in Nat
  /\ phase \in [Procs -> Phase]
  /\ cursor \in [Epochs -> 0..NumSubs]
  /\ picked \in [Epochs -> SUBSET (Subs \X BOOLEAN)]
  /\ attempt \in [Tasks -> Nat]
  /\ outcome \in [Tasks -> Outcome]
  /\ pushed \in [Tasks -> Nat]
  /\ tally \in [Procs -> Tally]
  /\ dispatchClaims \in Nat /\ resumeClaims \in Nat
  /\ pauseReads \in Nat /\ pauseWrites \in Nat
  /\ maint \in {"idle", "closing"}
  /\ rowId \in [Subs -> Subs]
  /\ used \in [pauses : Nat, resumes : Nat, crashes : Nat,
               faults : Nat, aborts : Nat]

\* The runs that delivered a push to lead s.
Delivered(s) == {e \in Epochs : pushed[<<e, s>>] > 0}

\* One run pushes a lead at most once: whatever the interleaving of targeting,
\* replaying, retrying a throttled push, pausing and restarting, no row is
\* handed to the pool twice under one epoch (lines 41-42).
OncePerRun == \A t \in Tasks : pushed[t] <= 1

\* A row says "sent" only of a lead that was pushed ("it never flips ..." in
\* the other direction: phase 2 of processSend).
HonestSent == \A s \in Subs : row[s] = "sent" => Delivered(s) # {}

\* No lead is pushed twice by one campaign: what the epochs are for ("stale
\* pool tasks self-cancel (no double sends)").
NoDoublePush == \A s \in Subs : Cardinality(Delivered(s)) <= 1

\* A lead is pushed only while its row is open: after a restart or a statement
\* that threw, the replay repeats a push only where none is on record.
PushesOpenRows ==
  [][\A t \in Tasks : pushed'[t] # pushed[t] => row[t[2]] = "queued"]_pushed

\* In the first run of a campaign no row of a delivered push says "failed":
\* recording is separated from pushing so that a database error after a push
\* never mislabels it.
DeliveredNotFailed ==
  Cardinality({r \in Runs : phase[r] # "none"}) <= 1 =>
    \A s \in Subs : row[s] = "failed" => Delivered(s) = {}

\* A campaign is marked "sent" only when every lead of its audience that is
\* still subscribed has been tried: targeting is not cut short by a pause,
\* and resume delivers all of it.
Complete ==
  status = "sent" =>
    \A s \in Subs : \/ row[s] \in {"sent", "expired", "failed"}
                    \/ row[s] = "none" /\ sub[s] # "active"

\* The same, once everything has come to rest.
CompleteAtRest == Settled => Complete

\* finalize() starts only when the last task has recorded its outcome, though
\* the count is kept by increments while tasks are still being added.
NoEarlyFinalize ==
  (\E p \in Procs : phase[p] \in FinPhase) =>
    \A t \in Tasks : phase[t] \in TaskPhase =>
       phase[t] \in {"waiting", "pacing"} /\ Stale(t[1])

\* The campaign's counters agree with its rows once it is closed, though they
\* are both incremented per push and recomputed at the end.
TotalsExact == status = "sent" /\ Settled => totals = RowTally

\* While the campaign is paused no worker picks up another of its sends.
PauseStops ==
  status = "paused" /\ NoCall =>
    \A t \in Tasks : phase[t] \in {"waiting", "pacing"} => Stale(t[1])

\* A blast does not stay "sending" for ever: it ends, it is paused, or the
\* sweep closes it.
BlastEnds == status = "sending" ~> status \in {"sent", "failed", "paused"}
=============================================================================
