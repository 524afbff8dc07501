----------------------------- MODULE Automations -----------------------------
(***************************************************************************)
(* The drip engine of one automation (automations.service.ts): jobs are     *)
(* queued when a lead subscribes (public.service.ts subscribe), a poller    *)
(* sends what is due, one job after the other, and an unsubscribe cancels   *)
(* what is still queued.  The jobs are rows, so they outlive a restart of   *)
(* the process; everything else is lost.                                    *)
(*                                                                          *)
(* Job <<r, i>> is the one that subscribe request r queued for step i.      *)
(***************************************************************************)
EXTENDS Integers, FiniteSets

CONSTANTS
  Leads,         \* the browsers that may subscribe
  Requests,      \* bound: subscribe requests
  NumSteps,      \* the automation's steps
  BatchSize,     \* BATCH: jobs read by one tick
  NoLead,        \* not a lead
  MaxLeaves,     \* bound: unsubscribes
  MaxToggles,    \* bound: times an operator pauses or activates the automation
  MaxFaults,     \* bound: statements that throw
  MaxCrashes     \* bound: restarts

AutomationsAssumption ==
  /\ NumSteps \in Nat \ {0} /\ BatchSize \in Nat \ {0}
  /\ NoLead \notin Leads
  /\ MaxLeaves \in Nat /\ MaxToggles \in Nat
  /\ MaxFaults \in Nat /\ MaxCrashes \in Nat

Jobs == Requests \X (1..NumSteps)

VARIABLES
  lead,       \* Subscriber.status, "none" before the first subscribe
  active,     \* automation.status = "active"
  job,        \* AutomationJob.status, "none" before it is queued
  due,        \* the jobs whose dueAt has come
  send,       \* the status of each job's Send row
  of,         \* per subscribe request: its lead
  request,    \* per subscribe request: where it is
  known,      \* per subscribe request: `existing`, did it find the lead?
  cancels,    \* the leads whose cancelForSubscriber() is about to run
  pc,         \* the poller: "idle", "next", or where the job in hand is
  batch,      \* the jobs of this tick still to come
  current,    \* the job in hand
  snapshot,   \* the leads that were active when the tick read its jobs, if the
              \* automation was
  used,       \* how much of each bound is spent
  \* history
  pushed,     \* per job: pushes delivered
  leftInTick  \* leads that have left since the poller read its jobs

tickVars == <<pc, batch, current, snapshot>>
subVars  == <<of, request, known>>
vars == <<lead, active, job, due, send, subVars, cancels, tickVars, used,
          pushed, leftInTick>>

Spend(k) == used' = [used EXCEPT ![k] = @ + 1]

Init ==
  /\ lead = [l \in Leads |-> "none"]
  /\ active = TRUE
  /\ job = [j \in Jobs |-> "none"]
  /\ due = {}
  /\ send = [j \in Jobs |-> "none"]
  /\ of = [r \in Requests |-> NoLead]
  /\ request = [r \in Requests |-> "none"]
  /\ known = [r \in Requests |-> FALSE]
  /\ cancels = {}
  /\ pc = "idle" /\ batch = {} /\ current = {} /\ snapshot = {}
  /\ used = [leaves |-> 0, toggles |-> 0, faults |-> 0, crashes |-> 0]
  /\ pushed = [j \in Jobs |-> 0]
  /\ leftInTick = {}

-----------------------------------------------------------------------------
(* Subscribe and unsubscribe.                                               *)

\* The lookup before the upsert.  Two requests of one browser between lookup
\* and upsert at the same time are left out: both would find nobody.
SubscribeLookup(r, l) ==
  /\ request[r] = "none"
  /\ \A q \in Requests : request[q] = "upsert" => of[q] # l
  /\ of' = [of EXCEPT ![r] = l]
  /\ known' = [known EXCEPT ![r] = lead[l] # "none"]
  /\ request' = [request EXCEPT ![r] = "upsert"]
  /\ UNCHANGED <<lead, active, job, due, send, cancels, tickVars, used, pushed,
                 leftInTick>>

\* Mutant: a lead that comes back gets its drips again.
UpsertAlwaysNew(r) ==
  /\ request[r] = "upsert"
  /\ lead' = [lead EXCEPT ![of[r]] = "active"]
  /\ request' = [request EXCEPT ![r] = "enqueue"]
  /\ UNCHANGED <<active, job, due, send, of, known, cancels, tickVars, used,
                 pushed, leftInTick>>

\* The lead is created or made active again; drips start for a new one only.
SubscribeUpsert(r) ==
  /\ request[r] = "upsert"
  /\ lead' = [lead EXCEPT ![of[r]] = "active"]
  /\ request' = [request EXCEPT ![r] = IF known[r] THEN "ended" ELSE "enqueue"]
  /\ UNCHANGED <<active, job, due, send, of, known, cancels, tickVars, used,
                 pushed, leftInTick>>

\* enqueueForSubscriber(), not awaited by the request: one job per step of an
\* active automation.
Enqueue(r) ==
  /\ request[r] = "enqueue"
  /\ request' = [request EXCEPT ![r] = "ended"]
  /\ job' = [j \in Jobs |-> IF active /\ j[1] = r THEN "queued" ELSE job[j]]
  /\ UNCHANGED <<lead, active, due, send, of, known, cancels, tickVars, used,
                 pushed, leftInTick>>

Unsubscribe(l) ==
  /\ lead[l] # "none"
  /\ used.leaves < MaxLeaves /\ Spend("leaves")
  /\ lead' = [lead EXCEPT ![l] = "unsubscribed"]
  /\ cancels' = cancels \cup {l}
  /\ leftInTick' = leftInTick \cup {l}
  /\ UNCHANGED <<active, job, due, send, subVars, tickVars, pushed>>

\* cancelForSubscriber(), not awaited by the unsubscribe.
Cancel(l) ==
  /\ l \in cancels
  /\ cancels' = cancels \ {l}
  /\ job' = [j \in Jobs |-> IF of[j[1]] = l /\ job[j] = "queued"
                            THEN "cancelled" ELSE job[j]]
  /\ UNCHANGED <<lead, active, due, send, subVars, tickVars, used, pushed,
                 leftInTick>>

Toggle ==
  /\ used.toggles < MaxToggles /\ Spend("toggles")
  /\ active' = ~active
  /\ UNCHANGED <<lead, job, due, send, subVars, cancels, tickVars, pushed,
                 leftInTick>>

FallDue(j) ==
  /\ job[j] = "queued"
  /\ j \notin due
  /\ due' = due \cup {j}
  /\ UNCHANGED <<lead, active, job, send, subVars, cancels, tickVars, used,
                 pushed, leftInTick>>

-----------------------------------------------------------------------------
(* tick() and processJob().                                                 *)

Ready == {j \in due : job[j] = "queued"}

\* Mutant: the whole queue is read.
TakenAll(B) == B = Ready

\* take: BATCH.  The jobs longest due; any of them here.
Taken(B) ==
  /\ B \subseteq Ready
  /\ Cardinality(B) = IF Cardinality(Ready) < BatchSize THEN Cardinality(Ready)
                                                        ELSE BatchSize

\* The due jobs are read, each with its automation and its lead; a tick that
\* comes while another runs does nothing.
TickRead ==
  /\ pc = "idle"
  /\ Ready # {}
  /\ \E B \in SUBSET Ready : Taken(B) /\ batch' = B
  /\ snapshot' = IF active THEN {l \in Leads : lead[l] = "active"} ELSE {}
  /\ leftInTick' = {}
  /\ pc' = "next"
  /\ UNCHANGED <<lead, active, job, due, send, subVars, cancels, current, used,
                 pushed>>

NextJob ==
  /\ pc = "next"
  /\ IF batch = {}
     THEN pc' = "idle" /\ current' = {} /\ UNCHANGED batch
     ELSE \E j \in batch : /\ current' = {j}
                           /\ batch' = batch \ {j}
                           /\ pc' = "claim"
  /\ UNCHANGED <<lead, active, job, due, send, subVars, cancels, snapshot, used,
                 pushed, leftInTick>>

\* Mutant: the job is not marked before the work is done.
ClaimNothing(j) ==
  /\ pc = "claim" /\ current = {j}
  /\ pc' = IF job[j] = "queued" THEN "check" ELSE "next"
  /\ UNCHANGED <<lead, active, job, due, send, subVars, cancels, batch, current,
                 snapshot, used, pushed, leftInTick>>

\* The atomic queued -> sending; a job cancelled meanwhile is skipped.
Claim(j) ==
  /\ pc = "claim" /\ current = {j}
  /\ IF job[j] = "queued"
     THEN job' = [job EXCEPT ![j] = "sending"] /\ pc' = "check"
     ELSE UNCHANGED job /\ pc' = "next"
  /\ UNCHANGED <<lead, active, due, send, subVars, cancels, batch, current,
                 snapshot, used, pushed, leftInTick>>

\* Mutant: the lead's status is not looked at.
MaySendAnyone(j) == TRUE

\* What the tick read says that the automation and the lead are active.
MaySend(j) == of[j[1]] \in snapshot

\* Not to be sent: the job is cancelled.  Otherwise its Send row is created.
CreateSend(j) ==
  /\ pc = "check" /\ current = {j}
  /\ IF MaySend(j)
     THEN /\ send' = [send EXCEPT ![j] = "queued"]
          /\ pc' = "push"
          /\ UNCHANGED job
     ELSE /\ job' = [job EXCEPT ![j] = "cancelled"]
          /\ pc' = "next"
          /\ UNCHANGED send
  /\ UNCHANGED <<lead, active, due, subVars, cancels, batch, current, snapshot,
                 used, pushed, leftInTick>>

PushDelivered(j) ==
  /\ pc = "push" /\ current = {j}
  /\ pushed' = [pushed EXCEPT ![j] = @ + 1]
  /\ pc' = "sentSend"
  /\ UNCHANGED <<lead, active, job, due, send, subVars, cancels, batch, current,
                 snapshot, used, leftInTick>>

\* Mutant: an error of the push is swallowed.
PushSwallowed(j) ==
  /\ pc = "push" /\ current = {j}
  /\ pc' = "sentSend"
  /\ UNCHANGED <<lead, active, job, due, send, subVars, cancels, batch, current,
                 snapshot, used, pushed, leftInTick>>

\* The push throws: the subscription is gone, or any other error.
PushFails(j) ==
  /\ pc = "push" /\ current = {j}
  /\ pc' \in {"goneSend", "failSend"}
  /\ UNCHANGED <<lead, active, job, due, send, subVars, cancels, batch, current,
                 snapshot, used, pushed, leftInTick>>

\* The Send row is closed.
RecordSend(j) ==
  /\ pc \in {"sentSend", "goneSend", "failSend"} /\ current = {j}
  /\ send' = [send EXCEPT ![j] = CASE pc = "sentSend" -> "sent"
                                   [] pc = "goneSend" -> "expired"
                                   [] pc = "failSend" -> "failed"]
  /\ pc' = CASE pc = "sentSend" -> "sentJob"
             [] pc = "goneSend" -> "goneLead"
             [] pc = "failSend" -> "failJob"
  /\ UNCHANGED <<lead, active, job, due, subVars, cancels, batch, current,
                 snapshot, used, pushed, leftInTick>>

RecordGone(j) ==
  /\ pc = "goneLead" /\ current = {j}
  /\ lead' = [lead EXCEPT ![of[j[1]]] = "expired"]
  /\ pc' = "failJob"
  /\ UNCHANGED <<active, job, due, send, subVars, cancels, batch, current,
                 snapshot, used, pushed, leftInTick>>

RecordJob(j) ==
  /\ pc \in {"sentJob", "failJob"} /\ current = {j}
  /\ job' = [job EXCEPT ![j] = IF pc = "sentJob" THEN "sent" ELSE "failed"]
  /\ pc' = "next"
  /\ UNCHANGED <<lead, active, due, send, subVars, cancels, batch, current,
                 snapshot, used, pushed, leftInTick>>

\* The batch goes on after the job has been marked as failed, if it can be.
Rescue(j) ==
  /\ pc = "rescue" /\ current = {j}
  /\ job' = [job EXCEPT ![j] = "failed"]
  /\ pc' = "next"
  /\ UNCHANGED <<lead, active, due, send, subVars, cancels, batch, current,
                 snapshot, used, pushed, leftInTick>>

\* Mutant: the tick ends with the error and `running` stays set.
JobFaultStops(j) ==
  /\ pc \notin {"idle", "next", "push"} /\ current = {j}
  /\ used.faults < MaxFaults /\ Spend("faults")
  /\ pc' = "stuck"
  /\ UNCHANGED <<lead, active, job, due, send, subVars, cancels, batch, current,
                 snapshot, pushed, leftInTick>>

\* A statement throws.  Behind the push the error is taken for one of the push;
\* elsewhere it reaches the loop, which marks the job; if that throws, it is let
\* be.
JobFault(j) ==
  /\ pc \notin {"idle", "next", "push"} /\ current = {j}
  /\ used.faults < MaxFaults /\ Spend("faults")
  /\ pc' = CASE pc \in {"sentSend", "sentJob"} -> "failSend"
             [] pc = "rescue" -> "next"
             [] OTHER -> "rescue"
  /\ UNCHANGED <<lead, active, job, due, send, subVars, cancels, batch, current,
                 snapshot, pushed, leftInTick>>

\* The process restarts.
Crash ==
  /\ used.crashes < MaxCrashes /\ Spend("crashes")
  /\ pc' = "idle" /\ batch' = {} /\ current' = {} /\ snapshot' = {}
  /\ request' = [r \in Requests |-> IF request[r] = "none" THEN "none"
                                                           ELSE "ended"]
  /\ cancels' = {}
  /\ UNCHANGED <<lead, active, job, due, send, of, known, pushed, leftInTick>>

-----------------------------------------------------------------------------
JobStep(j) ==
  \/ Claim(j) \/ CreateSend(j) \/ PushDelivered(j) \/ PushFails(j)
  \/ RecordSend(j) \/ RecordGone(j) \/ RecordJob(j) \/ Rescue(j)

TickStep == TickRead \/ NextJob \/ \E j \in Jobs : JobStep(j)

Next ==
  \/ \E r \in Requests, l \in Leads : SubscribeLookup(r, l)
  \/ \E r \in Requests : SubscribeUpsert(r) \/ Enqueue(r)
  \/ \E l \in Leads : Unsubscribe(l) \/ Cancel(l)
  \/ Toggle
  \/ \E j \in Jobs : FallDue(j) \/ JobFault(j)
  \/ TickStep
  \/ Crash

Spec == Init /\ [][Next]_vars

\* The interval timer and the statements the poller awaits.
FairSpec == Spec /\ WF_vars(TickStep)

-----------------------------------------------------------------------------
(* Properties                                                               *)

TypeOK ==
  /\ lead \in [Leads -> {"none", "active", "unsubscribed", "expired"}]
  /\ active \in BOOLEAN
  /\ job \in [Jobs -> {"none", "queued", "sending", "sent", "failed",
                       "cancelled"}]
  /\ due \subseteq Jobs
  /\ send \in [Jobs -> {"none", "queued", "sent", "expired", "failed"}]
  /\ of \in [Requests -> Leads \cup {NoLead}]
  /\ request \in [Requests -> {"none", "upsert", "enqueue", "ended"}]
  /\ known \in [Requests -> BOOLEAN]
  /\ cancels \subseteq Leads /\ snapshot \subseteq Leads
  /\ leftInTick \subseteq Leads
  /\ pc \in {"idle", "next", "claim", "check", "push", "sentSend", "goneSend",
             "failSend", "goneLead", "sentJob", "failJob", "rescue"}
  /\ batch \subseteq Jobs /\ Cardinality(batch) <= BatchSize
  /\ current \subseteq Jobs /\ Cardinality(current) <= 1
  /\ pushed \in [Jobs -> Nat]

\* A job is pushed at most once, whatever throws and whenever the process
\* restarts ("a concurrent tick / post-crash re-run can't grab and re-send it").
OncePerJob == \A j \in Jobs : pushed[j] <= 1

\* A lead gets each step of the automation at most once, however often it leaves
\* and comes back.
OncePerStep ==
  \A i, j \in Jobs :
    i # j /\ i[2] = j[2] /\ of[i[1]] = of[j[1]] => pushed[i] + pushed[j] <= 1

\* A job says "sent" only of a push that was delivered and whose row says so.
JobHonest ==
  \A j \in Jobs : job[j] = "sent" => pushed[j] = 1 /\ send[j] = "sent"

\* The three together: drips go out once, and say so truly.
DripsSound == OncePerJob /\ OncePerStep /\ JobHonest

\* A lead that has left is pushed no more, except by the tick that had read its
\* jobs before; also when its cancellation was lost or overtaken.
PushesWhoStayed ==
  \A j \in Jobs : pushed'[j] # pushed[j] =>
    lead[of[j[1]]] # "unsubscribed" \/ of[j[1]] \in leftInTick

\* A due job is taken up sooner or later, whatever happens to the jobs before it
\* ("one poison job must not abort the whole batch and starve every later
\* drip") and after a restart.
JobsTakenUp ==
  \A j \in Jobs : job[j] = "queued" /\ j \in due ~> job[j] # "queued"

\* A due job comes to an end ("automation_jobs rows are the schedule, so
\* restarts lose nothing").
JobsEnd ==
  \A j \in Jobs : job[j] = "queued" /\ j \in due
                    ~> job[j] \in {"sent", "failed", "cancelled"}
=============================================================================
