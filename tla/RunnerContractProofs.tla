------------------------ MODULE RunnerContractProofs ------------------------
(***************************************************************************)
(* A blast keeps its contract when operators let each request settle: one  *)
(* push per lead, the whole audience, and every step a step of             *)
(* BlastContract or none, for every audience, batch, pool and number of    *)
(* retries.                                                                *)
(*                                                                         *)
(* PushedAtMostOnce: a push that was delivered is about to be recorded or  *)
(* is recorded (Single), and a task that may still push has an open row,   *)
(* so the tasks that have delivered to a lead are one (Unique). It needs   *)
(* NoLoss: a stop or a failing statement between the push and its record   *)
(* makes the next run repeat the push.                                     *)
(*                                                                         *)
(* SentIsComplete: finalize() starts when the count reaches zero, so the   *)
(* count must cover the queued rows as well as the tasks at work           *)
(* (Remains), while a loop is still adding tasks (Taken, Consumes) and     *)
(* while leads have no row yet (Targeted). It needs Faultless: a stop      *)
(* during targeting loses the leads that have no row, and a sweep closes   *)
(* what a failing loop left. Both assumptions hold of the run              *)
(* runner_patient.                                                         *)
(***************************************************************************)
EXTENDS CampaignRunnerProofs, RunnerRefinement

\* The missing entry of a map is always expanded.
USE DEF Unset

NoLoss == MaxCrashes = 0 /\ MaxFaults = 0

\* A push that was delivered is about to be recorded, or is recorded.
Single ==
  \A t \in Tasks : pushed[t] > 0 =>
    \/ phase[t] = "row" /\ outcome[t] = "sent"
    \/ row[t[2]] = "sent"

\* So no other run has delivered to the lead.
Unique ==
  \A t, u \in Tasks : t[2] = u[2] /\ pushed[t] > 0 /\ pushed[u] > 0 => t = u

CloseInv == CalmInv /\ Rows /\ Untouched /\ Single /\ Unique

\* The lead of a task that may still push has been pushed by no other.
LEMMA OpenLead ==
  ASSUME CalmInv, Rows, Single, NEW t \in Tasks, NEW u \in Tasks,
         Owes(t), phase[t] \in Open, u[2] = t[2], pushed[u] > 0
  PROVE  u = t /\ phase[t] = "row" /\ outcome[t] = "sent"
<1>1. row[u[2]] = "queued"
  BY DEF Rows, RowsOwed
<1>2. phase[u] = "row" /\ outcome[u] = "sent"
  BY <1>1 DEF Single
<1>3. Owes(u)
  BY <1>2 DEF Owes, ActPhase
<1>4. u[1] = t[1]
  BY <1>3, TaskWorks
<1> QED
  BY <1>2, <1>4, ProcNames

\* A push that was delivered is recorded as soon as its task goes on.
LEMMA RowLeaves ==
  ASSUME NoLoss, CalmInv, [Next]_vars, NEW t \in Tasks, phase[t] = "row"
  PROVE  \/ phase'[t] = "row" /\ outcome'[t] = outcome[t]
         \/ RecordRow(t)
<1> USE DEF dbVars, memVars, runVars, taskVars, callVars, envVars
<1>0. /\ t \in Procs /\ TypeOK /\ OnceInv
      /\ \A e \in Epochs : t # <<e, 0>>
      /\ t[1] \in Epochs /\ t[2] \in Subs /\ t = <<t[1], t[2]>>
  BY ProcNames DEF CalmInv
<1>1. ASSUME NEW p \in Procs, p # t, NEW l, GoTo(p, l), UNCHANGED outcome
      PROVE  phase'[t] = "row" /\ outcome'[t] = outcome[t]
  BY <1>0, <1>1 DEF GoTo, TypeOK
<1>2. CASE \E u \in Tasks : TaskStep(u)
  <2>1. PICK u \in Tasks : TaskStep(u)
    BY <1>2
  <2>2. CASE u = t
    BY <2>1, <2>2 DEF TaskStep, TaskStart, TaskPaced, PushDelivered, PushGone,
       PushFails, PushEnds, PushThrottled, PushRetry, RecordLead, RecordTotal, TaskDone
  <2>3. CASE u # t
    <3>1. phase'[t] = "row"
      <4>1. \E l : GoTo(u, l)
        BY <2>1 DEF TaskStep, TaskStart, TaskPaced, PushDelivered, PushGone, PushFails,
           PushEnds, PushThrottled, PushRetry, RecordRow, RecordLead, RecordTotal,
           TaskDone, SetRemaining
      <4> QED
        BY <1>0, <2>3, <4>1 DEF GoTo, TypeOK
    <3>2. outcome'[t] = outcome[t]
      BY <1>0, <2>1, <2>3 DEF TaskStep, TaskStart, TaskPaced, PushDelivered, PushGone,
         PushFails, PushEnds, PushThrottled, PushRetry, RecordRow, RecordLead,
         RecordTotal, TaskDone, TypeOK
    <3> QED
      BY <3>1, <3>2
  <2> QED
    BY <2>2, <2>3
<1>3. CASE \E e \in Epochs : RunStep(e)
  <2>1. PICK e \in Epochs : RunStep(e)
    BY <1>3
  <2>0. <<e, 0>> \in Procs /\ <<e, 0>> # t
    BY <1>0, ProcNames
  <2>2. CASE TargetInsert(e) \/ ScanEnqueue(e)
    <3>1. t[1] = e => \A x \in picked[e] : x[1] # t[2]
      BY <1>0, <2>2 DEF TargetInsert, ScanEnqueue, OnceInv, CursorPassed
    <3>2. t[1] = e => t[2] \notin {x[1] : x \in picked[e]} /\ <<t[2], TRUE>> \notin picked[e]
      BY <3>1
    <3> QED
      BY <1>0, <2>0, <2>2, <3>2 DEF TargetInsert, ScanEnqueue
  <2>3. CASE AudienceResolved(e) \/ TargetRead(e) \/ DispatchEnd(e) \/ ScanRead(e) \/ ScanEnd(e)
    <3>1. (\E l : GoTo(<<e, 0>>, l)) /\ UNCHANGED outcome
      BY <2>3 DEF AudienceResolved, TargetRead, DispatchEnd, ScanRead, ScanEnd, SetRemaining
    <3> QED
      BY <1>1, <2>0, <3>1
  <2> QED
    BY <2>1, <2>2, <2>3 DEF RunStep
<1>4. CASE \/ \E p \in Procs : FinalizeStep(p) \/ FinalizeFault(p)
           \/ \E e \in Epochs : RunFault(e)
  <2>1. CASE \E p \in Procs : FinalizeStep(p) \/ FinalizeFault(p)
    <3>1. PICK p \in Procs : FinalizeStep(p) \/ FinalizeFault(p)
      BY <2>1
    <3>2. phase[p] \in FinPhase /\ (\E l : GoTo(p, l)) /\ UNCHANGED outcome
      BY <3>1 DEF FinalizeStep, FinalizeFault, FinalizeRead, FinalizeTally,
         FinalizeWrite, FinPhase
    <3>3. p # t
      BY <3>2 DEF FinPhase
    <3> QED
      BY <1>1, <3>2, <3>3
  <2>2. CASE \E e \in Epochs : RunFault(e)
    <3>1. PICK e \in Epochs : RunFault(e)
      BY <2>2
    <3>2. GoTo(<<e, 0>>, "ended") /\ UNCHANGED outcome
      BY <3>1 DEF RunFault
    <3> QED
      BY <1>0, <1>1, <3>2, ProcNames
  <2> QED
    BY <1>4, <2>1, <2>2
<1>5. CASE DispatchBegin \/ ResumeBegin
  <2>1. \A q \in Procs : q # <<epoch', 0>> => phase'[q] = phase[q]
    BY <1>5, BeginDispatch, BeginResume DEF CalmInv
  <2>2. epoch' \in Epochs /\ outcome' = outcome
    BY <1>5, BeginDispatch, BeginResume DEF CalmInv, DispatchBegin, ResumeBegin
  <2> QED
    BY <1>0, <2>1, <2>2
<1>6. CASE \/ DispatchClaim \/ PauseRead \/ ResumeClaim \/ PauseMark \/ PauseWrite
           \/ Maintenance \/ (\E s \in Subs : Unsubscribe(s)) \/ UNCHANGED vars
  BY <1>6 DEF DispatchClaim, PauseRead, ResumeClaim, PauseMark, PauseWrite,
     Maintenance, MaintenanceRead, MaintenanceWrite, Unsubscribe, vars
<1>7. CASE Restart \/ \E u \in Tasks : RecordFault(u)
  BY <1>0, <1>7 DEF Restart, RecordFault, NoLoss, TypeOK
<1> QED
  BY <1>2, <1>3, <1>4, <1>5, <1>6, <1>7 DEF Next, CallStep

\* A row that says "sent" keeps saying so.
LEMMA SentStays ==
  ASSUME CalmInv, Rows, Untouched, [Next]_vars, NEW s \in Subs, row[s] = "sent"
  PROVE  row'[s] = "sent"
<1>0. TypeOK /\ OnceInv
  BY DEF CalmInv
<1>1. CASE row' = row
  BY <1>1
<1>2. ASSUME NEW e \in Epochs, TargetInsert(e) PROVE row'[s] = "sent"
  <2>1. s \notin {x[1] : x \in picked[e]}
    BY <1>2 DEF TargetInsert, Untouched
  <2> QED
    BY <1>2, <2>1 DEF TargetInsert
<1>3. ASSUME NEW e \in Epochs, ScanEnqueue(e) PROVE row'[s] = "sent"
  <2>1. \A x \in picked[e] : row[x[1]] = "queued"
    BY <1>3 DEF ScanEnqueue, Rows, PageOpen
  <2>2. <<s, FALSE>> \notin picked[e]
    BY <2>1
  <2> QED
    BY <1>3, <2>2 DEF ScanEnqueue
<1>4. ASSUME NEW t \in Tasks, RecordRow(t) PROVE row'[s] = "sent"
  <2>1. row[t[2]] = "queued"
    BY <1>4 DEF RecordRow, Rows, RowsOwed, Owes, ActPhase, Open
  <2> QED
    BY <1>0, <1>4, <2>1 DEF RecordRow, TypeOK
<1> QED
  BY <1>1, <1>2, <1>3, <1>4, RowSteps

LEMMA SingleStep ==
  ASSUME NoLoss, CalmInv, Rows, Untouched, Single, Unique, [Next]_vars
  PROVE  Single' /\ Unique'
<1>0. TypeOK
  BY DEF CalmInv
<1>1. ASSUME NEW t \in Tasks, PushDelivered(t)
      PROVE  /\ phase'[t] = "row" /\ outcome'[t] = "sent"
             /\ \A u \in Tasks : u # t /\ u[2] = t[2] => ~(pushed[u] > 0)
  <2>1. t \in Procs /\ phase[t] = "pushing"
    BY <1>1, ProcNames DEF PushDelivered, PushEnds
  <2>2. phase'[t] = "row" /\ outcome'[t] = "sent"
    BY <1>0, <1>1, <2>1 DEF PushDelivered, PushEnds, GoTo, TypeOK
  <2>3. Owes(t) /\ phase[t] \in Open
    BY <2>1 DEF Owes, ActPhase, Open
  <2> QED
    BY <2>2, <2>3, OpenLead
<1>2. \A u \in Tasks : pushed'[u] # pushed[u] => PushDelivered(u)
  BY <1>0, PushSteps
<1>3. Single'
  <2> SUFFICES ASSUME NEW t \in Tasks, pushed'[t] > 0
               PROVE  \/ phase'[t] = "row" /\ outcome'[t] = "sent"
                      \/ row'[t[2]] = "sent"
    BY DEF Single
  <2>1. CASE pushed'[t] # pushed[t]
    BY <1>1, <1>2, <2>1
  <2>2. CASE pushed'[t] = pushed[t]
    <3>1. CASE row[t[2]] = "sent"
      BY <3>1, SentStays, ProcNames
    <3>2. CASE row[t[2]] # "sent"
      <4>1. phase[t] = "row" /\ outcome[t] = "sent"
        BY <2>2, <3>2 DEF Single
      <4>2. RecordRow(t) => row'[t[2]] = "sent"
        BY <1>0, <4>1, ProcNames DEF RecordRow, TypeOK
      <4> QED
        BY <4>1, <4>2, RowLeaves
    <3> QED
      BY <3>1, <3>2
  <2> QED
    BY <2>1, <2>2
<1>4. Unique'
  <2> SUFFICES ASSUME NEW t \in Tasks, NEW u \in Tasks, t[2] = u[2],
                      pushed'[t] > 0, pushed'[u] > 0, t # u
               PROVE  FALSE
    BY DEF Unique
  <2>1. CASE pushed'[t] = pushed[t] /\ pushed'[u] = pushed[u]
    BY <2>1 DEF Unique
  <2>2. CASE pushed'[t] # pushed[t]
    <3>1. ~(pushed[u] > 0) /\ PushDelivered(t)
      BY <1>1, <1>2, <2>2
    <3>2. pushed'[u] = pushed[u]
      BY <1>0, <3>1 DEF PushDelivered, TypeOK
    <3> QED
      BY <3>1, <3>2
  <2>3. CASE pushed'[u] # pushed[u]
    <3>1. ~(pushed[t] > 0) /\ PushDelivered(u)
      BY <1>1, <1>2, <2>3
    <3>2. pushed'[t] = pushed[t]
      BY <1>0, <3>1 DEF PushDelivered, TypeOK
    <3> QED
      BY <3>1, <3>2
  <2> QED
    BY <2>1, <2>2, <2>3
<1> QED
  BY <1>3, <1>4

LEMMA CloseInit == Init => CloseInv
<1>1. Init => Single /\ Unique
  BY DEF Init, Single, Unique
<1> QED
  BY <1>1, CalmInit, RowsInit, UntouchedInit DEF CloseInv

LEMMA CloseStep ==
  ASSUME Calm, NoLoss, CloseInv, [Next]_vars
  PROVE  CloseInv'
<1>1. CalmInv'
  BY CalmStep DEF CloseInv
<1>2. Rows'
  BY RowsStep DEF CloseInv
<1>3. Untouched'
  BY UntouchedStep DEF CloseInv
<1>4. Single' /\ Unique'
  BY SingleStep DEF CloseInv
<1> QED
  BY <1>1, <1>2, <1>3, <1>4 DEF CloseInv

LEMMA AtMostOnce ==
  ASSUME Unique PROVE NoDoublePush
<1> SUFFICES ASSUME NEW s \in Subs PROVE Cardinality(Delivered(s)) <= 1
  BY DEF NoDoublePush
<1>1. CASE Delivered(s) = {}
  BY <1>1, FS_EmptySet
<1>2. CASE Delivered(s) # {}
  <2>1. PICK e \in Delivered(s) : TRUE
    BY <1>2
  <2>2. \A d \in Delivered(s) : d = e
    <3> SUFFICES ASSUME NEW d \in Delivered(s) PROVE d = e
      OBVIOUS
    <3>1. /\ <<d, s>> \in Tasks /\ <<e, s>> \in Tasks
          /\ pushed[<<d, s>>] > 0 /\ pushed[<<e, s>>] > 0
      BY <2>1, ProcNames DEF Delivered
    <3>2. <<d, s>> = <<e, s>>
      BY <3>1 DEF Unique
    <3> QED
      BY <3>2
  <2>3. Delivered(s) = {e}
    BY <2>1, <2>2
  <2>4. Cardinality({e}) = 1
    BY FS_Singleton
  <2> QED
    BY <2>3, <2>4
<1> QED
  BY <1>1, <1>2

\* No lead is pushed twice by one campaign, whatever pauses, resumes, retries and
\* unsubscriptions are interleaved (campaign-runner.service.ts:713-760).
THEOREM PushedAtMostOnce ==
  ASSUME Calm, NoLoss PROVE Spec => []NoDoublePush
<1>1. CloseInv /\ [Next]_vars => CloseInv'
  BY CloseStep
<1>2. CloseInv => NoDoublePush
  BY AtMostOnce DEF CloseInv
<1> QED
  BY <1>1, <1>2, CloseInit, PTL DEF Spec

-----------------------------------------------------------------------------
\* The audience is complete when the campaign is "sent".

Faultless == Calm /\ NoThrow /\ MaxCrashes = 0

Closed(s)  == row[s] \in {"sent", "expired", "failed"}
Queued     == {s \in Subs : row[s] = "queued"}
Settles(e) == {s \in Subs : phase[<<e, s>>] = "ended" /\ Closed(s)}

\* The sweep never finds a campaign to close, so none is "failed".
NeverFails == status # "failed" /\ maint = "idle"

\* A lead that is subscribed and has no row is still to be targeted.
Targeted ==
  \A s \in Subs : row[s] = "none" /\ sub[s] = "active" =>
    \/ status = "draft" \/ dispatchClaims > 0
    \/ \E e \in Epochs :
         \/ phase[<<e, 0>>] \in {"audience", "target", "insert"} /\ cursor[e] < s
         \/ phase[<<e, 0>>] = "insert" /\ <<s, TRUE>> \in picked[e]

\* A task past its row has closed it.
Recorded == \A t \in Tasks : phase[t] \in {"lead", "total", "done"} => Closed(t[2])

\* A loop that is adding tasks has one for every queued row, or comes to it.
Taken ==
  \A e \in Epochs, s \in Subs :
    phase[<<e, 0>>] \in Adding /\ row[s] = "queued" =>
      \/ phase[<<e, s>>] # "none"
      \/ phase[<<e, 0>>] \in {"scan", "enqueue"} /\ cursor[e] < rowId[s]
      \/ phase[<<e, 0>>] = "enqueue" /\ \E b \in BOOLEAN : <<s, b>> \in picked[e]

\* What was consumed while it adds them are tasks that have closed their row.
Consumes ==
  \A e \in Epochs :
    phase[<<e, 0>>] \in Adding => consumed <= Cardinality(Settles(e))

\* The completion count covers every queued row and every task at work.
Remains == remaining \in 1..NumSubs => Cardinality(Queued \cup Owing) <= remaining

\* A campaign that is being finalized, or is "sent", has no queued row.
AllClosed == Finalizing \/ status = "sent" => Queued = {}

Debts == NeverFails /\ Targeted /\ Recorded /\ Taken /\ Consumes /\ Remains /\ AllClosed

SentInv == CalmInv /\ Rows /\ Untouched /\ Debts

\* A closed row stays as it is.
LEMMA ClosedStays ==
  ASSUME CalmInv, Rows, Untouched, [Next]_vars, NEW s \in Subs, Closed(s)
  PROVE  row'[s] = row[s] /\ Closed(s)'
<1>0. TypeOK /\ OnceInv
  BY DEF CalmInv
<1>1. CASE row' = row
  BY <1>1 DEF Closed
<1>2. ASSUME NEW e \in Epochs, TargetInsert(e) PROVE row'[s] = row[s]
  <2>1. s \notin {x[1] : x \in picked[e]}
    BY <1>2 DEF TargetInsert, Untouched, Closed
  <2> QED
    BY <1>2, <2>1 DEF TargetInsert
<1>3. ASSUME NEW e \in Epochs, ScanEnqueue(e) PROVE row'[s] = row[s]
  <2>1. \A x \in picked[e] : row[x[1]] = "queued"
    BY <1>3 DEF ScanEnqueue, Rows, PageOpen
  <2>2. <<s, FALSE>> \notin picked[e]
    BY <2>1 DEF Closed
  <2> QED
    BY <1>3, <2>2 DEF ScanEnqueue
<1>4. ASSUME NEW t \in Tasks, RecordRow(t) PROVE row'[s] = row[s]
  <2>1. row[t[2]] = "queued"
    BY <1>4 DEF RecordRow, Rows, RowsOwed, Owes, ActPhase, Open
  <2> QED
    BY <1>0, <1>4, <2>1 DEF RecordRow, TypeOK, Closed
<1>5. row'[s] = row[s]
  BY <1>1, <1>2, <1>3, <1>4, RowSteps
<1> QED
  BY <1>5 DEF Closed

\* A row opens when its lead is targeted, and only then.
LEMMA RowOpens ==
  ASSUME CalmInv, Rows, Untouched, [Next]_vars, NEW s \in Subs,
         row'[s] \in {"none", "queued"}, row'[s] # row[s]
  PROVE  /\ row[s] = "none" /\ row'[s] = "queued"
         /\ \E e \in Epochs : TargetInsert(e) /\ s \in {x[1] : x \in picked[e]}
<1>0. TypeOK /\ OnceInv
  BY DEF CalmInv
<1>1. row' # row
  OBVIOUS
<1>2. ASSUME NEW e \in Epochs, TargetInsert(e)
      PROVE  row[s] = "none" /\ row'[s] = "queued" /\ s \in {x[1] : x \in picked[e]}
  <2>1. s \in {x[1] : x \in picked[e]}
    BY <1>2 DEF TargetInsert
  <2>2. row'[s] = "queued"
    BY <1>2, <2>1 DEF TargetInsert
  <2>3. row[s] = "none"
    BY <1>2, <2>1 DEF TargetInsert, Untouched
  <2> QED
    BY <2>1, <2>2, <2>3
<1>3. \A e \in Epochs : ~ScanEnqueue(e)
  BY DEF ScanEnqueue
<1>4. ASSUME NEW t \in Tasks, RecordRow(t) PROVE FALSE
  <2>1. outcome[t] \in {"sent", "expired", "failed"}
    BY <1>0, <1>4 DEF RecordRow, Rows, OutcomeKnown, TypeOK, Outcome
  <2> QED
    BY <1>0, <1>4, <2>1, ProcNames DEF RecordRow, TypeOK
<1> QED
  BY <1>1, <1>2, <1>3, <1>4, RowSteps

\* Where processes never go back to.
LEMMA PhaseStays ==
  ASSUME CalmInv, [Next]_vars, NEW p \in Procs, phase[p] # "none"
  PROVE  /\ phase'[p] # "none"
         /\ phase[p] = "ended" => phase'[p] = "ended"
<1> USE DEF dbVars, memVars, runVars, taskVars, callVars, envVars
<1>0. TypeOK /\ OnceInv
  BY DEF CalmInv
<1>1. ASSUME NEW q \in Procs, phase[q] # "ended", NEW l \in Phase \ {"none"}, GoTo(q, l)
      PROVE  /\ phase'[p] # "none"
             /\ phase[p] = "ended" => phase'[p] = "ended"
  BY <1>0, <1>1 DEF GoTo, TypeOK
<1>2. CASE \E t \in Tasks : TaskStep(t) \/ RecordFault(t)
  <2>1. PICK t \in Tasks : TaskStep(t) \/ RecordFault(t)
    BY <1>2
  <2>2. phase[t] # "ended" /\ t \in Procs
    BY <2>1, ProcNames DEF TaskStep, TaskStart, TaskPaced, PushDelivered, PushGone, PushFails,
         PushEnds, PushThrottled, PushRetry, RecordRow, RecordLead, RecordTotal, TaskDone,
         RecordFault
  <2>3. \E l \in Phase \ {"none"} : GoTo(t, l)
    BY <2>1 DEF TaskStep, TaskStart, TaskPaced, PushDelivered, PushGone, PushFails,
         PushEnds, PushThrottled, PushRetry, RecordRow, RecordLead, RecordTotal, TaskDone,
         SetRemaining, RecordFault, Phase, TaskPhase, FinPhase
  <2> QED
    BY <1>1, <2>2, <2>3
<1>3. CASE \E e \in Epochs : RunStep(e) \/ RunFault(e)
  <2>1. PICK e \in Epochs : RunStep(e) \/ RunFault(e)
    BY <1>3
  <2>2. phase[<<e, 0>>] # "ended" /\ <<e, 0>> \in Procs
    BY <2>1, ProcNames DEF RunStep, AudienceResolved, TargetRead, TargetInsert, DispatchEnd,
         ScanRead, ScanEnqueue, ScanEnd, RunFault, RunPhase
  <2>3. CASE TargetInsert(e) \/ ScanEnqueue(e)
    <3>0. p = <<p[1], p[2]>>
      BY DEF Procs
    <3>a. \A x \in picked[e] : phase[<<e, x[1]>>] = "none"
      BY <1>0, <2>3 DEF TargetInsert, ScanEnqueue, OnceInv, CursorPassed
    <3>1. p[1] = e => \A x \in picked[e] : x[1] # p[2]
      BY <3>0, <3>a
    <3>2. p[1] = e => p[2] \notin {x[1] : x \in picked[e]} /\ <<p[2], TRUE>> \notin picked[e]
      BY <3>1
    <3> QED
      BY <1>0, <2>2, <2>3, <3>2 DEF TargetInsert, ScanEnqueue
  <2>4. CASE ~(TargetInsert(e) \/ ScanEnqueue(e))
    <3>1. \E l \in Phase \ {"none"} : GoTo(<<e, 0>>, l)
      BY <2>1, <2>4 DEF RunStep, AudienceResolved, TargetRead, DispatchEnd, ScanRead, ScanEnd,
         SetRemaining, RunFault, Phase, RunPhase, FinPhase
    <3> QED
      BY <1>1, <2>2, <3>1
  <2> QED
    BY <2>3, <2>4
<1>4. CASE \E q \in Procs : FinalizeStep(q) \/ FinalizeFault(q)
  <2>1. PICK q \in Procs : FinalizeStep(q) \/ FinalizeFault(q)
    BY <1>4
  <2>2. phase[q] # "ended" /\ \E l \in Phase \ {"none"} : GoTo(q, l)
    BY <2>1 DEF FinalizeStep, FinalizeFault, FinalizeRead, FinalizeTally, FinalizeWrite,
       FinPhase, Phase
  <2> QED
    BY <1>1, <2>2
<1>5. CASE DispatchBegin \/ ResumeBegin
  <2>1. \A q \in Procs : q # <<epoch', 0>> => phase'[q] = phase[q]
    BY <1>5, BeginDispatch, BeginResume DEF CalmInv
  <2>2. epoch' \in Epochs /\ epoch' = epoch + 1 /\ phase'[<<epoch', 0>>] # "none"
    BY <1>5, BeginDispatch, BeginResume DEF CalmInv, DispatchBegin, ResumeBegin
  <2>3. phase[<<epoch', 0>>] = "none"
    BY <1>0, <2>2, RunnerAssumption DEF OnceInv, FreshRuns, TypeOK
  <2> QED
    BY <2>1, <2>3
<1>6. CASE Restart
  BY <1>6 DEF Restart
<1>7. CASE \/ DispatchClaim \/ PauseRead \/ ResumeClaim \/ PauseMark \/ PauseWrite
           \/ Maintenance \/ (\E s \in Subs : Unsubscribe(s)) \/ UNCHANGED vars
  BY <1>7 DEF DispatchClaim, PauseRead, ResumeClaim,
     PauseMark, PauseWrite, Maintenance, MaintenanceRead,
     MaintenanceWrite, Unsubscribe, vars
<1> QED
  BY <1>2, <1>3, <1>4, <1>5, <1>6, <1>7 DEF Next, CallStep

\* A task stands still, takes a step, is created, or is over.
LEMMA TaskSteps ==
  ASSUME CalmInv, [Next]_vars, NEW t \in Tasks
  PROVE  \/ phase'[t] = phase[t]
         \/ TaskStep(t) \/ RecordFault(t)
         \/ /\ phase[t] = "none" /\ phase'[t] = "waiting"
            /\ TargetInsert(t[1]) \/ ScanEnqueue(t[1])
         \/ phase'[t] \in {"ended", "finTally", "finWrite"}
<1> USE DEF dbVars, memVars, runVars, taskVars, callVars, envVars
<1>0. /\ TypeOK /\ OnceInv /\ t \in Procs /\ t = <<t[1], t[2]>>
      /\ \A e \in Epochs : t # <<e, 0>>
  BY ProcNames DEF CalmInv
<1>1. ASSUME NEW p \in Procs, NEW l, GoTo(p, l)
      PROVE  phase'[t] = phase[t] \/ (p = t /\ phase'[t] = l)
  BY <1>0, <1>1 DEF GoTo, TypeOK
<1>2. CASE \E u \in Tasks : TaskStep(u) \/ RecordFault(u)
  <2>1. PICK u \in Tasks : TaskStep(u) \/ RecordFault(u)
    BY <1>2
  <2>2. \E l : GoTo(u, l)
    BY <2>1 DEF TaskStep, TaskStart, TaskPaced, PushDelivered, PushGone, PushFails,
         PushEnds, PushThrottled, PushRetry, RecordRow, RecordLead, RecordTotal, TaskDone,
         SetRemaining, RecordFault
  <2> QED
    BY <1>1, <2>1, <2>2, ProcNames
<1>3. CASE \E e \in Epochs : RunStep(e) \/ RunFault(e)
  <2>1. PICK e \in Epochs : RunStep(e) \/ RunFault(e)
    BY <1>3
  <2>0. <<e, 0>> \in Procs /\ <<e, 0>> # t
    BY <1>0, ProcNames
  <2>2. CASE TargetInsert(e) \/ ScanEnqueue(e)
    <3>0. \A x \in picked[e] : phase[<<e, x[1]>>] = "none"
      BY <1>0, <2>2 DEF TargetInsert, ScanEnqueue, OnceInv, CursorPassed
    <3>1. t[1] = e => \A x \in picked[e] : x[1] = t[2] => phase[t] = "none"
      BY <1>0, <3>0
    <3>2. \/ t[2] \in {x[1] : x \in picked[e]} \/ <<t[2], TRUE>> \in picked[e]
          => \E x \in picked[e] : x[1] = t[2]
      OBVIOUS
    <3>3. phase'[t] = phase[t]
          \/ (phase'[t] = "waiting" /\ t[1] = e
              /\ (\/ t[2] \in {x[1] : x \in picked[e]} \/ <<t[2], TRUE>> \in picked[e]))
      BY <1>0, <2>0, <2>2 DEF TargetInsert, ScanEnqueue
    <3> QED
      BY <2>2, <3>1, <3>2, <3>3
  <2>3. CASE ~(TargetInsert(e) \/ ScanEnqueue(e))
    <3>1. \E l : GoTo(<<e, 0>>, l)
      BY <2>1, <2>3 DEF RunStep, AudienceResolved, TargetRead, DispatchEnd, ScanRead, ScanEnd,
         SetRemaining, RunFault
    <3> QED
      BY <1>1, <2>0, <3>1
  <2> QED
    BY <2>2, <2>3
<1>4. CASE \E q \in Procs : FinalizeStep(q) \/ FinalizeFault(q)
  <2>1. PICK q \in Procs : FinalizeStep(q) \/ FinalizeFault(q)
    BY <1>4
  <2>2. \E l \in {"ended", "finTally", "finWrite"} : GoTo(q, l)
    BY <2>1 DEF FinalizeStep, FinalizeFault, FinalizeRead, FinalizeTally, FinalizeWrite
  <2> QED
    BY <1>1, <2>2
<1>5. CASE DispatchBegin \/ ResumeBegin
  <2>1. \A q \in Procs : q # <<epoch', 0>> => phase'[q] = phase[q]
    BY <1>5, BeginDispatch, BeginResume DEF CalmInv
  <2>2. epoch' \in Epochs
    BY <1>5, BeginDispatch, BeginResume DEF CalmInv
  <2> QED
    BY <1>0, <2>1, <2>2
<1>6. CASE Restart
  BY <1>0, <1>6 DEF Restart
<1>7. CASE \/ DispatchClaim \/ PauseRead \/ ResumeClaim \/ PauseMark \/ PauseWrite
           \/ Maintenance \/ (\E s \in Subs : Unsubscribe(s)) \/ UNCHANGED vars
  BY <1>7 DEF DispatchClaim, PauseRead, ResumeClaim,
     PauseMark, PauseWrite, Maintenance, MaintenanceRead,
     MaintenanceWrite, Unsubscribe, vars
<1> QED
  BY <1>2, <1>3, <1>4, <1>5, <1>6, <1>7 DEF Next, CallStep

\* The steps that write the campaign's status, claim it, or close it by the sweep.
LEMMA StatusSteps ==
  ASSUME TypeOK, [Next]_vars
  PROVE  \/ UNCHANGED <<status, dispatchClaims, maint>>
         \/ DispatchClaim \/ DispatchBegin \/ PauseWrite \/ ResumeClaim
         \/ (\E p \in Procs : FinalizeWrite(p))
         \/ MaintenanceRead \/ MaintenanceWrite \/ Restart
<1> USE DEF dbVars, memVars, runVars, taskVars, callVars, envVars
<1>1. CASE \E u \in Tasks : TaskStep(u) \/ RecordFault(u)
  BY <1>1 DEF TaskStep, TaskStart, TaskPaced, PushDelivered, PushGone, PushFails,
         PushEnds, PushThrottled, PushRetry, RecordRow, RecordLead, RecordTotal,
         TaskDone, RecordFault
<1>2. ASSUME NEW e \in Epochs, RunStep(e) \/ RunFault(e)
      PROVE  UNCHANGED <<status, dispatchClaims, maint>>
  <2>1. CASE AudienceResolved(e) \/ TargetRead(e) \/ TargetInsert(e)
    BY <2>1 DEF AudienceResolved, TargetRead, TargetInsert
  <2>2. CASE DispatchEnd(e) \/ RunFault(e)
    BY <2>2 DEF DispatchEnd, RunFault
  <2>3. CASE ScanRead(e) \/ ScanEnqueue(e) \/ ScanEnd(e)
    BY <2>3 DEF ScanRead, ScanEnqueue, ScanEnd
  <2> QED
    BY <1>2, <2>1, <2>2, <2>3 DEF RunStep
<1>3. CASE \/ \E p \in Procs : FinalizeStep(p) \/ FinalizeFault(p)
           \/ \E s \in Subs : Unsubscribe(s)
  BY <1>3 DEF FinalizeStep, FinalizeFault, FinalizeRead, FinalizeTally, Unsubscribe
<1>4. CASE PauseRead \/ PauseMark \/ ResumeBegin \/ UNCHANGED vars
  BY <1>4 DEF PauseRead, PauseMark, ResumeBegin, vars
<1> QED
  BY <1>1, <1>2, <1>3, <1>4 DEF Next, CallStep, Maintenance

\* The sweep finds no campaign to close: while one is "sending" it is live, or
\* a request, a loop or a finalize() of it is under way.
LEMMA NoSweep ==
  ASSUME Faultless, CalmInv PROVE ~MaintenanceRead
<1> SUFFICES ASSUME MaintenanceRead PROVE FALSE
  OBVIOUS
<1>1. Claims = 0
  BY DEF MaintenanceRead, Settled, NoCall, Claims, CalmInv, TypeOK
<1>2. PICK p \in Procs : phase[p] \in {"audience"} \cup FinPhase
  BY <1>1 DEF MaintenanceRead, Faultless, CalmInv, Control, Moving
<1> QED
  BY <1>2 DEF MaintenanceRead, Settled, FinPhase

LEMMA NeverFailsStep ==
  ASSUME Faultless, CalmInv, NeverFails, [Next]_vars
  PROVE  NeverFails'
<1>0. TypeOK
  BY DEF CalmInv
<1>1. ~MaintenanceRead /\ ~MaintenanceWrite
  BY NoSweep DEF NeverFails, MaintenanceWrite
<1>2. ~Restart
  BY <1>0 DEF Restart, Faultless, TypeOK
<1>3. CASE DispatchClaim \/ DispatchBegin \/ PauseWrite \/ ResumeClaim
           \/ (\E p \in Procs : FinalizeWrite(p))
  BY <1>3 DEF DispatchClaim, DispatchBegin, PauseWrite, ResumeClaim, FinalizeWrite,
     callVars, dbVars, NeverFails
<1>4. CASE UNCHANGED <<status, dispatchClaims, maint>>
  BY <1>4 DEF NeverFails
<1> QED
  BY <1>0, <1>1, <1>2, <1>3, <1>4, StatusSteps

\* No lead subscribes again while the campaign runs.
LEMMA SubStays ==
  ASSUME TypeOK, [Next]_vars, NEW s \in Subs, sub'[s] = "active"
  PROVE  sub[s] = "active"
<1> USE DEF dbVars, memVars, runVars, taskVars, callVars, envVars
<1>1. CASE \E u \in Tasks : TaskStep(u) \/ RecordFault(u)
  <2>1. PICK u \in Tasks : TaskStep(u) \/ RecordFault(u)
    BY <1>1
  <2>2. CASE RecordLead(u)
    BY <2>2 DEF RecordLead, TypeOK
  <2>3. CASE ~RecordLead(u)
    BY <2>1, <2>3 DEF TaskStep, TaskStart, TaskPaced, PushDelivered, PushGone, PushFails,
         PushEnds, PushThrottled, PushRetry, RecordRow, RecordTotal, TaskDone, RecordFault
  <2> QED
    BY <2>2, <2>3
<1>2. CASE \E e \in Epochs : RunStep(e) \/ RunFault(e)
  BY <1>2 DEF RunStep, RunFault, AudienceResolved, TargetRead, TargetInsert, DispatchEnd,
     ScanRead, ScanEnqueue, ScanEnd
<1>3. CASE \E p \in Procs : FinalizeStep(p) \/ FinalizeFault(p)
  BY <1>3 DEF FinalizeStep, FinalizeFault, FinalizeRead, FinalizeTally, FinalizeWrite
<1>4. CASE \/ DispatchClaim \/ PauseRead \/ ResumeClaim \/ CallStep
           \/ Maintenance \/ Restart \/ UNCHANGED vars
  BY <1>4 DEF DispatchClaim, PauseRead, ResumeClaim, CallStep, DispatchBegin,
     PauseMark, PauseWrite, ResumeBegin, Maintenance, MaintenanceRead,
     MaintenanceWrite, Restart, vars
<1>5. CASE \E r \in Subs : Unsubscribe(r)
  BY <1>5 DEF Unsubscribe, TypeOK
<1> QED
  BY <1>1, <1>2, <1>3, <1>4, <1>5 DEF Next

\* Which steps touch the completion count or start to finalize.
LEMMA CountSteps ==
  ASSUME CalmInv, [Next]_vars
  PROVE  \/ /\ remaining' \in {remaining, Unset, MaxSafe}
            /\ consumed' \in {consumed, 0}
            /\ Finalizing' => Finalizing
         \/ \E e \in Epochs : (DispatchEnd(e) /\ ~paused) \/ ScanEnd(e)
         \/ \E t \in Tasks : TaskDone(t)
<1> USE DEF dbVars, memVars, runVars, taskVars, callVars, envVars
<1>0. TypeOK
  BY DEF CalmInv
<1>1. ASSUME NEW p \in Procs, NEW l, GoTo(p, l), l \in FinPhase => phase[p] \in FinPhase
      PROVE  Finalizing' => Finalizing
  BY <1>0, <1>1 DEF GoTo, TypeOK, Finalizing
<1>2. ASSUME NEW t \in Tasks, TaskStep(t) \/ RecordFault(t), ~TaskDone(t)
      PROVE  UNCHANGED <<remaining, consumed>> /\ (Finalizing' => Finalizing)
  <2>1. \E l : GoTo(t, l) /\ l \notin FinPhase
    BY <1>2 DEF TaskStep, TaskStart, TaskPaced, PushDelivered, PushGone, PushFails,
       PushEnds, PushThrottled, PushRetry, RecordRow, RecordLead, RecordTotal,
       RecordFault, FinPhase
  <2>2. UNCHANGED <<remaining, consumed>>
    BY <1>2 DEF TaskStep, TaskStart, TaskPaced, PushDelivered, PushGone, PushFails,
       PushEnds, PushThrottled, PushRetry, RecordRow, RecordLead, RecordTotal, RecordFault
  <2> QED
    BY <1>1, <2>1, <2>2, ProcNames
<1>3. ASSUME NEW e \in Epochs, RunStep(e) \/ RunFault(e),
             ~(DispatchEnd(e) /\ ~paused), ~ScanEnd(e)
      PROVE  /\ remaining' \in {remaining, MaxSafe}
             /\ consumed' = consumed /\ (Finalizing' => Finalizing)
  <2>0. <<e, 0>> \in Procs
    BY ProcNames
  <2>1. remaining' \in {remaining, MaxSafe} /\ consumed' = consumed
    BY <1>3 DEF RunStep, RunFault, AudienceResolved, TargetRead, TargetInsert, DispatchEnd,
       ScanRead, ScanEnqueue
  <2>2. CASE TargetInsert(e) \/ ScanEnqueue(e)
    <3>1. \A p \in Procs : phase'[p] \in {"waiting", "target", "scan", phase[p]}
      BY <2>2 DEF TargetInsert, ScanEnqueue
    <3>2. Finalizing' => Finalizing
      BY <3>1 DEF Finalizing, FinPhase
    <3> QED
      BY <2>1, <3>2
  <2>3. CASE ~(TargetInsert(e) \/ ScanEnqueue(e))
    <3>1. CASE AudienceResolved(e) \/ DispatchEnd(e) \/ ScanRead(e) \/ RunFault(e)
      BY <1>1, <1>3, <2>0, <2>1, <3>1
         DEF AudienceResolved, DispatchEnd, ScanRead, RunFault, FinPhase
    <3>2. CASE TargetRead(e)
      <4>1. \E l \in {"target", "insert"} : GoTo(<<e, 0>>, l)
        BY <3>2 DEF TargetRead
      <4> QED
        BY <1>1, <2>0, <2>1, <4>1 DEF FinPhase
    <3> QED
      BY <1>3, <2>3, <3>1, <3>2 DEF RunStep
  <2> QED
    BY <2>2, <2>3
<1>4. ASSUME NEW q \in Procs, FinalizeStep(q) \/ FinalizeFault(q)
      PROVE  UNCHANGED <<remaining, consumed>> /\ (Finalizing' => Finalizing)
  <2>1. (\E l : GoTo(q, l)) /\ phase[q] \in FinPhase
    BY <1>4 DEF FinalizeStep, FinalizeFault, FinalizeRead, FinalizeTally, FinalizeWrite, FinPhase
  <2>2. UNCHANGED <<remaining, consumed>>
    BY <1>4 DEF FinalizeStep, FinalizeFault, FinalizeRead, FinalizeTally, FinalizeWrite
  <2> QED
    BY <2>1, <2>2 DEF Finalizing
<1>5. CASE DispatchBegin \/ ResumeBegin
  <2>1. /\ \A q \in Procs : q # <<epoch', 0>> => phase'[q] = phase[q]
        /\ phase'[<<epoch', 0>>] \in {"audience", "scan"}
    BY <1>5, BeginDispatch, BeginResume DEF CalmInv
  <2>2. remaining' \in {remaining, MaxSafe} /\ consumed' = consumed
    BY <1>5 DEF DispatchBegin, ResumeBegin
  <2>3. Finalizing' => Finalizing
    BY <2>1 DEF Finalizing, FinPhase
  <2> QED
    BY <2>2, <2>3
<1>6. CASE Restart \/ PauseMark
  <2>1. remaining' = Unset /\ consumed' = 0
    BY <1>6 DEF Restart, PauseMark
  <2>2. Finalizing' => Finalizing
    BY <1>6 DEF Restart, PauseMark, Finalizing, FinPhase
  <2> QED
    BY <2>1, <2>2
<1>7. CASE \/ DispatchClaim \/ PauseRead \/ ResumeClaim \/ PauseWrite
           \/ Maintenance \/ (\E s \in Subs : Unsubscribe(s)) \/ UNCHANGED vars
  BY <1>7 DEF DispatchClaim, PauseRead, ResumeClaim, PauseWrite, Maintenance,
     MaintenanceRead, MaintenanceWrite, Unsubscribe, vars, Finalizing
<1> QED
  BY <1>2, <1>3, <1>4, <1>5, <1>6, <1>7 DEF Next, CallStep

\* Two sets of leads with nothing in common.
LEMMA Apart ==
  ASSUME NEW A \in SUBSET Subs, NEW B \in SUBSET Subs, NEW C \in SUBSET Subs,
         A \cap B = {}, A \cup B \subseteq C
  PROVE  Cardinality(A) + Cardinality(B) <= Cardinality(C)
<1>1. /\ IsFiniteSet(A) /\ Cardinality(A) \in Nat
      /\ IsFiniteSet(B) /\ Cardinality(B) \in Nat
      /\ IsFiniteSet(C) /\ Cardinality(C) \in Nat
  BY SubsFinite
<1>2. Cardinality(A \cap B) = 0
  BY FS_EmptySet
<1>3. Cardinality(A \cup B) = Cardinality(A) + Cardinality(B) - Cardinality(A \cap B)
  BY <1>1, FS_Union
<1>4. Cardinality(A \cup B) <= Cardinality(C)
  BY <1>1, FS_Subset
<1> QED
  BY <1>1, <1>2, <1>3, <1>4

LEMMA StaleSteps ==
  ASSUME [Next]_vars
  PROVE  \/ UNCHANGED <<paused, epoch>>
         \/ PauseMark \/ DispatchBegin \/ ResumeBegin \/ Restart
<1> USE DEF dbVars, memVars, runVars, taskVars, callVars, envVars
<1>1. CASE \E u \in Tasks : TaskStep(u) \/ RecordFault(u)
  BY <1>1 DEF TaskStep, TaskStart, TaskPaced, PushDelivered, PushGone, PushFails,
         PushEnds, PushThrottled, PushRetry, RecordRow, RecordLead, RecordTotal,
         TaskDone, RecordFault
<1>2. CASE \E e \in Epochs : RunStep(e) \/ RunFault(e)
  BY <1>2 DEF RunStep, RunFault, AudienceResolved, TargetRead, TargetInsert, DispatchEnd,
     ScanRead, ScanEnqueue, ScanEnd
<1>3. CASE \/ \E p \in Procs : FinalizeStep(p) \/ FinalizeFault(p)
           \/ \E s \in Subs : Unsubscribe(s)
  BY <1>3 DEF FinalizeStep, FinalizeFault, FinalizeRead, FinalizeTally, FinalizeWrite,
     Unsubscribe
<1>4. CASE \/ DispatchClaim \/ PauseRead \/ ResumeClaim \/ PauseWrite
           \/ Maintenance \/ UNCHANGED vars
  BY <1>4 DEF DispatchClaim, PauseRead, ResumeClaim, PauseWrite, Maintenance,
     MaintenanceRead, MaintenanceWrite, vars
<1> QED
  BY <1>1, <1>2, <1>3, <1>4 DEF Next, CallStep

\* A task that runs on was at work already.
LEMMA OwesStays ==
  ASSUME CalmInv, [Next]_vars, NEW t \in Tasks, Owes(t)',
         ~TargetInsert(t[1]), ~ScanEnqueue(t[1])
  PROVE  Owes(t)
<1> USE DEF dbVars, memVars, runVars, taskVars, callVars, envVars
<1>0. TypeOK /\ OnceInv /\ t \in Procs
  BY ProcNames DEF CalmInv
<1>1. CASE DispatchBegin \/ ResumeBegin \/ Restart
  BY <1>1, BeginDispatch, BeginResume, ControlRestart DEF CalmInv, NobodyOwes
<1>2. CASE PauseMark
  BY <1>2 DEF PauseMark, Owes, Stale
<1>3. CASE UNCHANGED <<paused, epoch>>
  <2>1. CASE phase'[t] = phase[t]
    BY <1>3, <2>1 DEF Owes, Stale
  <2>2. CASE TaskStep(t) \/ RecordFault(t)
    BY <1>0, <2>2 DEF TaskStep, TaskStart, TaskPaced, PushDelivered, PushGone, PushFails,
         PushEnds, PushThrottled, PushRetry, RecordRow, RecordLead, RecordTotal,
         TaskDone, RecordFault, GoTo, SetRemaining, TypeOK, Owes, ActPhase
  <2>3. CASE phase'[t] \in {"ended", "finTally", "finWrite"}
    BY <2>3 DEF Owes, ActPhase
  <2> QED
    BY <2>1, <2>2, <2>3, TaskSteps
<1> QED
  BY <1>1, <1>2, <1>3, StaleSteps

\* What is owed only grows when a loop adds leads.
LEMMA DebtFalls ==
  ASSUME CalmInv, Rows, Untouched, [Next]_vars,
         \A e \in Epochs : ~TargetInsert(e) /\ ~ScanEnqueue(e)
  PROVE  /\ Queued' \subseteq Queued
         /\ Owing' \subseteq Owing
<1>1. Queued' \subseteq Queued
  BY RowOpens DEF Queued
<1>2. Owing' \subseteq Owing
  <2> SUFFICES ASSUME NEW s \in Subs, NEW e \in Epochs, Owes(<<e, s>>)'
               PROVE  Owes(<<e, s>>)
    BY DEF Owing
  <2>1. <<e, s>> \in Tasks /\ <<e, s>>[1] = e
    BY ProcNames
  <2> QED
    BY <2>1, OwesStays
<1> QED
  BY <1>1, <1>2

\* What is owed when a loop has nothing more to add.
LEMMA LoopDebt ==
  ASSUME CalmInv, Rows, Taken, Consumes, NEW e \in Epochs,
         \/ phase[<<e, 0>>] = "target"
         \/ phase[<<e, 0>>] = "scan" /\ Unread(e) = {}
  PROVE  /\ Cardinality(Queued \cup Owing) <= Added(e) - consumed
         /\ Added(e) = 0 => Queued \cup Owing = {}
<1> DEFINE Has == {s \in Subs : phase[<<e, s>>] # "none"}
           Debt == Queued \cup Owing
<1>0. TypeOK /\ phase[<<e, 0>>] \in Adding /\ phase[<<e, 0>>] \in RunPhase
  BY DEF CalmInv, Adding, RunPhase
<1>1. Queued \subseteq Has
  BY <1>0 DEF Queued, Taken, Unread
<1>2. ASSUME NEW s \in Owing PROVE s \in Subs /\ Owes(<<e, s>>)
  <2>1. PICK d \in Epochs : Owes(<<d, s>>) /\ s \in Subs
    BY DEF Owing
  <2>2. <<d, s>> \in Tasks /\ <<d, s>>[1] = d
    BY <2>1, ProcNames
  <2>3. d = e
    BY <1>0, <2>1, <2>2, LoopWorks
  <2> QED
    BY <2>1, <2>3
<1>3. Owing \subseteq Has /\ \A s \in Owing : phase[<<e, s>>] # "ended"
  BY <1>2 DEF Owes, ActPhase
<1>4. Debt \in SUBSET Subs /\ Settles(e) \in SUBSET Subs /\ Has \in SUBSET Subs
  BY OwingSet DEF Queued, Settles
<1>5. Debt \cap Settles(e) = {}
  BY <1>3 DEF Queued, Settles, Closed
<1>6. Settles(e) \subseteq Has
  BY DEF Settles
<1>7. Cardinality(Debt) + Cardinality(Settles(e)) <= Cardinality(Has)
  <2>1. Debt \cup Settles(e) \subseteq Has
    BY <1>1, <1>3, <1>6
  <2> HIDE DEF Debt, Has
  <2> QED
    BY <1>4, <1>5, <2>1, Apart
<1>8. /\ Cardinality(Debt) \in Nat /\ Cardinality(Settles(e)) \in Nat
      /\ Cardinality(Has) \in Nat /\ IsFiniteSet(Has)
  <2> HIDE DEF Debt, Has
  <2> QED
    BY <1>4, SubsFinite
<1>9. consumed <= Cardinality(Settles(e)) /\ consumed \in Nat
  BY <1>0 DEF Consumes, TypeOK
<1>10. Added(e) = Cardinality(Has)
  BY DEF Added
<1>11. Added(e) = 0 => Debt = {}
  <2>1. Has = {} => Debt = {}
    BY <1>1, <1>3
  <2> HIDE DEF Has
  <2> QED
    BY <1>8, <1>10, <2>1, FS_EmptySet
<1>12. Cardinality(Debt) <= Added(e) - consumed
  <2> HIDE DEF Debt, Has
  <2> QED
    BY <1>7, <1>8, <1>9, <1>10
<1> QED
  BY <1>11, <1>12

\* What is owed when a task is through.
LEMMA DoneDebt ==
  ASSUME CalmInv, Rows, Untouched, Recorded, [Next]_vars, NEW t \in Tasks, TaskDone(t)
  PROVE  /\ Queued' \cup Owing' \subseteq (Queued \cup Owing) \ {t[2]}
         /\ t[2] \in Owing
<1> USE DEF dbVars, memVars, runVars, taskVars, callVars, envVars
<1>0. TypeOK /\ t \in Procs /\ t[1] \in Epochs /\ t[2] \in Subs /\ t = <<t[1], t[2]>>
  BY ProcNames DEF CalmInv
<1>1. phase[t] = "done" /\ row' = row /\ phase'[t] \in {"ended", "finRead"}
  BY <1>0 DEF TaskDone, SetRemaining, GoTo, TypeOK
<1>2. Owes(t) /\ t[2] \in Owing
  <2>1. Owes(t)
    BY <1>1 DEF Owes, ActPhase
  <2>2. Owes(<<t[1], t[2]>>)
    BY <1>0, <2>1
  <2> QED
    BY <1>0, <2>1, <2>2 DEF Owing
<1>3. t[2] \notin Queued'
  BY <1>1 DEF Queued, Recorded, Closed
<1>4. t[2] \notin Owing'
  <2> SUFFICES ASSUME NEW d \in Epochs, Owes(<<d, t[2]>>)' PROVE FALSE
    BY DEF Owing
  <2>1. <<d, t[2]>> \in Tasks /\ <<d, t[2]>>[1] = d
    BY <1>0, ProcNames
  <2>2. ~TargetInsert(d) /\ ~ScanEnqueue(d)
    <3>1. picked' = picked /\ phase'[t] # "waiting"
      BY <1>1 DEF TaskDone
    <3>2. ASSUME TargetInsert(d) \/ ScanEnqueue(d) PROVE FALSE
      <4>1. phase'[t] \in {phase[t], "waiting", "target", "scan"}
        BY <1>0, <3>2 DEF TargetInsert, ScanEnqueue
      <4> QED
        BY <1>1, <4>1
    <3> QED
      BY <3>2
  <2>3. Owes(<<d, t[2]>>)
    BY <2>1, <2>2, OwesStays
  <2>4. d = t[1]
    BY <1>2, <2>1, <2>3, TaskWorks
  <2> QED
    BY <1>0, <1>1, <2>4 DEF Owes, ActPhase
<1>5. \A e \in Epochs : ~TargetInsert(e) /\ ~ScanEnqueue(e)
  <2> SUFFICES ASSUME NEW e \in Epochs, TargetInsert(e) \/ ScanEnqueue(e) PROVE FALSE
    OBVIOUS
  <2>1. phase'[t] \in {phase[t], "waiting", "target", "scan"}
    BY <1>0 DEF TargetInsert, ScanEnqueue
  <2> QED
    BY <1>1, <2>1
<1> QED
  BY <1>2, <1>3, <1>4, <1>5, DebtFalls

LEMMA RecordedStep ==
  ASSUME Faultless, CalmInv, Rows, Untouched, Recorded, [Next]_vars
  PROVE  Recorded'
<1> SUFFICES ASSUME NEW t \in Tasks, phase'[t] \in {"lead", "total", "done"}
             PROVE  Closed(t[2])'
  BY DEF Recorded
<1>0. /\ TypeOK /\ t \in Procs /\ t[2] \in Subs
  BY ProcNames DEF CalmInv
<1>1. CASE phase[t] \in {"lead", "total", "done"}
  BY <1>0, <1>1, ClosedStays DEF Recorded
<1>2. CASE phase[t] = "row"
  <2>1. RecordRow(t)
    BY <1>2, RowLeaves DEF Faultless, NoThrow, NoLoss
  <2>2. row'[t[2]] = outcome[t]
    BY <1>0, <2>1 DEF RecordRow, TypeOK
  <2>3. outcome[t] \in {"sent", "expired", "failed"}
    BY <1>0, <1>2 DEF Rows, OutcomeKnown, TypeOK, Outcome
  <2> QED
    BY <2>2, <2>3 DEF Closed
<1>3. CASE phase[t] \notin {"row", "lead", "total", "done"}
  <2>1. TaskStep(t) \/ RecordFault(t)
    BY <1>3, TaskSteps
  <2> QED
    BY <1>0, <1>3, <2>1 DEF TaskStep, TaskStart, TaskPaced, PushDelivered, PushGone,
       PushFails, PushEnds, PushThrottled, PushRetry, RecordRow, RecordLead, RecordTotal,
       TaskDone, RecordFault, GoTo, TypeOK
<1> QED
  BY <1>1, <1>2, <1>3

\* The page is the beginning of what is unread.
LEMMA PageFirst ==
  ASSUME TypeOK, NEW e \in Epochs, ScanRead(e), NEW s \in Unread(e)
  PROVE  \/ cursor'[e] < rowId[s]
         \/ <<s, sub[s] = "active">> \in picked'[e]
<1> DEFINE Before(r) == {q \in Unread(e) : rowId[q] < rowId[r]}
           page == {r \in Unread(e) : Cardinality(Before(r)) < BatchSize}
<1>1. /\ picked'[e] = {<<r, sub[r] = "active">> : r \in page}
      /\ \E last \in page : cursor'[e] = rowId[last]
  BY DEF ScanRead, TypeOK
<1>2. PICK last \in page : cursor'[e] = rowId[last]
  BY <1>1
<1>3. \A r \in Unread(e) : /\ r \in Subs /\ rowId[r] \in Nat
                           /\ IsFiniteSet(Before(r)) /\ Cardinality(Before(r)) \in Nat
  <2> SUFFICES ASSUME NEW r \in Unread(e)
               PROVE  /\ r \in Subs /\ rowId[r] \in Nat
                      /\ IsFiniteSet(Before(r)) /\ Cardinality(Before(r)) \in Nat
    OBVIOUS
  <2>1. r \in Subs /\ rowId[r] \in Nat
    BY DEF Unread, TypeOK, Subs
  <2>2. Before(r) \in SUBSET Subs
    BY DEF Unread
  <2> QED
    BY <2>1, <2>2, SubsFinite
<1>4. CASE s \in page
  BY <1>1, <1>4
<1>5. CASE s \notin page
  <2>1. ~(Cardinality(Before(s)) < BatchSize) /\ Cardinality(Before(last)) < BatchSize
    BY <1>5
  <2>2. last \in Unread(e)
    OBVIOUS
  <2>a. rowId[s] \in Nat /\ rowId[last] \in Nat
    BY <1>3, <2>2
  <2>3. ASSUME ~(rowId[last] < rowId[s]) PROVE FALSE
    <3>1. rowId[s] <= rowId[last]
      BY <2>a, <2>3
    <3>2. Before(s) \subseteq Before(last)
      <4> SUFFICES ASSUME NEW q \in Before(s) PROVE rowId[q] < rowId[last]
        OBVIOUS
      <4>1. rowId[q] < rowId[s] /\ q \in Unread(e)
        OBVIOUS
      <4>2. rowId[q] \in Nat
        BY <1>3, <4>1
      <4> HIDE DEF Before, page
      <4> QED
        BY <2>a, <3>1, <4>1, <4>2
    <3>3. Cardinality(Before(s)) <= Cardinality(Before(last))
      <4> HIDE DEF Before
      <4> QED
        BY <1>3, <2>2, <3>2, FS_Subset
    <3>4. BatchSize \in Nat /\ Cardinality(Before(s)) \in Nat /\ Cardinality(Before(last)) \in Nat
      <4> HIDE DEF Before
      <4> QED
        BY <1>3, <2>2, RunnerAssumption
    <3> HIDE DEF Before
    <3> QED
      BY <2>1, <3>3, <3>4
  <2> QED
    BY <1>2, <2>3
<1> QED
  BY <1>4, <1>5

\* A loop that is adding was adding, or has just begun to.
LEMMA LoopEntry ==
  ASSUME CalmInv, Untouched, [Next]_vars, NEW e \in Epochs,
         phase'[<<e, 0>>] \in Adding, phase[<<e, 0>>] \notin Adding
  PROVE  \/ AudienceResolved(e)
         \/ ResumeBegin /\ cursor'[e] = 0 /\ phase'[<<e, 0>>] = "scan"
<1> USE DEF Adding
<1>0. TypeOK /\ OnceInv /\ <<e, 0>> \in Procs
  BY ProcNames DEF CalmInv
<1>1. CASE RunStep(e)
  BY <1>1 DEF RunStep, TargetRead, TargetInsert, DispatchEnd,
     ScanRead, ScanEnqueue, ScanEnd
<1>2. CASE DispatchBegin \/ ResumeBegin
  <2>1. /\ \A q \in Procs : q # <<epoch', 0>> => phase'[q] = phase[q]
        /\ DispatchBegin => phase'[<<epoch', 0>>] = "audience"
        /\ ResumeBegin => phase'[<<epoch', 0>>] = "scan"
        /\ epoch' = epoch + 1 /\ cursor' = cursor
    BY <1>2, BeginDispatch, BeginResume DEF CalmInv, DispatchBegin, ResumeBegin, runVars
  <2>2. e = epoch' /\ ResumeBegin
    BY <1>0, <1>2, <2>1
  <2>3. phase[<<e, 0>>] = "none"
    BY <1>0, <2>1, <2>2, RunnerAssumption DEF OnceInv, FreshRuns, TypeOK
  <2> QED
    BY <2>1, <2>2, <2>3 DEF Untouched
<1> QED
  BY <1>0, <1>1, <1>2, LoopSteps

LEMMA TakenStep ==
  ASSUME CalmInv, Rows, Untouched, Taken, [Next]_vars
  PROVE  Taken'
<1> USE DEF dbVars, memVars, runVars, taskVars, callVars, envVars
<1> SUFFICES ASSUME NEW e \in Epochs, NEW s \in Subs,
                    phase'[<<e, 0>>] \in Adding, row'[s] = "queued"
             PROVE  \/ phase'[<<e, s>>] # "none"
                    \/ phase'[<<e, 0>>] \in {"scan", "enqueue"} /\ cursor'[e] < rowId'[s]
                    \/ /\ phase'[<<e, 0>>] = "enqueue"
                       /\ \E b \in BOOLEAN : <<s, b>> \in picked'[e]
  BY DEF Taken
<1>0. /\ TypeOK /\ OnceInv /\ <<e, 0>> \in Procs /\ <<e, s>> \in Procs
      /\ <<e, s>> # <<e, 0>> /\ <<e, s>>[1] = e /\ <<e, s>>[2] = s
  BY ProcNames DEF CalmInv
<1>1. rowId' = rowId
  <2>1. CASE \E t \in Tasks : TaskStep(t) \/ RecordFault(t)
    BY <2>1 DEF TaskStep, TaskStart, TaskPaced, PushDelivered, PushGone, PushFails,
         PushEnds, PushThrottled, PushRetry, RecordRow, RecordLead, RecordTotal,
         TaskDone, RecordFault
  <2>2. CASE \E d \in Epochs : RunStep(d) \/ RunFault(d)
    BY <2>2 DEF RunStep, RunFault, AudienceResolved, TargetRead, TargetInsert, DispatchEnd,
     ScanRead, ScanEnqueue, ScanEnd
  <2>3. CASE \/ \E p \in Procs : FinalizeStep(p) \/ FinalizeFault(p)
             \/ \E r \in Subs : Unsubscribe(r)
    BY <2>3 DEF FinalizeStep, FinalizeFault, FinalizeRead, FinalizeTally, FinalizeWrite,
     Unsubscribe
  <2>4. CASE \/ DispatchClaim \/ PauseRead \/ ResumeClaim \/ CallStep
             \/ Maintenance \/ Restart \/ UNCHANGED vars
    BY <2>4 DEF DispatchClaim, PauseRead, ResumeClaim, CallStep, DispatchBegin,
     PauseMark, PauseWrite, ResumeBegin, Maintenance, MaintenanceRead,
     MaintenanceWrite, Restart, vars
  <2> QED
    BY <2>1, <2>2, <2>3, <2>4 DEF Next
<1>2. phase[<<e, s>>] # "none" => phase'[<<e, s>>] # "none"
  BY <1>0, PhaseStays
<1>3. CASE row[s] # "queued"
  <2>1. PICK d \in Epochs : TargetInsert(d) /\ s \in {x[1] : x \in picked[d]}
    BY <1>3, RowOpens
  <2>2. d = e
    <3>1. CASE phase[<<e, 0>>] \in Adding
      BY <2>1, <3>1, LoopWorks DEF TargetInsert, Adding, RunPhase
    <3>2. CASE phase[<<e, 0>>] \notin Adding
      <4>1. phase'[<<e, 0>>] \in {phase[<<e, 0>>], "target", "waiting"}
            /\ (d # e => phase'[<<e, 0>>] = phase[<<e, 0>>])
        BY <1>0, <2>1 DEF TargetInsert
      <4> QED
        BY <3>2, <4>1
    <3> QED
      BY <3>1, <3>2
  <2>3. phase'[<<e, s>>] = "waiting"
    BY <1>0, <2>1, <2>2 DEF TargetInsert
  <2> QED
    BY <2>3
<1>4. CASE row[s] = "queued" /\ phase[<<e, 0>>] \notin Adding
  <2>1. CASE AudienceResolved(e)
    <3>1. row[s] = "none"
      BY <2>1 DEF AudienceResolved, Untouched, TypeOK, Subs
    <3> QED
      BY <1>4, <3>1
  <2>2. CASE cursor'[e] = 0 /\ phase'[<<e, 0>>] = "scan"
    <3>1. rowId[s] \in Subs
      BY <1>0 DEF TypeOK
    <3>2. cursor'[e] < rowId'[s]
      BY <1>1, <2>2, <3>1, RunnerAssumption DEF Subs
    <3> QED
      BY <2>2, <3>2
  <2> QED
    BY <1>4, <2>1, <2>2, LoopEntry
<1>5. CASE row[s] = "queued" /\ phase[<<e, 0>>] \in Adding
  <2>0. \/ phase[<<e, s>>] # "none"
        \/ phase[<<e, 0>>] \in {"scan", "enqueue"} /\ cursor[e] < rowId[s]
        \/ phase[<<e, 0>>] = "enqueue" /\ \E b \in BOOLEAN : <<s, b>> \in picked[e]
    BY <1>5 DEF Taken
  <2>1. CASE UNCHANGED <<phase[<<e, 0>>], cursor[e], picked[e]>>
    BY <1>1, <1>2, <2>0, <2>1
  <2>2. CASE RunStep(e)
    <3>0. CASE AudienceResolved(e)
      BY <1>5, <3>0 DEF AudienceResolved, Adding
    <3>1. CASE DispatchEnd(e) \/ ScanEnd(e)
      <4>1. phase'[<<e, 0>>] \in {"ended", "finRead"}
        BY <1>0, <3>1 DEF DispatchEnd, ScanEnd, SetRemaining, GoTo, TypeOK
      <4> QED
        BY <4>1 DEF Adding
    <3>2. CASE TargetRead(e) \/ TargetInsert(e)
      BY <1>2, <2>0, <3>2 DEF TargetRead, TargetInsert
    <3>3. CASE ScanRead(e)
      <4>1. /\ phase'[<<e, 0>>] = "enqueue" /\ phase[<<e, 0>>] = "scan"
        BY <1>0, <3>3 DEF ScanRead, GoTo, TypeOK
      <4>2. CASE phase[<<e, s>>] # "none"
        BY <1>2, <4>2
      <4>3. CASE cursor[e] < rowId[s]
        <5>1. s \in Unread(e)
          BY <1>5, <4>3 DEF Unread
        <5> QED
          BY <1>0, <1>1, <3>3, <4>1, <5>1, PageFirst
      <4> QED
        BY <2>0, <4>1, <4>2, <4>3
    <3>4. CASE ScanEnqueue(e)
      <4>1. /\ phase[<<e, 0>>] = "enqueue" /\ cursor' = cursor
            /\ phase'[<<e, 0>>] \in {"scan", "waiting"}
        BY <1>0, <3>4 DEF ScanEnqueue
      <4>2. CASE phase[<<e, s>>] # "none" \/ cursor[e] < rowId[s]
        BY <1>1, <1>2, <4>1, <4>2 DEF Adding
      <4>3. CASE \E b \in BOOLEAN : <<s, b>> \in picked[e]
        <5>1. <<s, FALSE>> \notin picked[e]
          BY <3>4 DEF ScanEnqueue
        <5>2. <<s, TRUE>> \in picked[e]
          BY <4>3, <5>1
        <5>3. phase'[<<e, s>>] = "waiting"
          BY <1>0, <3>4, <5>2 DEF ScanEnqueue
        <5> QED
          BY <5>3
      <4> QED
        BY <2>0, <4>2, <4>3
    <3> QED
      BY <2>2, <3>0, <3>1, <3>2, <3>3, <3>4 DEF RunStep
  <2>3. CASE phase'[<<e, 0>>] \in {"ended", "finTally", "finWrite"}
    BY <2>3 DEF Adding
  <2>4. CASE DispatchBegin \/ ResumeBegin
    <3>1. AllRest
      BY <2>4, BeginDispatch, BeginResume DEF CalmInv
    <3> QED
      BY <1>0, <1>5, <3>1 DEF AllRest, IsBusy, Adding
  <2> QED
    BY <1>0, <2>1, <2>2, <2>3, <2>4, LoopSteps
<1> QED
  BY <1>3, <1>4, <1>5

LEMMA SettlesGrow ==
  ASSUME CalmInv, Rows, Untouched, [Next]_vars, NEW e \in Epochs
  PROVE  /\ Settles(e) \subseteq Settles(e)'
         /\ Cardinality(Settles(e)) <= Cardinality(Settles(e)')
         /\ Settles(e) \in SUBSET Subs /\ Settles(e)' \in SUBSET Subs
<1>1. Settles(e) \subseteq Settles(e)'
  <2> SUFFICES ASSUME NEW s \in Subs, phase[<<e, s>>] = "ended", Closed(s)
               PROVE  phase'[<<e, s>>] = "ended" /\ Closed(s)'
    BY DEF Settles
  <2> QED
    BY ProcNames, PhaseStays, ClosedStays
<1>2. Settles(e) \in SUBSET Subs /\ Settles(e)' \in SUBSET Subs
  BY DEF Settles
<1>3. IsFiniteSet(Settles(e)')
  BY <1>2, SubsFinite
<1> QED
  BY <1>1, <1>2, <1>3, FS_Subset

LEMMA ConsumesStep ==
  ASSUME CalmInv, Rows, Untouched, Recorded, Consumes, [Next]_vars
  PROVE  Consumes'
<1> USE DEF dbVars, memVars, runVars, taskVars, callVars, envVars
<1> SUFFICES ASSUME NEW e \in Epochs, phase'[<<e, 0>>] \in Adding
             PROVE  consumed' <= Cardinality(Settles(e)')
  BY DEF Consumes
<1>0. /\ TypeOK /\ <<e, 0>> \in Procs
      /\ consumed \in Nat
      /\ Cardinality(Settles(e)) \in Nat /\ Cardinality(Settles(e)') \in Nat
      /\ Cardinality(Settles(e)) <= Cardinality(Settles(e)')
      /\ Settles(e) \subseteq Settles(e)'
  BY SettlesGrow, SubsFinite, ProcNames DEF CalmInv, TypeOK
<1>1. CASE phase[<<e, 0>>] \notin Adding
  <2>1. consumed' = 0
    <3>1. CASE AudienceResolved(e)
      BY <3>1 DEF AudienceResolved, CalmInv, Count, LoopCounts, Unconsumed
    <3>2. CASE ResumeBegin
      BY <3>2, BeginResume DEF CalmInv, ResumeBegin
    <3> QED
      BY <1>1, <3>1, <3>2, LoopEntry
  <2> QED
    BY <1>0, <2>1
<1>2. CASE phase[<<e, 0>>] \in Adding
  <2>0. consumed <= Cardinality(Settles(e)) /\ phase[<<e, 0>>] \in RunPhase
    BY <1>2 DEF Consumes, Adding, RunPhase
  <2>1. CASE consumed' \in {consumed, 0}
    BY <1>0, <2>0, <2>1
  <2>2. CASE \E d \in Epochs : (DispatchEnd(d) /\ ~paused) \/ ScanEnd(d)
    BY <1>0, <2>0, <2>1, <2>2 DEF DispatchEnd, ScanEnd, SetRemaining
  <2>3. CASE \E t \in Tasks : TaskDone(t)
    <3>1. PICK t \in Tasks : TaskDone(t)
      BY <2>3
    <3>2. /\ t \in Procs /\ t[2] \in Subs /\ phase[t] = "done" /\ Owes(t)
          /\ t = <<t[1], t[2]>>
      BY <3>1, ProcNames DEF TaskDone, Owes, ActPhase
    <3>3. t[1] = e
      BY <2>0, <3>2, TaskWorks
    <3>4. CASE consumed' = consumed + 1 /\ GoTo(t, "ended")
      <4>1. phase'[t] = "ended"
        BY <1>0, <3>2, <3>4 DEF GoTo, TypeOK
      <4>2. Closed(t[2])'
        BY <3>2, ClosedStays DEF Recorded
      <4>3. t[2] \in Settles(e)' /\ t[2] \notin Settles(e)
        BY <3>2, <3>3, <4>1, <4>2 DEF Settles
      <4>4. Settles(e) \cap {t[2]} = {} /\ Settles(e) \cup {t[2]} \subseteq Settles(e)'
        BY <1>0, <4>3
      <4>5. Cardinality(Settles(e)) + Cardinality({t[2]}) <= Cardinality(Settles(e)')
        BY <3>2, <4>4, SettlesGrow, Apart
      <4>6. Cardinality({t[2]}) = 1
        BY FS_Singleton
      <4> QED
        BY <1>0, <2>0, <3>4, <4>5, <4>6
    <3>5. CASE ~(consumed' = consumed + 1 /\ GoTo(t, "ended"))
      BY <2>1, <3>1, <3>5 DEF TaskDone, SetRemaining
    <3> QED
      BY <3>4, <3>5
  <2> QED
    BY <2>1, <2>2, <2>3, CountSteps
<1> QED
  BY <1>1, <1>2

\* A loop that ends, and the count it sets.
LEMMA LoopEnd ==
  ASSUME CalmInv, Rows, Untouched, Taken, Consumes, [Next]_vars,
         NEW e \in Epochs, (DispatchEnd(e) /\ ~paused) \/ ScanEnd(e)
  PROVE  /\ remaining' \in 1..NumSubs => Cardinality(Queued' \cup Owing') <= remaining'
         /\ Finalizing' \/ status' = "sent" => Queued' = {}
<1> USE DEF dbVars, memVars, runVars, taskVars, callVars, envVars
<1> DEFINE n == IF Added(e) = 0 THEN 0 ELSE Added(e) - consumed
<1>0. /\ TypeOK /\ <<e, 0>> \in Procs
      /\ Added(e) \in Nat /\ consumed \in Nat
  BY ProcNames, CountsAreNat DEF CalmInv, TypeOK
<1>1. /\ \/ phase[<<e, 0>>] = "target"
         \/ phase[<<e, 0>>] = "scan" /\ Unread(e) = {}
      /\ SetRemaining(<<e, 0>>, n) /\ status' = status
      /\ picked' = picked
  BY DEF DispatchEnd, ScanEnd
<1>2. status # "sent" /\ ~Finalizing
  BY <1>1, LoopWorks DEF RunPhase
<1>3. /\ Cardinality(Queued \cup Owing) <= n
      /\ n <= 0 => Queued \cup Owing = {}
  <2>1. /\ Cardinality(Queued \cup Owing) <= Added(e) - consumed
        /\ Added(e) = 0 => Queued \cup Owing = {}
    BY <1>1, LoopDebt
  <2>2. Queued \cup Owing \in SUBSET Subs
    BY OwingSet DEF Queued
  <2>3. IsFiniteSet(Queued \cup Owing) /\ Cardinality(Queued \cup Owing) \in Nat
    BY <2>2, SubsFinite
  <2>4. Cardinality(Queued \cup Owing) = 0 => Queued \cup Owing = {}
    BY <2>3, FS_EmptySet
  <2>5. CASE Added(e) = 0
    BY <2>1, <2>5, FS_EmptySet
  <2>6. CASE Added(e) # 0
    BY <1>0, <2>1, <2>3, <2>4, <2>6
  <2> QED
    BY <2>5, <2>6
<1>4. Queued' \subseteq Queued /\ Owing' \subseteq Owing
  <2>1. phase'[<<e, 0>>] \in {"ended", "finRead"}
    BY <1>0, <1>1 DEF SetRemaining, GoTo, TypeOK
  <2>2. \A d \in Epochs : ~TargetInsert(d) /\ ~ScanEnqueue(d)
    <3> SUFFICES ASSUME NEW d \in Epochs, TargetInsert(d) \/ ScanEnqueue(d) PROVE FALSE
      OBVIOUS
    <3>1. phase'[<<e, 0>>] \in {"waiting", "target", "scan", phase[<<e, 0>>]}
      BY <1>0 DEF TargetInsert, ScanEnqueue
    <3> QED
      BY <1>1, <2>1, <3>1
  <2> QED
    BY <2>2, DebtFalls
<1>5. Cardinality(Queued' \cup Owing') <= Cardinality(Queued \cup Owing)
      /\ Cardinality(Queued' \cup Owing') \in Nat /\ Cardinality(Queued \cup Owing) \in Nat
  <2>1. Queued \cup Owing \in SUBSET Subs /\ Queued' \cup Owing' \subseteq Queued \cup Owing
    BY <1>4, OwingSet DEF Queued
  <2>2. IsFiniteSet(Queued \cup Owing) /\ Cardinality(Queued \cup Owing) \in Nat
    BY <2>1, SubsFinite
  <2>3. IsFiniteSet(Queued' \cup Owing')
    BY <2>1, <2>2, FS_Subset
  <2> QED
    BY <2>1, <2>2, <2>3, FS_Subset, FS_CardinalityType
<1>6. n \in Int
  BY <1>0
<1> HIDE DEF n
<1>7. CASE n <= 0
  <2>1. remaining' = Unset /\ Queued' = {}
    BY <1>1, <1>3, <1>4, <1>7 DEF SetRemaining
  <2> QED
    BY <2>1
<1>8. CASE ~(n <= 0)
  <2>1. remaining' = n /\ phase' = [phase EXCEPT ![<<e, 0>>] = "ended"]
    BY <1>1, <1>8 DEF SetRemaining, GoTo
  <2>2. ~Finalizing'
    BY <1>0, <1>2, <2>1 DEF Finalizing, FinPhase, TypeOK
  <2> QED
    BY <1>1, <1>2, <1>3, <1>5, <1>6, <2>1, <2>2
<1> QED
  BY <1>7, <1>8

\* A task that is through, and the count it leaves.
LEMMA TaskEnd ==
  ASSUME CalmInv, Rows, Untouched, Recorded, Remains, AllClosed, [Next]_vars,
         NEW t \in Tasks, TaskDone(t)
  PROVE  /\ remaining' \in 1..NumSubs => Cardinality(Queued' \cup Owing') <= remaining'
         /\ Finalizing' \/ status' = "sent" => Queued' = {}
<1> USE DEF dbVars, memVars, runVars, taskVars, callVars, envVars
<1> DEFINE Debt == Queued \cup Owing
           Left == Queued' \cup Owing'
<1>0. /\ TypeOK /\ t \in Procs /\ NumSubs \in Nat /\ t[2] \in Subs
      /\ remaining \in {Unset, MaxSafe} \cup 1..NumSubs
  BY ProcNames, RunnerAssumption DEF CalmInv, Count, InRange
<1>1. /\ phase[t] = "done" /\ Owes(t) /\ status' = status
  BY DEF TaskDone, Owes, ActPhase
<1>2. status # "sent" /\ ~Finalizing
  BY <1>1, TaskWorks
<1>3. Left \subseteq Debt \ {t[2]} /\ t[2] \in Debt
  BY DoneDebt
<1>4. Debt \in SUBSET Subs
  BY OwingSet DEF Queued
<1>a. Queued' \subseteq Left
  OBVIOUS
<1> HIDE DEF Debt, Left
<1>5. /\ Cardinality(Left) + 1 <= Cardinality(Debt)
      /\ Cardinality(Left) \in Nat /\ Cardinality(Debt) \in Nat
      /\ Cardinality(Left) = 0 => Left = {}
  <2>1. Left \in SUBSET Subs /\ {t[2]} \in SUBSET Subs
    BY <1>0, <1>3, <1>4
  <2>2. Left \cap {t[2]} = {} /\ Left \cup {t[2]} \subseteq Debt
    BY <1>3
  <2>3. Cardinality(Left) + Cardinality({t[2]}) <= Cardinality(Debt)
    BY <1>4, <2>1, <2>2, Apart
  <2>4. Cardinality({t[2]}) = 1
    BY FS_Singleton
  <2> QED
    BY <1>4, <2>1, <2>3, <2>4, SubsFinite, FS_EmptySet
<1>6. CASE remaining \in {Unset, MaxSafe}
  <2>1. remaining' = remaining /\ phase' = [phase EXCEPT ![t] = "ended"]
    BY <1>6 DEF TaskDone, GoTo
  <2>2. ~Finalizing'
    BY <1>0, <1>2, <2>1 DEF Finalizing, FinPhase, TypeOK
  <2>3. remaining' \notin 1..NumSubs
    BY <1>0, <1>6, <2>1 DEF MaxSafe
  <2> QED
    BY <1>1, <1>2, <2>2, <2>3
<1>7. CASE remaining \in 1..NumSubs
  <2>1. Cardinality(Debt) <= remaining
    BY <1>7 DEF Remains, Debt
  <2>2. SetRemaining(t, remaining - 1)
    BY <1>0, <1>7 DEF TaskDone, MaxSafe
  <2>3. CASE remaining = 1
    <3>1. remaining' = Unset
      BY <2>2, <2>3 DEF SetRemaining
    <3>2. Left = {}
      BY <1>5, <2>1, <2>3
    <3> QED
      BY <1>a, <3>1, <3>2
  <2>4. CASE remaining # 1
    <3>1. remaining' = remaining - 1 /\ phase' = [phase EXCEPT ![t] = "ended"]
      BY <1>7, <2>2, <2>4 DEF SetRemaining, GoTo
    <3>2. ~Finalizing'
      BY <1>0, <1>2, <3>1 DEF Finalizing, FinPhase, TypeOK
    <3>3. Cardinality(Left) <= remaining'
      BY <1>5, <1>7, <2>1, <3>1
    <3> QED
      BY <1>1, <1>2, <3>2, <3>3 DEF Left
  <2> QED
    BY <2>3, <2>4
<1> QED
  BY <1>0, <1>6, <1>7

LEMMA RemainsStep ==
  ASSUME Faultless, CalmInv, Rows, Untouched, Debts, [Next]_vars
  PROVE  Remains' /\ AllClosed'
<1> USE DEF dbVars, memVars, runVars, taskVars, callVars, envVars
<1>0. TypeOK /\ NumSubs \in Nat
  BY RunnerAssumption DEF CalmInv
<1>1. CASE \E e \in Epochs : (DispatchEnd(e) /\ ~paused) \/ ScanEnd(e)
  BY <1>1, LoopEnd DEF Debts, Remains, AllClosed
<1>2. CASE \E t \in Tasks : TaskDone(t)
  BY <1>2, TaskEnd DEF Debts, Remains, AllClosed
<1>3. CASE /\ remaining' \in {remaining, Unset, MaxSafe}
           /\ Finalizing' => Finalizing
  <2>1. NoLoop => \A e \in Epochs : ~TargetInsert(e) /\ ~ScanEnqueue(e)
    BY DEF NoLoop, TargetInsert, ScanEnqueue, RunPhase
  <2>2. Remains'
    <3> SUFFICES ASSUME remaining' \in 1..NumSubs
                 PROVE  Cardinality(Queued' \cup Owing') <= remaining'
      BY DEF Remains
    <3>1. remaining' = remaining
      BY <1>0, <1>3 DEF MaxSafe
    <3>2. NoLoop /\ Cardinality(Queued \cup Owing) <= remaining
      BY <3>1 DEF CalmInv, Count, Enough, Debts, Remains
    <3>3. Queued' \cup Owing' \subseteq Queued \cup Owing
      BY <2>1, <3>2, DebtFalls
    <3>4. Queued \cup Owing \in SUBSET Subs
      BY OwingSet DEF Queued
    <3>5. IsFiniteSet(Queued \cup Owing) /\ Cardinality(Queued \cup Owing) \in Nat
      BY <3>4, SubsFinite
    <3>6. /\ Cardinality(Queued' \cup Owing') <= Cardinality(Queued \cup Owing)
          /\ Cardinality(Queued' \cup Owing') \in Nat
      BY <3>3, <3>5, FS_Subset, FS_CardinalityType
    <3> QED
      BY <3>1, <3>2, <3>5, <3>6
  <2>3. AllClosed'
    <3> SUFFICES ASSUME Finalizing' \/ status' = "sent" PROVE Queued' = {}
      BY DEF AllClosed
    <3>1. Finalizing \/ status = "sent"
      <4>1. CASE Finalizing'
        BY <1>3, <4>1
      <4>2. CASE status' = "sent" /\ status # "sent"
        <5>1. ~Restart /\ ~MaintenanceRead /\ ~MaintenanceWrite
          BY <1>0, NoSweep DEF Restart, Faultless, TypeOK, Debts, NeverFails, MaintenanceWrite
        <5>2. \E p \in Procs : FinalizeWrite(p)
          BY <1>0, <4>2, <5>1, StatusSteps DEF DispatchClaim, DispatchBegin, PauseWrite, ResumeClaim
        <5> QED
          BY <5>2 DEF FinalizeWrite, Finalizing, FinPhase
      <4> QED
        BY <4>1, <4>2
    <3>2. NoLoop /\ Queued = {}
      BY <3>1 DEF CalmInv, Count, LastOfAll, Rows, SentSettled, Debts, AllClosed
    <3> QED
      BY <2>1, <3>2, DebtFalls
  <2> QED
    BY <2>2, <2>3
<1> QED
  BY <1>1, <1>2, <1>3, CountSteps

LEMMA TargetedStep ==
  ASSUME Faultless, CalmInv, Rows, Untouched, NeverFails, Targeted, [Next]_vars
  PROVE  Targeted'
<1> USE DEF dbVars, memVars, runVars, taskVars, callVars, envVars
<1> DEFINE Ahead(s) ==
     \E e \in Epochs :
       \/ phase[<<e, 0>>] \in {"audience", "target", "insert"} /\ cursor[e] < s
       \/ phase[<<e, 0>>] = "insert" /\ <<s, TRUE>> \in picked[e]
<1> SUFFICES ASSUME NEW s \in Subs, row'[s] = "none", sub'[s] = "active",
                    status' # "draft", ~(dispatchClaims' > 0)
             PROVE  \E e \in Epochs :
                      \/ /\ phase'[<<e, 0>>] \in {"audience", "target", "insert"}
                         /\ cursor'[e] < s
                      \/ phase'[<<e, 0>>] = "insert" /\ <<s, TRUE>> \in picked'[e]
  BY DEF Targeted
<1>0. TypeOK /\ OnceInv /\ \A e \in Epochs : <<e, 0>> \in Procs
  BY ProcNames DEF CalmInv
<1>1. row[s] = "none" /\ sub[s] = "active"
  BY <1>0, SubStays, RowOpens
<1>2. ~Restart /\ ~MaintenanceRead /\ ~MaintenanceWrite /\ \A e \in Epochs : ~RunFault(e)
  BY <1>0, NoSweep
     DEF Restart, RunFault, Faultless, NoThrow, TypeOK, NeverFails, MaintenanceWrite
<1>3. CASE status = "draft"
  <2>1. DispatchClaim => dispatchClaims' > 0
    BY <1>0 DEF DispatchClaim, TypeOK
  <2>2. ~PauseWrite /\ ~ResumeClaim /\ ~DispatchBegin
    BY <1>0, <1>3 DEF PauseWrite, ResumeClaim, DispatchBegin, CalmInv, Control, Draft,
       NoCall, TypeOK
  <2>3. \A p \in Procs : ~FinalizeWrite(p)
    <3> SUFFICES ASSUME NEW p \in Procs, FinalizeWrite(p) PROVE FALSE
      OBVIOUS
    <3>1. IsBusy(p)
      BY DEF FinalizeWrite, IsBusy
    <3> QED
      BY <1>3, <3>1, AtWork DEF CalmInv, Count
  <2> QED
    BY <1>0, <1>2, <1>3, <2>1, <2>2, <2>3, StatusSteps
<1>4. CASE dispatchClaims > 0
  <2>1. DispatchBegin
    BY <1>0, <1>2, <1>4, StatusSteps
       DEF DispatchClaim, PauseWrite, ResumeClaim, FinalizeWrite, TypeOK
  <2>2. /\ epoch' \in Epochs /\ epoch' = epoch + 1 /\ cursor' = cursor
        /\ phase'[<<epoch', 0>>] = "audience"
    BY <2>1, BeginDispatch DEF CalmInv, DispatchBegin
  <2>3. phase[<<epoch', 0>>] = "none"
    BY <1>0, <2>2, RunnerAssumption DEF OnceInv, FreshRuns, TypeOK
  <2>4. cursor'[epoch'] < s
    BY <2>2, <2>3 DEF Untouched, Subs
  <2> QED
    BY <2>2, <2>4
<1>5. CASE Ahead(s)
  <2>1. PICK e \in Epochs :
          \/ phase[<<e, 0>>] \in {"audience", "target", "insert"} /\ cursor[e] < s
          \/ phase[<<e, 0>>] = "insert" /\ <<s, TRUE>> \in picked[e]
    BY <1>5
  <2>2. CASE UNCHANGED <<phase[<<e, 0>>], cursor[e], picked[e]>>
    BY <2>1, <2>2
  <2>3. CASE RunStep(e)
    <3>1. CASE AudienceResolved(e)
      BY <1>0, <2>1, <3>1 DEF AudienceResolved, GoTo, TypeOK
    <3>2. CASE TargetRead(e)
      <4> DEFINE live == {r \in {q \in Subs : cursor[e] < q /\ q <= cursor[e] + BatchSize} :
                            sub[r] = "active"}
      <4>1. /\ picked'[e] = live \X {TRUE}
            /\ phase'[<<e, 0>>] = IF live = {} THEN "target" ELSE "insert"
            /\ cursor'[e] = IF cursor[e] + BatchSize <= NumSubs
                            THEN cursor[e] + BatchSize ELSE NumSubs
            /\ phase[<<e, 0>>] = "target"
        BY <1>0, <3>2 DEF TargetRead, GoTo, TypeOK
      <4>2. cursor[e] < s
        BY <2>1, <4>1
      <4>3. CASE s <= cursor[e] + BatchSize
        <5>1. s \in live
          BY <1>1, <4>2, <4>3
        <5> QED
          BY <4>1, <5>1
      <4>4. CASE ~(s <= cursor[e] + BatchSize)
        <5>1. cursor[e] \in Nat /\ s \in 1..NumSubs
          BY <1>0 DEF TypeOK, Subs
        <5> HIDE DEF live
        <5>2. cursor'[e] < s
          BY <4>1, <4>4, <5>1, RunnerAssumption
        <5> QED
          BY <4>1, <5>2
      <4> QED
        BY <4>3, <4>4
    <3>3. CASE TargetInsert(e)
      <4>1. s \notin {x[1] : x \in picked[e]}
        BY <3>3 DEF TargetInsert
      <4>2. <<s, TRUE>> \notin picked[e]
        BY <4>1
      <4>3. cursor[e] < s /\ cursor' = cursor
        BY <2>1, <3>3, <4>2 DEF TargetInsert
      <4>4. phase'[<<e, 0>>] = "target"
        <5>1. \A x \in picked[e] : x[1] # 0
          BY <1>0 DEF TypeOK, Subs
        <5>2. <<e, 0>>[1] = e /\ <<e, 0>>[2] = 0 /\ 0 \notin {x[1] : x \in picked[e]}
          BY <5>1
        <5> QED
          BY <1>0, <3>3, <5>2 DEF TargetInsert
      <4> QED
        BY <4>3, <4>4
    <3>4. CASE DispatchEnd(e)
      BY <2>1, <3>4, RunnerAssumption DEF DispatchEnd, Subs
    <3>5. CASE ScanRead(e) \/ ScanEnqueue(e) \/ ScanEnd(e)
      BY <2>1, <3>5 DEF ScanRead, ScanEnqueue, ScanEnd
    <3> QED
      BY <2>3, <3>1, <3>2, <3>3, <3>4, <3>5 DEF RunStep
  <2>4. CASE phase[<<e, 0>>] \in FinPhase
    BY <2>1, <2>4 DEF FinPhase
  <2>5. CASE DispatchBegin \/ ResumeBegin
    <3>1. AllRest
      BY <2>5, BeginDispatch, BeginResume DEF CalmInv
    <3> QED
      BY <1>0, <2>1, <3>1 DEF AllRest, IsBusy
  <2> QED
    BY <1>0, <1>2, <2>2, <2>3, <2>4, <2>5, LoopSteps
<1> QED
  BY <1>1, <1>3, <1>4, <1>5 DEF Targeted

LEMMA DebtsStep ==
  ASSUME Faultless, SentInv, [Next]_vars
  PROVE  SentInv'
<1>1. CalmInv'
  BY CalmStep DEF SentInv, Faultless
<1>2. Rows'
  BY RowsStep DEF SentInv, Faultless
<1>3. Untouched'
  BY UntouchedStep DEF SentInv
<1>4. NeverFails'
  BY NeverFailsStep DEF SentInv, Debts
<1>5. Targeted'
  BY TargetedStep DEF SentInv, Debts
<1>6. Recorded'
  BY RecordedStep DEF SentInv, Debts
<1>7. Taken'
  BY TakenStep DEF SentInv, Debts
<1>8. Consumes'
  BY ConsumesStep DEF SentInv, Debts
<1>9. Remains' /\ AllClosed'
  BY RemainsStep DEF SentInv
<1> QED
  BY <1>1, <1>2, <1>3, <1>4, <1>5, <1>6, <1>7, <1>8, <1>9 DEF SentInv, Debts

LEMMA DebtsInit == Init => SentInv
<1> SUFFICES ASSUME Init PROVE SentInv
  OBVIOUS
<1>1. /\ \A p \in Procs : phase[p] = "none"
      /\ \A t \in Tasks : phase[t] = "none"
      /\ \A e \in Epochs : phase[<<e, 0>>] = "none"
      /\ status = "draft" /\ remaining = Unset /\ maint = "idle"
  BY ProcNames DEF Init
<1>2. Debts
  BY <1>1 DEF Debts, NeverFails, Targeted, Recorded, Taken, Consumes, Remains, AllClosed,
     Adding, Finalizing, FinPhase
<1> QED
  BY <1>2, CalmInit, RowsInit, UntouchedInit DEF SentInv

\* A campaign is marked "sent" only when every lead of its audience that is still
\* subscribed has been tried, also when it was paused or resumed while leads were
\* still being targeted (campaign-runner.service.ts:511-639, 664).
THEOREM SentIsComplete ==
  ASSUME Faultless PROVE Spec => []Complete
<1>1. SentInv /\ [Next]_vars => SentInv'
  BY DebtsStep
<1>2. SentInv => Complete
  <2> SUFFICES ASSUME SentInv, status = "sent", NEW s \in Subs
               PROVE  \/ row[s] \in {"sent", "expired", "failed"}
                      \/ row[s] = "none" /\ sub[s] # "active"
    BY DEF Complete
  <2>1. row[s] # "queued"
    BY DEF SentInv, Debts, AllClosed, Queued
  <2>2. NoLoop
    BY DEF SentInv, Rows, SentSettled
  <2>3. ~(dispatchClaims > 0)
    BY DEF SentInv, CalmInv, Control, Claimed, Claims, TypeOK
  <2>4. row[s] = "none" => sub[s] # "active"
    BY <2>2, <2>3 DEF SentInv, Debts, Targeted, NoLoop, RunPhase
  <2> QED
    BY <2>1, <2>4 DEF SentInv, CalmInv, TypeOK, SendStatus
<1> QED
  BY <1>1, <1>2, DebtsInit, PTL DEF Spec

-----------------------------------------------------------------------------
\* The refinement.

Given == [s \in Subs |-> Delivered(s) # {}]

KeepInv == SentInv /\ Single /\ Unique /\ HonestInv

LEMMA GivenIff ==
  ASSUME NEW s \in Subs
  PROVE  /\ Given[s] <=> \E t \in Tasks : t[2] = s /\ pushed[t] > 0
         /\ Given'[s] <=> \E t \in Tasks : t[2] = s /\ pushed'[t] > 0
<1>1. ASSUME NEW t \in Tasks, t[2] = s
      PROVE  t[1] \in Epochs /\ t = <<t[1], s>>
  BY <1>1, ProcNames
<1>2. ASSUME NEW e \in Epochs
      PROVE  <<e, s>> \in Tasks /\ <<e, s>>[2] = s
  BY <1>2, ProcNames
<1>3. Given[s] <=> \E e \in Epochs : pushed[<<e, s>>] > 0
  BY DEF Given, Delivered
<1>4. Given'[s] <=> \E e \in Epochs : pushed'[<<e, s>>] > 0
  BY DEF Given, Delivered
<1>5. Given[s] <=> \E t \in Tasks : t[2] = s /\ pushed[t] > 0
  BY <1>1, <1>2, <1>3
<1>6. Given'[s] <=> \E t \in Tasks : t[2] = s /\ pushed'[t] > 0
  BY <1>1, <1>2, <1>4
<1> QED
  BY <1>5, <1>6

\* A step that pushes nobody and touches no row moves the status as promised.
LEMMA KeepsStatus ==
  ASSUME Faultless, KeepInv, [Next]_vars, row' = row, Given' = Given
  PROVE  Contract!Launch \/ Contract!Pause \/ Contract!Resume \/ Contract!Finish
         \/ UNCHANGED <<status, row, Given>>
<1> USE DEF dbVars, memVars, runVars, taskVars, callVars, envVars
<1>0. TypeOK /\ CalmInv /\ Rows
  BY DEF KeepInv, SentInv, CalmInv
<1>1. ~Restart /\ ~MaintenanceRead /\ ~MaintenanceWrite
  BY <1>0, NoSweep
     DEF Restart, Faultless, TypeOK, KeepInv, SentInv, Debts, NeverFails, MaintenanceWrite
<1>2. CASE DispatchClaim
  BY <1>2 DEF DispatchClaim, Contract!Launch, Given
<1>3. CASE PauseWrite
  <2>1. status \in {"sending", "sent"}
    BY <1>0, <1>3 DEF PauseWrite, CalmInv, Control, Pausing, TypeOK
  <2> QED
    BY <1>3, <2>1 DEF PauseWrite, Contract!Pause, Given
<1>4. CASE ResumeClaim
  BY <1>4 DEF ResumeClaim, Contract!Resume, Given, KeepInv, SentInv, Debts, NeverFails
<1>5. CASE \E p \in Procs : FinalizeWrite(p)
  <2>1. PICK p \in Procs : FinalizeWrite(p)
    BY <1>5
  <2>2. IsBusy(p) /\ Finalizing /\ status' = "sent"
    BY <2>1 DEF FinalizeWrite, IsBusy, Finalizing, FinPhase
  <2>3. status \in {"sending", "paused", "sent"}
    BY <1>0, <2>2, AtWork DEF CalmInv, Count
  <2>4. \A s \in Subs : row[s] # "queued"
    BY <2>2 DEF KeepInv, SentInv, Debts, AllClosed, Queued
  <2> QED
    BY <2>2, <2>3, <2>4 DEF Contract!Finish, Given
<1>6. CASE UNCHANGED status
  BY <1>6
<1> QED
  BY <1>0, <1>1, <1>2, <1>3, <1>4, <1>5, <1>6, StatusSteps DEF DispatchBegin

\* A delivered push is the lead's first, and its row is open.
LEMMA KeepsPush ==
  ASSUME KeepInv, [Next]_vars, NEW t \in Tasks, PushDelivered(t)
  PROVE  Contract!Push(t[2]) /\ t[2] \in Subs
<1>0. TypeOK /\ CalmInv /\ Rows /\ Single /\ t \in Procs /\ t[2] \in Subs
  BY ProcNames DEF KeepInv, SentInv, CalmInv
<1>1. /\ phase[t] = "pushing" /\ row' = row /\ status' = status
      /\ pushed' = [pushed EXCEPT ![t] = @ + 1]
  BY DEF PushDelivered, PushEnds, dbVars
<1>2. Owes(t) /\ phase[t] \in Open /\ row[t[2]] = "queued"
  BY <1>0, <1>1 DEF Owes, ActPhase, Open, Rows, RowsOwed
<1>3. ~Given[t[2]]
  <2> SUFFICES ASSUME NEW u \in Tasks, u[2] = t[2], pushed[u] > 0 PROVE FALSE
    BY <1>0, GivenIff
  <2> QED
    BY <1>0, <1>1, <1>2, OpenLead
<1>4. pushed'[t] > 0 /\ \A u \in Tasks : u # t => pushed'[u] = pushed[u]
  BY <1>0, <1>1 DEF TypeOK
<1>5. Given'[t[2]]
  BY <1>0, <1>4, GivenIff
<1>6. \A s \in Subs : s # t[2] => (Given'[s] <=> Given[s])
  BY <1>4, GivenIff
<1>7. Given' = [Given EXCEPT ![t[2]] = TRUE]
  <2>1. \A s \in Subs : Given'[s] = [Given EXCEPT ![t[2]] = TRUE][s]
    BY <1>0, <1>5, <1>6 DEF Given
  <2> QED
    BY <2>1 DEF Given
<1> QED
  BY <1>0, <1>1, <1>2, <1>3, <1>7 DEF Contract!Push, Given

\* Leads are targeted, and rows closed, as promised.
LEMMA KeepsRows ==
  ASSUME Faultless, KeepInv, [Next]_vars, row' # row, Given' = Given
  PROVE  Contract!Next
<1> USE DEF dbVars, memVars, runVars, taskVars, callVars, envVars
<1>0. TypeOK /\ OnceInv /\ CalmInv /\ Rows /\ Single /\ Untouched
  BY DEF KeepInv, SentInv, CalmInv
<1>1. ASSUME NEW e \in Epochs, TargetInsert(e)
      PROVE  \E S \in SUBSET Subs : Contract!Queue(S)
  <2> DEFINE S == {x[1] : x \in picked[e]}
  <2>1. S \in SUBSET Subs
    BY <1>0 DEF TypeOK
  <2>2. status \in {"sending", "paused"}
    BY <1>0, <1>1, RowWorks, LoopWorks DEF TargetInsert, RunPhase
  <2>3. \A s \in S : row[s] = "none"
    BY <1>0, <1>1 DEF TargetInsert, Untouched
  <2>4. /\ row' = [s \in Subs |-> IF s \in S THEN "queued" ELSE row[s]]
        /\ status' = status
    BY <1>1 DEF TargetInsert
  <2> HIDE DEF S
  <2>5. Contract!Queue(S)
    BY <2>2, <2>3, <2>4 DEF Contract!Queue, Given
  <2> QED
    BY <2>1, <2>5
<1>2. ASSUME NEW e \in Epochs, ScanEnqueue(e)
      PROVE  \E S \in SUBSET Subs : Contract!Close(S, "failed")
  <2> DEFINE S == {s \in Subs : <<s, FALSE>> \in picked[e]}
  <2>1. \A s \in Subs : s \in S <=> <<s, FALSE>> \in picked[e]
    OBVIOUS
  <2>2. S \in SUBSET Subs
    OBVIOUS
  <2> HIDE DEF S
  <2>3. phase[<<e, 0>>] = "enqueue" /\ phase[<<e, 0>>] \in RunPhase /\ status' = status
    BY <1>2 DEF ScanEnqueue, RunPhase
  <2>4. row' = [s \in Subs |-> IF s \in S THEN "failed" ELSE row[s]]
    BY <1>2, <2>1 DEF ScanEnqueue
  <2>5. ASSUME NEW s \in S PROVE row[s] = "queued" /\ ~Given[s]
    <3>1. s \in Subs /\ <<s, FALSE>> \in picked[e]
      BY <2>1, <2>2
    <3>2. row[<<s, FALSE>>[1]] = "queued" /\ phase[<<e, <<s, FALSE>>[1]>>] = "none"
      BY <1>0, <2>3, <3>1 DEF Rows, PageOpen, OnceInv, CursorPassed
    <3>3. row[s] = "queued" /\ phase[<<e, s>>] = "none"
      BY <3>2
    <3>4. ASSUME NEW u \in Tasks, u[2] = s, pushed[u] > 0 PROVE FALSE
      <4>1. phase[u] = "row"
        BY <1>0, <3>3, <3>4 DEF Single
      <4>2. Owes(u)
        BY <4>1 DEF Owes, ActPhase
      <4>3. u[1] = e
        BY <1>0, <2>3, <4>2, LoopWorks
      <4> QED
        BY <3>3, <3>4, <4>1, <4>3, ProcNames
    <3> QED
      BY <3>1, <3>3, <3>4, GivenIff
  <2>6. Contract!Close(S, "failed")
    BY <2>3, <2>4, <2>5 DEF Contract!Close, Given
  <2> QED
    BY <2>2, <2>6
<1>3. ASSUME NEW t \in Tasks, RecordRow(t)
      PROVE  \E S \in SUBSET Subs, o \in {"sent", "expired", "failed"} : Contract!Close(S, o)
  <2>1. /\ phase[t] = "row" /\ status' = status /\ t[2] \in Subs
        /\ row' = [row EXCEPT ![t[2]] = outcome[t]]
    BY <1>3, ProcNames DEF RecordRow
  <2>2. outcome[t] \in {"sent", "expired", "failed"}
    BY <1>0, <2>1 DEF Rows, OutcomeKnown, TypeOK, Outcome
  <2>3. Owes(t) /\ phase[t] \in Open /\ row[t[2]] = "queued"
    BY <1>0, <2>1 DEF Owes, ActPhase, Open, Rows, RowsOwed
  <2>4. Given[t[2]] => outcome[t] = "sent"
    <3> SUFFICES ASSUME NEW u \in Tasks, u[2] = t[2], pushed[u] > 0
                 PROVE  outcome[t] = "sent"
      BY <2>1, GivenIff
    <3> QED
      BY <1>0, <2>3, OpenLead
  <2>5. outcome[t] = "sent" => Given[t[2]]
    BY <2>1, GivenIff DEF KeepInv, HonestInv
  <2>6. row' = [s \in Subs |-> IF s \in {t[2]} THEN outcome[t] ELSE row[s]]
    BY <1>0, <2>1 DEF TypeOK
  <2>7. Contract!Close({t[2]}, outcome[t])
    BY <2>1, <2>3, <2>4, <2>5, <2>6 DEF Contract!Close, Given
  <2> QED
    BY <2>1, <2>2, <2>7
<1> QED
  BY <1>1, <1>2, <1>3, RowSteps DEF Contract!Next

LEMMA KeepsNext ==
  ASSUME Faultless, KeepInv, [Next]_vars
  PROVE  [Contract!Next]_Contract!vars
<1>0. TypeOK /\ CalmInv
  BY DEF KeepInv, SentInv, CalmInv
<1>1. CASE \E t \in Tasks : pushed'[t] # pushed[t]
  <2>1. PICK t \in Tasks : PushDelivered(t)
    BY <1>0, <1>1, PushSteps
  <2> QED
    BY <2>1, KeepsPush DEF Contract!Next
<1>2. CASE \A t \in Tasks : pushed'[t] = pushed[t]
  <2>1. Given' = Given
    <3>1. \A s \in Subs : Given'[s] <=> Given[s]
      BY <1>2, GivenIff
    <3> QED
      BY <3>1 DEF Given
  <2>2. CASE row' = row
    BY <2>1, <2>2, KeepsStatus DEF Contract!Next, Contract!vars, Given
  <2>3. CASE row' # row
    BY <2>1, <2>3, KeepsRows
  <2> QED
    BY <2>2, <2>3
<1> QED
  BY <1>1, <1>2

LEMMA KeepsInit == Init => Contract!Init
<1> SUFFICES ASSUME Init PROVE Contract!Init
  OBVIOUS
<1>1. \A s \in Subs : Delivered(s) = {}
  BY ProcNames DEF Init, Delivered
<1> QED
  BY <1>1 DEF Init, Contract!Init

\* CampaignRunner implements BlastContract: with one push per lead and nothing else
\* than rows and status to see, a blast launches, queues, pushes, closes rows
\* truthfully, and finishes when no row is open
\* (campaign-runner.service.ts:455-690).
THEOREM RunnerKeepsContract ==
  ASSUME Faultless PROVE Spec => KeepsContract
<1>1. Init => KeepInv
  <2>1. Init => HonestInv
    BY DEF Init, HonestInv
  <2> QED
    BY <2>1, DebtsInit, CloseInit DEF KeepInv, CloseInv
<1>2. KeepInv /\ [Next]_vars => KeepInv'
  <2> SUFFICES ASSUME KeepInv, [Next]_vars PROVE KeepInv'
    OBVIOUS
  <2>1. SentInv'
    BY DebtsStep DEF KeepInv
  <2>2. Single' /\ Unique'
    BY SingleStep DEF KeepInv, SentInv, Faultless, NoThrow, NoLoss
  <2>3. HonestInv'
    BY HonestStep DEF KeepInv, SentInv, CalmInv
  <2> QED
    BY <2>1, <2>2, <2>3 DEF KeepInv
<1>3. KeepInv /\ [Next]_vars => [Contract!Next]_Contract!vars
  BY KeepsNext
<1> QED
  BY <1>1, <1>2, <1>3, KeepsInit, PTL DEF Spec, KeepsContract, Contract!Spec
=============================================================================
