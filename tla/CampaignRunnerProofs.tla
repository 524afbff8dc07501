------------------------ MODULE CampaignRunnerProofs ------------------------
(***************************************************************************)
(* What CampaignRunner guarantees for every audience, batch size, pool     *)
(* size and number of pauses, resumes, restarts and faults.                *)
(*                                                                         *)
(* Up to OnceHolds operators need not be patient.  The rest is the send    *)
(* engine when they let each request settle: which process may be at work, *)
(* and what the completion count counts.  FinalizeIsLast and PauseHolds    *)
(* follow, for every audience, batch, pool and number of retries.          *)
(*                                                                         *)
(* Neither property is inductive. finalize() is called when a count        *)
(* reaches zero, so the argument is about the count: it is never less than *)
(* the number of tasks that may still act (Owing), while a loop adds tasks *)
(* and while tasks take themselves off (Count). For that one run must be   *)
(* at work at a time, although a run is superseded by a mere change of an  *)
(* epoch; this is what the operators' patience gives, and Control says it. *)
(*                                                                         *)
(* Calm is needed. Without patience a push in flight outlives its run, as  *)
(* the run bug_double_push shows. When statements may throw and campaigns  *)
(* may be paused as well, the hourly sweep may find the campaign without a *)
(* run just before a resume and close it while the resumed run works.      *)
(*                                                                         *)
(* Rows: the counters agree with the rows in the end, pushes go to open    *)
(* rows, and a delivered push is not labelled as failed.  It rests on      *)
(* Control and Count: a task that may still push has an open row, because  *)
(* nobody else is at work on it; what finalize() has counted stays true    *)
(* until it writes it, because nobody else is at work at all.              *)
(***************************************************************************)
EXTENDS CampaignRunner, FiniteSetTheorems, TLAPS

LEMMA SubsFinite ==
  ASSUME NEW S \in SUBSET Subs
  PROVE  IsFiniteSet(S) /\ Cardinality(S) \in Nat
<1>1. IsFiniteSet(Subs)
  BY RunnerAssumption, FS_Interval DEF Subs
<1>2. IsFiniteSet(S)
  BY <1>1, FS_Subset
<1> QED
  BY <1>2, FS_CardinalityType

LEMMA CountsAreNat ==
  /\ \A st : CountRows(st) \in Nat
  /\ \A e : Added(e) \in Nat
  /\ RowTally \in Tally
<1>1. ASSUME NEW st PROVE CountRows(st) \in Nat
  BY SubsFinite DEF CountRows
<1>2. ASSUME NEW e PROVE Added(e) \in Nat
  BY SubsFinite DEF Added
<1> QED
  BY <1>1, <1>2 DEF RowTally, Tally

\* Names of processes and the missing entry are always expanded.
USE DEF Procs, Runs, Tasks, Unset

LEMMA SetRemainingType ==
  ASSUME TypeOK, NEW p, NEW n \in Int, SetRemaining(p, n)
  PROVE  /\ remaining' \in {Unset} \cup Nat
         /\ consumed' \in Nat
         /\ phase' \in [Procs -> Phase]
BY DEF TypeOK, SetRemaining, GoTo, Phase, FinPhase

LEMMA GoToType ==
  ASSUME TypeOK, NEW p, NEW l \in Phase, GoTo(p, l)
  PROVE  phase' \in [Procs -> Phase]
BY DEF TypeOK, GoTo

LEMMA SpendType ==
  ASSUME TypeOK,
         \/ Spend("pauses") \/ Spend("resumes") \/ Spend("crashes")
         \/ Spend("faults") \/ Spend("aborts")
  PROVE  used' \in [pauses : Nat, resumes : Nat, crashes : Nat,
                   faults : Nat, aborts : Nat]
<1> DEFINE Budgets == [pauses : Nat, resumes : Nat, crashes : Nat,
                       faults : Nat, aborts : Nat]
<1>1. used \in Budgets
  BY DEF TypeOK
<1>2. CASE Spend("pauses")
  BY <1>1, <1>2 DEF Spend
<1>3. CASE Spend("resumes")
  BY <1>1, <1>3 DEF Spend
<1>4. CASE Spend("crashes")
  BY <1>1, <1>4 DEF Spend
<1>5. CASE Spend("faults")
  BY <1>1, <1>5 DEF Spend
<1>6. CASE Spend("aborts")
  BY <1>1, <1>6 DEF Spend
<1> QED
  BY <1>2, <1>3, <1>4, <1>5, <1>6

LEMMA InitTypeOK == Init => TypeOK
<1> SUFFICES ASSUME Init PROVE TypeOK
  OBVIOUS
<1>1. /\ status \in {"draft", "sending", "paused", "sent", "failed"}
      /\ row \in [Subs -> SendStatus]
      /\ sub \in [Subs -> {"active", "unsubscribed", "expired"}]
      /\ totals \in Tally
  BY DEF Init, SendStatus, Tally, NoTally
<1>2. /\ remaining \in {Unset} \cup Nat
      /\ consumed \in Nat
      /\ paused \in BOOLEAN
      /\ epoch \in Nat
  BY DEF Init
<1>3. /\ phase \in [Procs -> Phase]
      /\ cursor \in [Epochs -> 0..NumSubs]
      /\ picked \in [Epochs -> SUBSET (Subs \X BOOLEAN)]
  BY RunnerAssumption DEF Init, Phase
<1>4. /\ attempt \in [Tasks -> Nat]
      /\ outcome \in [Tasks -> Outcome]
      /\ pushed \in [Tasks -> Nat]
      /\ tally \in [Procs -> Tally]
  BY DEF Init, Outcome, Tally, NoTally
<1>5. /\ dispatchClaims \in Nat /\ resumeClaims \in Nat
      /\ pauseReads \in Nat /\ pauseWrites \in Nat
      /\ maint \in {"idle", "closing"}
      /\ rowId \in [Subs -> Subs]
      /\ used \in [pauses : Nat, resumes : Nat, crashes : Nat,
                   faults : Nat, aborts : Nat]
  BY DEF Init
<1> QED
  BY <1>1, <1>2, <1>3, <1>4, <1>5 DEF TypeOK

LEMMA DispatchType ==
  ASSUME TypeOK, NEW e \in Epochs,
         \/ DispatchClaim \/ DispatchBegin \/ AudienceResolved(e)
         \/ TargetRead(e) \/ TargetInsert(e) \/ DispatchEnd(e)
  PROVE  TypeOK'
<1> USE DEF dbVars, memVars, runVars, taskVars, callVars, envVars
<1>1. CASE DispatchClaim
  BY <1>1 DEF DispatchClaim, TypeOK, NoTally, Tally
<1>2. CASE DispatchBegin
  <2>1. phase' \in [Procs -> Phase]
    BY <1>2, GoToType DEF DispatchBegin, Phase, RunPhase
  <2> QED
    <3>1. dispatchClaims' \in Nat /\ epoch' \in Nat
      BY <1>2 DEF DispatchBegin, TypeOK
    <3>3. paused' \in BOOLEAN
      BY <1>2 DEF DispatchBegin
    <3>2. UNCHANGED <<dbVars, remaining, consumed, runVars, taskVars, tally,
                      resumeClaims, pauseReads, pauseWrites, maint, envVars>>
      BY <1>2 DEF DispatchBegin
    <3> QED
      BY <2>1, <3>1, <3>2, <3>3 DEF TypeOK
<1>3. CASE AudienceResolved(e)
  BY <1>3, RunnerAssumption DEF AudienceResolved, TypeOK, GoTo, Phase, RunPhase, MaxSafe
<1>4. CASE TargetRead(e)
  <2> DEFINE chunk == {s \in Subs : cursor[e] < s /\ s <= cursor[e] + BatchSize}
             live  == {s \in chunk : sub[s] = "active"}
             next  == IF cursor[e] + BatchSize <= NumSubs
                      THEN cursor[e] + BatchSize ELSE NumSubs
  <2>1. live \X {TRUE} \in SUBSET (Subs \X BOOLEAN)
    OBVIOUS
  <2>2. next \in 0..NumSubs
    BY <1>4, RunnerAssumption DEF TypeOK
  <2>3. cursor' = [cursor EXCEPT ![e] = next]
    BY <1>4 DEF TargetRead
  <2>4. picked' = [picked EXCEPT ![e] = live \X {TRUE}]
    BY <1>4 DEF TargetRead
  <2>5. phase' \in [Procs -> Phase]
    BY <1>4, GoToType DEF TargetRead, Phase, RunPhase
  <2>6. UNCHANGED <<dbVars, memVars, taskVars, tally, callVars, envVars>>
    BY <1>4 DEF TargetRead
  <2> HIDE DEF live, next
  <2> QED
    BY <2>1, <2>2, <2>3, <2>4, <2>5, <2>6 DEF TypeOK
<1>5. CASE TargetInsert(e)
  BY <1>5 DEF TargetInsert, TypeOK, Phase, RunPhase, TaskPhase, SendStatus
<1>6. CASE DispatchEnd(e)
  <2>1. CASE paused
    BY <1>6, <2>1 DEF DispatchEnd, TypeOK, GoTo, Phase
  <2>2. CASE ~paused
    <3>1. (IF Added(e) = 0 THEN 0 ELSE Added(e) - consumed) \in Int
      BY CountsAreNat DEF TypeOK
    <3>2. SetRemaining(<<e, 0>>, IF Added(e) = 0 THEN 0 ELSE Added(e) - consumed)
      BY <1>6, <2>2 DEF DispatchEnd
    <3>3. /\ remaining' \in {Unset} \cup Nat
          /\ consumed' \in Nat
          /\ phase' \in [Procs -> Phase]
      BY <3>1, <3>2, SetRemainingType
    <3> QED
      BY <1>6, <3>3 DEF DispatchEnd, TypeOK
  <2> QED
    BY <2>1, <2>2
<1> QED
  BY <1>1, <1>2, <1>3, <1>4, <1>5, <1>6

LEMMA PauseType ==
  ASSUME TypeOK, PauseRead \/ PauseMark \/ PauseWrite
  PROVE  TypeOK'
<1> USE DEF dbVars, memVars, runVars, taskVars, callVars, envVars
<1>1. CASE PauseRead
  <2>1. used' \in [pauses : Nat, resumes : Nat, crashes : Nat,
                   faults : Nat, aborts : Nat]
    BY <1>1, SpendType DEF PauseRead
  <2>2. pauseReads' \in Nat
    BY <1>1 DEF PauseRead, TypeOK
  <2>3. UNCHANGED <<dbVars, memVars, phase, runVars, taskVars, tally,
                    dispatchClaims, resumeClaims, pauseWrites, maint, rowId>>
    BY <1>1 DEF PauseRead
  <2> QED
    BY <2>1, <2>2, <2>3 DEF TypeOK
<1>2. CASE PauseMark
  BY <1>2 DEF PauseMark, TypeOK
<1>3. CASE PauseWrite
  BY <1>3 DEF PauseWrite, TypeOK
<1> QED
  BY <1>1, <1>2, <1>3

LEMMA ResumeType ==
  ASSUME TypeOK, NEW e \in Epochs,
         \/ ResumeClaim \/ ResumeBegin
         \/ ScanRead(e) \/ ScanEnqueue(e) \/ ScanEnd(e)
  PROVE  TypeOK'
<1> USE DEF dbVars, memVars, runVars, taskVars, callVars, envVars
<1>1. CASE ResumeClaim
  <2>1. used' \in [pauses : Nat, resumes : Nat, crashes : Nat,
                   faults : Nat, aborts : Nat]
    BY <1>1, SpendType DEF ResumeClaim
  <2>2. resumeClaims' \in Nat /\ status' = "sending"
    BY <1>1 DEF ResumeClaim, TypeOK
  <2>3. UNCHANGED <<row, sub, totals, memVars, phase, runVars, taskVars, tally,
                    dispatchClaims, pauseReads, pauseWrites, maint, rowId>>
    BY <1>1 DEF ResumeClaim
  <2> QED
    BY <2>1, <2>2, <2>3 DEF TypeOK
<1>2. CASE ResumeBegin
  <2>1. phase' \in [Procs -> Phase]
    BY <1>2, GoToType DEF ResumeBegin, Phase, RunPhase
  <2> QED
    <3>1. resumeClaims' \in Nat /\ epoch' \in Nat /\ remaining' \in Nat
      BY <1>2, RunnerAssumption DEF ResumeBegin, TypeOK, MaxSafe
    <3>3. paused' \in BOOLEAN
      BY <1>2 DEF ResumeBegin
    <3>2. UNCHANGED <<dbVars, consumed, runVars, taskVars, tally, dispatchClaims,
                      pauseReads, pauseWrites, maint, envVars>>
      BY <1>2 DEF ResumeBegin
    <3> QED
      BY <2>1, <3>1, <3>2, <3>3 DEF TypeOK
<1>3. CASE ScanRead(e)
  <2> DEFINE page == {s \in Unread(e) :
                Cardinality({r \in Unread(e) : rowId[r] < rowId[s]}) < BatchSize}
             batch == {<<s, sub[s] = "active">> : s \in page}
  <2>1. page \in SUBSET Subs
    BY DEF Unread
  <2>2. batch \in SUBSET (Subs \X BOOLEAN)
    <3>1. \A s \in page : <<s, sub[s] = "active">> \in Subs \X BOOLEAN
      BY <2>1
    <3> QED
      BY <3>1
  <2>3. PICK last \in page : cursor' = [cursor EXCEPT ![e] = rowId[last]]
    BY <1>3 DEF ScanRead
  <2>4. rowId[last] \in 0..NumSubs
    <3>1. last \in Subs
      BY <2>1, <2>3
    <3>2. rowId[last] \in Subs
      BY <3>1 DEF TypeOK
    <3> QED
      BY <3>2, RunnerAssumption DEF Subs
  <2>5. picked' = [picked EXCEPT ![e] = batch]
    BY <1>3 DEF ScanRead
  <2>6. phase' \in [Procs -> Phase]
    BY <1>3, GoToType DEF ScanRead, Phase, RunPhase
  <2> HIDE DEF page, batch
  <2> QED
    BY <1>3, <2>2, <2>3, <2>4, <2>5, <2>6 DEF ScanRead, TypeOK
<1>4. CASE ScanEnqueue(e)
  BY <1>4 DEF ScanEnqueue, TypeOK, Phase, RunPhase, TaskPhase, SendStatus
<1>5. CASE ScanEnd(e)
  <2>1. (IF Added(e) = 0 THEN 0 ELSE Added(e) - consumed) \in Int
    BY CountsAreNat DEF TypeOK
  <2>2. /\ remaining' \in {Unset} \cup Nat
        /\ consumed' \in Nat
        /\ phase' \in [Procs -> Phase]
    BY <1>5, <2>1, SetRemainingType DEF ScanEnd
  <2> QED
    BY <1>5, <2>2 DEF ScanEnd, TypeOK
<1> QED
  BY <1>1, <1>2, <1>3, <1>4, <1>5

LEMMA TaskType ==
  ASSUME TypeOK, NEW t \in Tasks, TaskStep(t)
  PROVE  TypeOK'
<1> USE DEF dbVars, memVars, runVars, taskVars, callVars, envVars
<1>1. CASE TaskStart(t)
  <2>1. phase' \in [Procs -> Phase]
    BY <1>1, GoToType DEF TaskStart, Phase, TaskPhase
  <2> QED
    BY <1>1, <2>1 DEF TaskStart, TypeOK
<1>2. CASE TaskPaced(t)
  <2>1. phase' \in [Procs -> Phase]
    BY <1>2, GoToType DEF TaskPaced, Phase, TaskPhase
  <2> QED
    BY <1>2, <2>1 DEF TaskPaced, TypeOK
<1>3. ASSUME NEW o \in {"sent", "expired", "failed"}, PushEnds(t, o),
             \/ pushed' = pushed
             \/ pushed' = [pushed EXCEPT ![t] = @ + 1]
      PROVE  TypeOK'
  <2>1. phase' \in [Procs -> Phase]
    BY <1>3, GoToType DEF PushEnds, Phase, TaskPhase
  <2> QED
    BY <1>3, <2>1 DEF PushEnds, TypeOK, Outcome
<1>4. CASE PushThrottled(t)
  <2>1. phase' \in [Procs -> Phase]
    BY <1>4, GoToType DEF PushThrottled, Phase, TaskPhase
  <2> QED
    BY <1>4, <2>1 DEF PushThrottled, TypeOK
<1>5. CASE PushRetry(t)
  <2>1. phase' \in [Procs -> Phase]
    BY <1>5, GoToType DEF PushRetry, Phase, TaskPhase
  <2> QED
    BY <1>5, <2>1 DEF PushRetry, TypeOK
<1>6. CASE RecordRow(t)
  <2>1. phase' \in [Procs -> Phase]
    BY <1>6, GoToType DEF RecordRow, Phase, TaskPhase
  <2>2. row' \in [Subs -> SendStatus]
    BY <1>6 DEF RecordRow, TypeOK, Outcome, SendStatus
  <2> QED
    BY <1>6, <2>1, <2>2 DEF RecordRow, TypeOK
<1>7. CASE RecordLead(t)
  <2>1. phase' \in [Procs -> Phase]
    BY <1>7, GoToType DEF RecordLead, Phase, TaskPhase
  <2> QED
    BY <1>7, <2>1 DEF RecordLead, TypeOK
<1>8. CASE RecordTotal(t)
  <2>1. phase' \in [Procs -> Phase]
    BY <1>8, GoToType DEF RecordTotal, Phase, TaskPhase
  <2>2. totals' \in Tally
    BY <1>8 DEF RecordTotal, TypeOK, Outcome, Tally
  <2> QED
    BY <1>8, <2>1, <2>2 DEF RecordTotal, TypeOK
<1>9. CASE TaskDone(t)
  <2>1. /\ remaining' \in {Unset} \cup Nat
        /\ consumed' \in Nat
        /\ phase' \in [Procs -> Phase]
    <3>1. CASE remaining = MaxSafe /\ consumed' = consumed + 1
               /\ GoTo(t, "ended") /\ UNCHANGED remaining
      BY <3>1, GoToType DEF TypeOK, Phase
    <3>2. CASE GoTo(t, "ended") /\ UNCHANGED <<remaining, consumed>>
      BY <3>2, GoToType DEF TypeOK, Phase
    <3>3. CASE remaining \notin {MaxSafe, Unset} /\ SetRemaining(t, remaining - 1)
      BY <3>3, SetRemainingType DEF TypeOK
    <3> QED
      BY <1>9, <3>1, <3>2, <3>3 DEF TaskDone
  <2> QED
    BY <1>9, <2>1 DEF TaskDone, TypeOK
<1> QED
  BY <1>1, <1>2, <1>3, <1>4, <1>5, <1>6, <1>7, <1>8, <1>9
     DEF TaskStep, PushDelivered, PushGone, PushFails

LEMMA FinalizeType ==
  ASSUME TypeOK, NEW p \in Procs, FinalizeStep(p)
  PROVE  TypeOK'
<1> USE DEF dbVars, memVars, runVars, taskVars, callVars, envVars
<1>1. CASE FinalizeRead(p)
  <2>1. phase' \in [Procs -> Phase]
    BY <1>1, GoToType DEF FinalizeRead, Phase, FinPhase
  <2> QED
    BY <1>1, <2>1 DEF FinalizeRead, TypeOK
<1>2. CASE FinalizeTally(p)
  <2>1. phase' \in [Procs -> Phase]
    BY <1>2, GoToType DEF FinalizeTally, Phase, FinPhase
  <2> QED
    BY <1>2, <2>1, CountsAreNat DEF FinalizeTally, TypeOK
<1>3. CASE FinalizeWrite(p)
  <2>1. phase' \in [Procs -> Phase]
    BY <1>3, GoToType DEF FinalizeWrite, Phase
  <2> QED
    BY <1>3, <2>1 DEF FinalizeWrite, TypeOK
<1> QED
  BY <1>1, <1>2, <1>3 DEF FinalizeStep

LEMMA RestType ==
  ASSUME TypeOK,
         \/ Maintenance \/ Restart
         \/ \E e \in Epochs : RunFault(e)
         \/ \E t \in Tasks : RecordFault(t)
         \/ \E p \in Procs : FinalizeFault(p)
         \/ \E s \in Subs : Unsubscribe(s)
  PROVE  TypeOK'
<1> USE DEF dbVars, memVars, runVars, taskVars, callVars, envVars
<1>1. CASE MaintenanceRead
  BY <1>1 DEF MaintenanceRead, TypeOK
<1>2. CASE MaintenanceWrite
  <2>1. totals' \in Tally
    BY <1>2, CountsAreNat DEF MaintenanceWrite, RowTally, Tally
  <2> QED
    BY <1>2, <2>1 DEF MaintenanceWrite, TypeOK
<1>3. CASE Restart
  <2>1. used' \in [pauses : Nat, resumes : Nat, crashes : Nat,
                   faults : Nat, aborts : Nat]
    BY <1>3, SpendType DEF Restart
  <2>2. phase' \in [Procs -> Phase]
    BY <1>3 DEF Restart, Phase
  <2>3. paused' \in BOOLEAN
    BY <1>3 DEF Restart
  <2> QED
    BY <1>3, <2>1, <2>2, <2>3 DEF Restart, TypeOK
<1>4. ASSUME NEW p, GoTo(p, "ended") \/ GoTo(p, "done"),
             Spend("faults") \/ Spend("aborts"),
             UNCHANGED <<dbVars, memVars, runVars, taskVars, tally, callVars,
                         rowId>>
      PROVE  TypeOK'
  <2>1. used' \in [pauses : Nat, resumes : Nat, crashes : Nat,
                   faults : Nat, aborts : Nat]
    BY <1>4, SpendType
  <2>2. phase' \in [Procs -> Phase]
    BY <1>4, GoToType DEF Phase, TaskPhase
  <2> QED
    BY <1>4, <2>1, <2>2 DEF TypeOK
<1>5. ASSUME NEW s \in Subs, Unsubscribe(s) PROVE TypeOK'
  BY <1>5 DEF Unsubscribe, TypeOK
<1> QED
  BY <1>1, <1>2, <1>3, <1>4, <1>5
     DEF Maintenance, RunFault, RecordFault, FinalizeFault

LEMMA TypeStep == TypeOK /\ [Next]_vars => TypeOK'
<1> SUFFICES ASSUME TypeOK, [Next]_vars PROVE TypeOK'
  OBVIOUS
<1>1. CASE UNCHANGED vars
  BY <1>1 DEF vars, dbVars, memVars, runVars, taskVars, callVars, envVars,
     TypeOK
<1>2. CASE Next
  <2>1. 1 \in Epochs
    BY RunnerAssumption DEF Epochs
  <2> QED
    BY <1>2, <2>1, DispatchType, PauseType, ResumeType, TaskType,
       FinalizeType, RestType
       DEF Next, CallStep, RunStep
<1> QED
  BY <1>1, <1>2

\* Every variable keeps its type, for all values of the constants.
THEOREM TypeCorrect == Spec => []TypeOK
BY InitTypeOK, TypeStep, PTL DEF Spec

-----------------------------------------------------------------------------
(* A row says "sent" only of a lead that was pushed.                        *)

HonestInv ==
  /\ \A s \in Subs : row[s] = "sent" =>
       \E e \in Epochs : pushed[<<e, s>>] > 0
  /\ \A t \in Tasks : outcome[t] = "sent" => pushed[t] > 0

\* Steps that neither write a row "sent" nor touch a push keep the invariant.
LEMMA HonestFrame ==
  ASSUME HonestInv, UNCHANGED <<outcome, pushed>>,
         \A s \in Subs : row'[s] = "sent" => row[s] = "sent"
  PROVE  HonestInv'
BY DEF HonestInv

LEMMA HonestStep == TypeOK /\ HonestInv /\ [Next]_vars => HonestInv'
<1> SUFFICES ASSUME TypeOK, HonestInv, [Next]_vars PROVE HonestInv'
  OBVIOUS
<1> USE DEF dbVars, memVars, runVars, taskVars, callVars, envVars
<1>1. CASE UNCHANGED vars
  BY <1>1, HonestFrame DEF vars
<1>2. CASE DispatchClaim \/ PauseRead \/ ResumeClaim \/ CallStep
  BY <1>2, HonestFrame DEF DispatchClaim, PauseRead, ResumeClaim, CallStep,
     DispatchBegin, PauseMark, PauseWrite, ResumeBegin
<1>3. ASSUME NEW e \in Epochs, RunStep(e) PROVE HonestInv'
  <2>1. CASE AudienceResolved(e) \/ TargetRead(e) \/ DispatchEnd(e)
             \/ ScanRead(e) \/ ScanEnd(e)
    BY <2>1, HonestFrame
       DEF AudienceResolved, TargetRead, DispatchEnd, ScanRead, ScanEnd
  <2>2. CASE TargetInsert(e)
    BY <2>2, HonestFrame DEF TargetInsert
  <2>3. CASE ScanEnqueue(e)
    BY <2>3, HonestFrame DEF ScanEnqueue
  <2> QED
    BY <1>3, <2>1, <2>2, <2>3 DEF RunStep
<1>4. ASSUME NEW t \in Tasks, TaskStep(t) PROVE HonestInv'
  <2>1. CASE TaskStart(t) \/ TaskPaced(t) \/ PushThrottled(t) \/ PushRetry(t)
             \/ RecordLead(t) \/ RecordTotal(t) \/ TaskDone(t)
    BY <2>1, HonestFrame DEF TaskStart, TaskPaced, PushThrottled, PushRetry,
       RecordLead, RecordTotal, TaskDone
  <2>2. CASE PushDelivered(t)
    <3>1. /\ outcome' = [outcome EXCEPT ![t] = "sent"]
          /\ pushed' = [pushed EXCEPT ![t] = @ + 1]
          /\ row' = row
      BY <2>2 DEF PushDelivered, PushEnds
    <3>2. pushed \in [Tasks -> Nat] /\ outcome \in [Tasks -> Outcome]
      BY DEF TypeOK
    <3>3. pushed'[t] > 0 /\ \A u \in Tasks : u # t => pushed'[u] = pushed[u]
      BY <3>1, <3>2
    <3>4. \A u \in Tasks : pushed[u] > 0 => pushed'[u] > 0
      BY <3>3
    <3>5. \A u \in Tasks : u # t => outcome'[u] = outcome[u]
      BY <3>1, <3>2
    <3>6. ASSUME NEW s \in Subs, row'[s] = "sent"
          PROVE  \E e \in Epochs : pushed'[<<e, s>>] > 0
      BY <3>1, <3>4, <3>6 DEF HonestInv
    <3> QED
      BY <3>3, <3>5, <3>6 DEF HonestInv
  <2>3. CASE PushGone(t) \/ PushFails(t)
    BY <2>3 DEF PushGone, PushFails, PushEnds, HonestInv, TypeOK
  <2>4. CASE RecordRow(t)
    <3>1. PICK e \in Epochs, r \in Subs : t = <<e, r>>
      OBVIOUS
    <3>2. row' = [row EXCEPT ![r] = outcome[t]]
      BY <2>4, <3>1 DEF RecordRow
    <3>3. UNCHANGED <<outcome, pushed>>
      BY <2>4 DEF RecordRow
    <3> QED
      BY <3>1, <3>2, <3>3 DEF HonestInv, TypeOK
  <2> QED
    BY <1>4, <2>1, <2>2, <2>3, <2>4 DEF TaskStep
<1>5. ASSUME NEW p \in Procs, FinalizeStep(p) PROVE HonestInv'
  BY <1>5, HonestFrame DEF FinalizeStep, FinalizeRead, FinalizeTally,
     FinalizeWrite
<1>6. CASE Maintenance \/ Restart
  BY <1>6, HonestFrame DEF Maintenance, MaintenanceRead, MaintenanceWrite,
     Restart
<1>7. ASSUME NEW p, NEW s \in Subs, NEW e,
             RunFault(e) \/ RecordFault(p) \/ FinalizeFault(p)
               \/ Unsubscribe(s)
      PROVE  HonestInv'
  BY <1>7, HonestFrame DEF RunFault, RecordFault, FinalizeFault, Unsubscribe
<1> QED
  <2>1. 1 \in Subs
    BY RunnerAssumption DEF Subs
  <2> QED
    BY <1>1, <1>2, <1>3, <1>4, <1>5, <1>6, <1>7, <2>1 DEF Next

\* Whatever is paused, resumed, restarted or throws, a row that says "sent" is
\* the row of a lead some run has pushed.
THEOREM SentIsHonest == Spec => []HonestSent
<1>1. Init => HonestInv
  BY DEF Init, HonestInv
<1>2. HonestInv => HonestSent
  BY DEF HonestInv, HonestSent, Delivered
<1> QED
  BY <1>1, <1>2, HonestStep, TypeCorrect, PTL DEF Spec

-----------------------------------------------------------------------------
(* A run pushes each lead at most once.  A task is created at most once per *)
(* run because the run's cursor has passed every lead (or row) it took, so  *)
(* it takes only leads without a task; a task pushes only on its way from   *)
(* "pushing" to "row", and never comes back.                                *)

BeforePush == {"none", "waiting", "pacing", "pushing", "backoff"}

PushedOnce ==
  \A t \in Tasks : /\ phase[t] \in BeforePush => pushed[t] = 0
                  /\ pushed[t] <= 1

\* Epochs to come, and runs that have not begun their loop, have no task.
FreshRuns ==
  \A e \in Epochs :
    /\ e > epoch => \A i \in 0..NumSubs : phase[<<e, i>>] = "none"
    /\ phase[<<e, 0>>] \in {"none", "audience"}
         => \A s \in Subs : phase[<<e, s>>] = "none"

\* The cursor of a loop has passed the leads that have a task, and those of
\* the batch in hand, which have none yet.
Passed(e, s) == IF phase[<<e, 0>>] \in {"target", "insert"} THEN s <= cursor[e]
                                                          ELSE rowId[s] <= cursor[e]

CursorPassed ==
  \A e \in Epochs :
    /\ phase[<<e, 0>>] \in {"target", "insert", "scan", "enqueue"}
         => \A s \in Subs : phase[<<e, s>>] # "none" => Passed(e, s)
    /\ phase[<<e, 0>>] \in {"insert", "enqueue"}
         => \A x \in picked[e] : phase[<<e, x[1]>>] = "none" /\ Passed(e, x[1])

OnceInv == PushedOnce /\ FreshRuns /\ CursorPassed

LEMMA ProcNames ==
  /\ \A e \in Epochs : <<e, 0>> \in Procs
  /\ \A e \in Epochs, s \in Subs : <<e, s>> \in Tasks /\ <<e, s>> \in Procs
  /\ \A e \in Epochs, i \in 0..NumSubs : <<e, i>> \in Procs
  /\ \A t \in Tasks : t \in Procs /\ t[1] \in Epochs /\ t[2] \in Subs
                      /\ t = <<t[1], t[2]>>
  /\ \A t \in Tasks : \A e \in Epochs : t # <<e, 0>>
  BY RunnerAssumption DEF Procs, Tasks, Subs

\* What keeps the invariant: no process appears, and a loop that moves leaves
\* for a phase in which it takes no more leads.
LEMMA OnceKept ==
  ASSUME TypeOK, OnceInv, PushedOnce', UNCHANGED <<cursor, picked, rowId>>,
         epoch \in Nat, epoch' \in {epoch, epoch + 1},
         \A q \in Procs : phase'[q] = "none" <=> phase[q] = "none",
         \A e \in Epochs : \/ phase'[<<e, 0>>] = phase[<<e, 0>>]
                           \/ phase'[<<e, 0>>] \notin RunPhase \cup {"none"}
  PROVE  OnceInv'
<1>1. ASSUME NEW e \in Epochs, e > epoch', NEW i \in 0..NumSubs
      PROVE  phase'[<<e, i>>] = "none"
  <2>1. e > epoch
    BY <1>1 DEF Epochs
  <2> QED
    BY <1>1, <2>1, ProcNames DEF OnceInv, FreshRuns
<1>2. ASSUME NEW e \in Epochs, phase'[<<e, 0>>] \in {"none", "audience"},
             NEW s \in Subs
      PROVE  phase'[<<e, s>>] = "none"
  BY <1>2, ProcNames DEF OnceInv, FreshRuns, RunPhase
<1>3. ASSUME NEW e \in Epochs, NEW s \in Subs,
             phase'[<<e, 0>>] \in {"target", "insert", "scan", "enqueue"},
             phase'[<<e, s>>] # "none"
      PROVE  Passed(e, s)'
  BY <1>3, ProcNames DEF OnceInv, CursorPassed, Passed, RunPhase
<1>4. ASSUME NEW e \in Epochs, phase'[<<e, 0>>] \in {"insert", "enqueue"},
             NEW x \in picked'[e]
      PROVE  phase'[<<e, x[1]>>] = "none" /\ Passed(e, x[1])'
  <2>1. phase'[<<e, 0>>] = phase[<<e, 0>>] /\ x \in picked[e]
    BY <1>4 DEF RunPhase
  <2>2. phase[<<e, x[1]>>] = "none" /\ Passed(e, x[1])
    BY <1>4, <2>1 DEF OnceInv, CursorPassed
  <2>3. x[1] \in Subs
    BY <2>1 DEF TypeOK
  <2> QED
    BY <2>1, <2>2, <2>3, ProcNames DEF Passed
<1> QED
  BY <1>1, <1>2, <1>3, <1>4 DEF OnceInv, FreshRuns, CursorPassed

\* One process moves: a task to its next phase, a loop or a finalize() to a
\* phase in which it takes no more leads.
LEMMA OnceGoTo ==
  ASSUME TypeOK, OnceInv, UNCHANGED <<epoch, cursor, picked, rowId, pushed>>,
         NEW p \in Procs, NEW l \in Phase \ {"none"}, GoTo(p, l),
         phase[p] # "none", p \in Tasks \/ l \notin RunPhase,
         l \in BeforePush => phase[p] \in BeforePush
  PROVE  OnceInv'
<1>1. /\ phase'[p] = l
      /\ \A q \in Procs : q # p => phase'[q] = phase[q]
  BY DEF GoTo, TypeOK
<1>2. PushedOnce'
  BY <1>1, ProcNames DEF OnceInv, PushedOnce
<1>3. \A q \in Procs : phase'[q] = "none" <=> phase[q] = "none"
  BY <1>1
<1>4. \A e \in Epochs : \/ phase'[<<e, 0>>] = phase[<<e, 0>>]
                        \/ phase'[<<e, 0>>] \notin RunPhase \cup {"none"}
  BY <1>1, ProcNames
<1>5. epoch \in Nat /\ epoch' \in {epoch, epoch + 1}
  BY DEF TypeOK
<1> QED
  BY <1>2, <1>3, <1>4, <1>5, OnceKept

\* No process moves.
LEMMA OnceStill ==
  ASSUME TypeOK, OnceInv, UNCHANGED <<phase, cursor, picked, rowId, pushed>>,
         epoch' \in {epoch, epoch + 1}
  PROVE  OnceInv'
<1>1. PushedOnce'
  BY DEF OnceInv, PushedOnce
<1>2. epoch \in Nat
  BY DEF TypeOK
<1> QED
  BY <1>1, <1>2, OnceKept

LEMMA OnceCounted ==
  ASSUME TypeOK, OnceInv, UNCHANGED <<epoch, cursor, picked, rowId, pushed>>,
         NEW p \in Procs, NEW n, SetRemaining(p, n), phase[p] # "none"
  PROVE  OnceInv'
<1>1. GoTo(p, "finRead") \/ GoTo(p, "ended")
  BY DEF SetRemaining
<1> QED
  BY <1>1, OnceGoTo DEF Phase, FinPhase, RunPhase, BeforePush

LEMMA OnceTask ==
  ASSUME TypeOK, OnceInv, NEW t \in Tasks, TaskStep(t)
  PROVE  OnceInv'
<1> USE DEF dbVars, memVars, runVars, taskVars, callVars, envVars
<1>0. t \in Procs
  BY ProcNames
<1>a. {"row", "lead", "total", "done", "ended", "pacing", "pushing", "backoff"}
         \subseteq Phase \ ({"none"} \cup RunPhase)
  BY DEF Phase, TaskPhase, RunPhase
<1>1. CASE TaskStart(t)
  <2>1. PICK l \in {"ended", "pacing"} : GoTo(t, l)
    BY <1>1 DEF TaskStart
  <2> QED
    BY <1>0, <1>a, <1>1, <2>1, OnceGoTo DEF TaskStart, BeforePush
<1>2. CASE TaskPaced(t)
  <2>1. PICK l \in {"ended", "pushing"} : GoTo(t, l)
    BY <1>2 DEF TaskPaced
  <2> QED
    BY <1>0, <1>a, <1>2, <2>1, OnceGoTo DEF TaskPaced, BeforePush
<1>3. CASE PushDelivered(t)
  <2>1. /\ phase'[t] = "row" /\ phase[t] = "pushing"
        /\ \A q \in Procs : q # t => phase'[q] = phase[q]
    BY <1>0, <1>3 DEF PushDelivered, PushEnds, GoTo, TypeOK
  <2>2. /\ pushed[t] = 0 /\ pushed'[t] = 1
        /\ \A u \in Tasks : u # t => pushed'[u] = pushed[u]
    BY <1>3, <2>1 DEF PushDelivered, OnceInv, PushedOnce, BeforePush, TypeOK
  <2>3. PushedOnce'
    BY <2>1, <2>2, ProcNames DEF OnceInv, PushedOnce, BeforePush
  <2>4. UNCHANGED <<epoch, cursor, picked, rowId>> /\ epoch \in Nat
    BY <1>3 DEF PushDelivered, PushEnds, TypeOK
  <2>5. \A q \in Procs : phase'[q] = "none" <=> phase[q] = "none"
    BY <2>1
  <2>6. \A e \in Epochs : phase'[<<e, 0>>] = phase[<<e, 0>>]
    BY <2>1, ProcNames
  <2> QED
    BY <2>3, <2>4, <2>5, <2>6, OnceKept
<1>4. CASE PushGone(t) \/ PushFails(t)
  BY <1>0, <1>a, <1>4, OnceGoTo DEF PushGone, PushFails, PushEnds, BeforePush
<1>5. CASE PushThrottled(t)
  BY <1>0, <1>a, <1>5, OnceGoTo DEF PushThrottled, BeforePush
<1>6. CASE PushRetry(t)
  BY <1>0, <1>a, <1>6, OnceGoTo DEF PushRetry, BeforePush
<1>7. CASE RecordRow(t)
  <2>1. PICK l \in {"total", "lead"} : GoTo(t, l)
    BY <1>7 DEF RecordRow
  <2> QED
    BY <1>0, <1>a, <1>7, <2>1, OnceGoTo DEF RecordRow, BeforePush
<1>8. CASE RecordLead(t) \/ RecordTotal(t)
  BY <1>0, <1>a, <1>8, OnceGoTo DEF RecordLead, RecordTotal, BeforePush
<1>9. CASE TaskDone(t)
  <2>1. UNCHANGED <<epoch, cursor, picked, rowId, pushed>> /\ phase[t] = "done"
    BY <1>9 DEF TaskDone
  <2>2. GoTo(t, "ended") \/ SetRemaining(t, remaining - 1)
    BY <1>9 DEF TaskDone
  <2> QED
    BY <1>0, <1>a, <2>1, <2>2, OnceGoTo, OnceCounted DEF BeforePush
<1> QED
  BY <1>1, <1>2, <1>3, <1>4, <1>5, <1>6, <1>7, <1>8, <1>9 DEF TaskStep

\* A new run starts under an epoch nobody has used.
LEMMA OnceBegins ==
  ASSUME TypeOK, OnceInv, UNCHANGED <<cursor, picked, rowId, pushed>>,
         epoch' = epoch + 1, NEW l \in {"audience", "scan"},
         phase' = [phase EXCEPT ![<<epoch', 0>>] = l]
  PROVE  OnceInv'
<1>0. /\ epoch \in Nat
      /\ phase \in [Procs -> Phase]
      /\ DOMAIN phase' = Procs
  BY DEF TypeOK
<1>1. \A q \in Procs : IF q = <<epoch', 0>> THEN phase'[q] = l
                                            ELSE phase'[q] = phase[q]
  BY <1>0
<1>2. \A t \in Tasks : phase'[t] = phase[t]
  BY <1>1, ProcNames
<1>3. PushedOnce'
  BY <1>2 DEF OnceInv, PushedOnce
<1>4. \A e \in Epochs : e # epoch' => phase'[<<e, 0>>] = phase[<<e, 0>>]
  BY <1>1, ProcNames
<1>5. \A e \in Epochs : e = epoch' =>
        phase'[<<e, 0>>] = l /\ \A s \in Subs : phase'[<<e, s>>] = "none"
  <2>1. \A e \in Epochs, s \in Subs : e = epoch' => phase[<<e, s>>] = "none"
    BY <1>0 DEF OnceInv, FreshRuns, Subs
  <2> QED
    BY <1>1, <1>2, <2>1, ProcNames
<1>6. ASSUME NEW e \in Epochs, e > epoch', NEW i \in 0..NumSubs
      PROVE  phase'[<<e, i>>] = "none"
  <2>1. e > epoch /\ <<e, i>> \in Procs /\ <<e, i>> # <<epoch', 0>>
    BY <1>0, <1>6, ProcNames DEF Epochs
  <2> QED
    BY <1>1, <1>6, <2>1 DEF OnceInv, FreshRuns
<1>7. FreshRuns'
  <2>1. ASSUME NEW e \in Epochs, phase'[<<e, 0>>] \in {"none", "audience"},
               NEW s \in Subs
        PROVE  phase'[<<e, s>>] = "none"
    <3>1. CASE e = epoch'
      BY <1>5, <3>1
    <3>2. CASE e # epoch'
      BY <1>2, <1>4, <2>1, <3>2, ProcNames DEF OnceInv, FreshRuns
    <3> QED
      BY <3>1, <3>2
  <2> QED
    BY <1>6, <2>1 DEF FreshRuns
<1>8. CursorPassed'
  <2> SUFFICES ASSUME NEW e \in Epochs
               PROVE  /\ phase'[<<e, 0>>] \in {"target", "insert", "scan", "enqueue"}
                           => \A s \in Subs : phase'[<<e, s>>] # "none" => Passed(e, s)'
                      /\ phase'[<<e, 0>>] \in {"insert", "enqueue"}
                           => \A x \in picked[e] :
                                phase'[<<e, x[1]>>] = "none" /\ Passed(e, x[1])'
    BY DEF CursorPassed
  <2>1. CASE e = epoch'
    BY <1>5, <2>1
  <2>2. CASE e # epoch'
    <3>1. \A x \in picked[e] : x[1] \in Subs
      BY DEF TypeOK
    <3> QED
      BY <1>2, <1>4, <2>2, <3>1, ProcNames DEF OnceInv, CursorPassed, Passed
  <2> QED
    BY <2>1, <2>2
<1> QED
  BY <1>3, <1>7, <1>8 DEF OnceInv

\* A loop moves on: the leads of the batch in hand get their tasks, or the
\* next batch is read.
LEMMA OnceLoop ==
  ASSUME TypeOK, OnceInv, NEW e \in Epochs,
         UNCHANGED <<epoch, rowId, pushed>>,
         phase[<<e, 0>>] \in RunPhase,
         NEW l \in RunPhase \ {"audience"}, phase'[<<e, 0>>] = l,
         \A d \in Epochs : d # e =>
           /\ phase'[<<d, 0>>] = phase[<<d, 0>>]
           /\ cursor'[d] = cursor[d] /\ picked'[d] = picked[d],
         \A t \in Tasks : \/ phase'[t] = phase[t]
                          \/ /\ phase[t] = "none" /\ phase'[t] = "waiting"
                             /\ t[1] = e /\ Passed(e, t[2])',
         \A s \in Subs : phase[<<e, s>>] # "none" => Passed(e, s)',
         l \in {"insert", "enqueue"} =>
           \A x \in picked'[e] : /\ x[1] \in Subs /\ Passed(e, x[1])'
                                 /\ phase'[<<e, x[1]>>] = "none"
  PROVE  OnceInv'
<1>0. epoch \in Nat /\ ~(e > epoch)
  BY ProcNames DEF TypeOK, OnceInv, FreshRuns, RunPhase, Subs
<1>1. PushedOnce'
  BY DEF OnceInv, PushedOnce, BeforePush
<1>2. FreshRuns'
  <2>1. ASSUME NEW d \in Epochs, d > epoch, NEW i \in 0..NumSubs
        PROVE  phase'[<<d, i>>] = "none"
    <3>1. d # e /\ phase[<<d, i>>] = "none"
      BY <1>0, <2>1 DEF OnceInv, FreshRuns
    <3>2. CASE i = 0
      BY <3>1, <3>2
    <3>3. CASE i # 0
      <4>1. <<d, i>> \in Tasks /\ <<d, i>>[1] = d
        BY <3>3, RunnerAssumption DEF Tasks, Subs
      <4> QED
        BY <3>1, <4>1
    <3> QED
      BY <3>2, <3>3
  <2>2. ASSUME NEW d \in Epochs, phase'[<<d, 0>>] \in {"none", "audience"},
               NEW s \in Subs
        PROVE  phase'[<<d, s>>] = "none"
    <3>1. d # e
      BY <2>2 DEF RunPhase
    <3>2. phase[<<d, s>>] = "none"
      BY <2>2, <3>1 DEF OnceInv, FreshRuns
    <3>3. <<d, s>> \in Tasks /\ <<d, s>>[1] = d
      BY ProcNames
    <3> QED
      BY <3>1, <3>2, <3>3
  <2> QED
    BY <2>1, <2>2 DEF FreshRuns
<1>3. CursorPassed'
  <2> SUFFICES ASSUME NEW d \in Epochs
               PROVE  /\ phase'[<<d, 0>>] \in {"target", "insert", "scan", "enqueue"}
                           => \A s \in Subs : phase'[<<d, s>>] # "none" => Passed(d, s)'
                      /\ phase'[<<d, 0>>] \in {"insert", "enqueue"}
                           => \A x \in picked'[d] :
                                phase'[<<d, x[1]>>] = "none" /\ Passed(d, x[1])'
    BY DEF CursorPassed
  <2>0. \A s \in Subs : <<d, s>> \in Tasks /\ <<d, s>>[1] = d /\ <<d, s>>[2] = s
    BY ProcNames
  <2>1. CASE d = e
    BY <2>0, <2>1
  <2>2. CASE d # e
    <3>1. \A s \in Subs : phase'[<<d, s>>] = phase[<<d, s>>]
      BY <2>0, <2>2
    <3>2. \A s \in Subs : Passed(d, s)' <=> Passed(d, s)
      BY <2>2 DEF Passed
    <3>3. \A x \in picked[d] : x[1] \in Subs
      BY DEF TypeOK
    <3>4. phase'[<<d, 0>>] = phase[<<d, 0>>] /\ picked'[d] = picked[d]
      BY <2>2
    <3> QED
      BY <3>1, <3>2, <3>3, <3>4 DEF OnceInv, CursorPassed
  <2> QED
    BY <2>1, <2>2
<1> QED
  BY <1>1, <1>2, <1>3 DEF OnceInv

LEMMA OnceRun ==
  ASSUME TypeOK, OnceInv, NEW e \in Epochs, RunStep(e)
  PROVE  OnceInv'
<1> USE DEF dbVars, memVars, runVars, taskVars, callVars, envVars
<1>0. <<e, 0>> \in Procs
  BY ProcNames
<1>1. CASE AudienceResolved(e)
  <2>1. /\ phase[<<e, 0>>] = "audience" /\ phase'[<<e, 0>>] = "target"
        /\ \A q \in Procs : q # <<e, 0>> => phase'[q] = phase[q]
        /\ UNCHANGED <<epoch, rowId, pushed, cursor, picked>>
    BY <1>0, <1>1 DEF AudienceResolved, GoTo, TypeOK
  <2>2. \A s \in Subs : phase[<<e, s>>] = "none"
    BY <2>1 DEF OnceInv, FreshRuns
  <2> QED
    BY <2>1, <2>2, ProcNames, OnceLoop DEF RunPhase
<1>2. CASE TargetRead(e)
  <2>1. PICK l \in {"target", "insert"} :
          /\ phase[<<e, 0>>] = "target" /\ phase'[<<e, 0>>] = l
          /\ \A q \in Procs : q # <<e, 0>> => phase'[q] = phase[q]
    BY <1>0, <1>2 DEF TargetRead, GoTo, TypeOK
  <2>2. UNCHANGED <<epoch, rowId, pushed>>
    BY <1>2 DEF TargetRead
  <2>3. /\ cursor'[e] \in Nat /\ cursor[e] \in Nat /\ cursor[e] <= cursor'[e]
        /\ \A d \in Epochs : d # e => cursor'[d] = cursor[d]
        /\ \A d \in Epochs : d # e => picked'[d] = picked[d]
    BY <1>2, RunnerAssumption DEF TargetRead, TypeOK
  <2>4. \A x \in picked'[e] : /\ x[1] \in Subs
                              /\ cursor[e] < x[1] /\ x[1] <= cursor'[e]
    <3> DEFINE chunk == {s \in Subs : cursor[e] < s /\ s <= cursor[e] + BatchSize}
               live  == {s \in chunk : sub[s] = "active"}
    <3>1. picked'[e] = live \X {TRUE}
      BY <1>2 DEF TargetRead, TypeOK
    <3>2. cursor'[e] = IF cursor[e] + BatchSize <= NumSubs
                       THEN cursor[e] + BatchSize ELSE NumSubs
      BY <1>2 DEF TargetRead, TypeOK
    <3>3. \A s \in live : s \in Subs /\ cursor[e] < s /\ s <= cursor'[e]
      BY <2>3, <3>2, RunnerAssumption DEF Subs
    <3> QED
      BY <3>1, <3>3
  <2>5. \A s \in Subs : phase[<<e, s>>] # "none" => s <= cursor[e]
    BY <2>1 DEF OnceInv, CursorPassed, Passed
  <2>6. \A s \in Subs : Passed(e, s)' <=> s <= cursor'[e]
    BY <2>1 DEF Passed
  <2>7. \A s \in Subs : phase[<<e, s>>] # "none" => Passed(e, s)'
    BY <2>3, <2>5, <2>6 DEF Subs
  <2>8. \A x \in picked'[e] : /\ x[1] \in Subs /\ Passed(e, x[1])'
                              /\ phase'[<<e, x[1]>>] = "none"
    <3> SUFFICES ASSUME NEW x \in picked'[e]
                 PROVE  /\ x[1] \in Subs /\ Passed(e, x[1])'
                        /\ phase'[<<e, x[1]>>] = "none"
      OBVIOUS
    <3>1. x[1] \in Subs /\ Passed(e, x[1])'
      BY <2>4, <2>6
    <3>2. ~(x[1] <= cursor[e])
      BY <2>3, <2>4, <3>1 DEF Subs
    <3>3. phase[<<e, x[1]>>] = "none"
      BY <2>5, <3>1, <3>2
    <3> QED
      BY <2>1, <3>1, <3>3, ProcNames
  <2>9. \A t \in Tasks : phase'[t] = phase[t]
    BY <2>1, ProcNames
  <2>10. \A d \in Epochs : d # e => phase'[<<d, 0>>] = phase[<<d, 0>>]
    BY <2>1, ProcNames
  <2> QED
    BY <2>1, <2>2, <2>3, <2>7, <2>8, <2>9, <2>10, OnceLoop DEF RunPhase
<1>3. CASE TargetInsert(e)
  <2> DEFINE leads == {x[1] : x \in picked[e]}
  <2>1. /\ phase[<<e, 0>>] = "insert" /\ cursor' = cursor
        /\ UNCHANGED <<epoch, rowId, pushed>>
        /\ \A d \in Epochs : d # e => picked'[d] = picked[d]
    BY <1>3 DEF TargetInsert, TypeOK
  <2>2. phase' = [p \in Procs |->
              IF p[1] = e /\ p[2] \in leads THEN "waiting"
              ELSE IF p = <<e, 0>> THEN "target" ELSE phase[p]]
    BY <1>3 DEF TargetInsert
  <2>3. \A s \in leads : s \in Subs /\ phase[<<e, s>>] = "none" /\ s <= cursor[e]
    BY <2>1 DEF OnceInv, CursorPassed, Passed, TypeOK
  <2>4. phase'[<<e, 0>>] = "target"
    BY <1>0, <2>2, <2>3 DEF Subs
  <2>5. \A d \in Epochs : d # e => phase'[<<d, 0>>] = phase[<<d, 0>>]
    BY <2>2, ProcNames
  <2>6. \A s \in Subs : Passed(e, s)' <=> s <= cursor[e]
    BY <2>1, <2>4 DEF Passed
  <2>7. \A s \in Subs : phase[<<e, s>>] # "none" => Passed(e, s)'
    BY <2>1, <2>6 DEF OnceInv, CursorPassed, Passed
  <2>8. \A t \in Tasks : \/ phase'[t] = phase[t]
                         \/ /\ phase[t] = "none" /\ phase'[t] = "waiting"
                            /\ t[1] = e /\ Passed(e, t[2])'
    BY <2>2, <2>3, <2>6, ProcNames
  <2> QED
    BY <2>1, <2>4, <2>5, <2>7, <2>8, OnceLoop DEF RunPhase
<1>4. CASE DispatchEnd(e)
  <2>1. UNCHANGED <<epoch, cursor, picked, rowId, pushed>>
        /\ phase[<<e, 0>>] = "target"
    BY <1>4 DEF DispatchEnd
  <2>2. GoTo(<<e, 0>>, "ended") \/ \E n : SetRemaining(<<e, 0>>, n)
    BY <1>4 DEF DispatchEnd
  <2> QED
    BY <1>0, <2>1, <2>2, OnceGoTo, OnceCounted DEF BeforePush, RunPhase, Phase
<1>5. CASE ScanRead(e)
  <2> DEFINE page == {s \in Unread(e) :
        Cardinality({r \in Unread(e) : rowId[r] < rowId[s]}) < BatchSize}
  <2>1. /\ phase[<<e, 0>>] = "scan" /\ phase'[<<e, 0>>] = "enqueue"
        /\ \A q \in Procs : q # <<e, 0>> => phase'[q] = phase[q]
        /\ UNCHANGED <<epoch, rowId, pushed>>
        /\ \A d \in Epochs : d # e => picked'[d] = picked[d]
        /\ \A d \in Epochs : d # e => cursor'[d] = cursor[d]
        /\ picked'[e] = {<<s, sub[s] = "active">> : s \in page}
    BY <1>0, <1>5 DEF ScanRead, GoTo, TypeOK
  <2>2. PICK last \in page : /\ \A s \in page : rowId[s] <= rowId[last]
                             /\ cursor'[e] = rowId[last]
    BY <1>5 DEF ScanRead, TypeOK
  <2>3. /\ \A s \in page : s \in Subs /\ cursor[e] < rowId[s]
        /\ cursor[e] \in Nat /\ \A s \in Subs : rowId[s] \in Nat
    <3>1. \A s \in page : s \in Subs /\ cursor[e] < rowId[s]
      BY DEF Unread
    <3>2. cursor \in [Epochs -> 0..NumSubs] /\ rowId \in [Subs -> Subs]
      BY DEF TypeOK
    <3>3. cursor[e] \in Nat /\ \A s \in Subs : rowId[s] \in Nat
      BY <3>2, RunnerAssumption DEF Subs
    <3> QED
      BY <3>1, <3>3
  <2>4. \A s \in Subs : phase[<<e, s>>] # "none" => rowId[s] <= cursor[e]
    BY <2>1 DEF OnceInv, CursorPassed, Passed
  <2>5. \A s \in Subs : Passed(e, s)' <=> rowId[s] <= cursor'[e]
    BY <2>1 DEF Passed
  <2>6. \A s \in Subs : phase[<<e, s>>] # "none" => Passed(e, s)'
    BY <2>2, <2>3, <2>4, <2>5
  <2>7. \A x \in picked'[e] : /\ x[1] \in Subs /\ Passed(e, x[1])'
                              /\ phase'[<<e, x[1]>>] = "none"
    <3> SUFFICES ASSUME NEW s \in page
                 PROVE  s \in Subs /\ Passed(e, s)' /\ phase'[<<e, s>>] = "none"
      <4>1. \A x \in picked'[e] : x[1] \in page
        <5> SUFFICES ASSUME NEW x \in picked'[e] PROVE x[1] \in page
          OBVIOUS
        <5>1. PICK r \in page : x = <<r, sub[r] = "active">>
          BY <2>1, Zenon
        <5> QED
          BY <5>1
      <4> QED
        BY <4>1
    <3>1. s \in Subs /\ Passed(e, s)'
      BY <2>2, <2>3, <2>5
    <3>2. phase[<<e, s>>] = "none"
      BY <2>3, <2>4, <3>1
    <3> QED
      BY <2>1, <3>1, <3>2, ProcNames
  <2>8. \A t \in Tasks : phase'[t] = phase[t]
    BY <2>1, ProcNames
  <2>9. \A d \in Epochs : d # e => phase'[<<d, 0>>] = phase[<<d, 0>>]
    BY <2>1, ProcNames
  <2> QED
    BY <2>1, <2>6, <2>7, <2>8, <2>9, OnceLoop DEF RunPhase
<1>6. CASE ScanEnqueue(e)
  <2>1. /\ phase[<<e, 0>>] = "enqueue" /\ cursor' = cursor
        /\ UNCHANGED <<epoch, rowId, pushed>>
        /\ \A d \in Epochs : d # e => picked'[d] = picked[d]
    BY <1>6 DEF ScanEnqueue, TypeOK
  <2>2. phase' = [p \in Procs |->
              IF p[1] = e /\ <<p[2], TRUE>> \in picked[e] THEN "waiting"
              ELSE IF p = <<e, 0>> THEN "scan" ELSE phase[p]]
    BY <1>6 DEF ScanEnqueue
  <2>3. \A s : <<s, TRUE>> \in picked[e] =>
          s \in Subs /\ phase[<<e, s>>] = "none" /\ rowId[s] <= cursor[e]
    <3> SUFFICES ASSUME NEW s, <<s, TRUE>> \in picked[e]
                 PROVE  s \in Subs /\ phase[<<e, s>>] = "none"
                        /\ rowId[s] <= cursor[e]
      OBVIOUS
    <3>1. s \in Subs
      BY DEF TypeOK
    <3>2. phase[<<e, s>>] = "none" /\ Passed(e, s)
      BY <2>1 DEF OnceInv, CursorPassed
    <3> QED
      BY <2>1, <3>1, <3>2 DEF Passed
  <2>4. phase'[<<e, 0>>] = "scan"
    <3>1. <<0, TRUE>> \notin picked[e]
      <4>1. 0 \notin Subs
        BY DEF Subs
      <4> QED
        BY <2>3, <4>1, Zenon
    <3> QED
      BY <1>0, <2>2, <3>1
  <2>5. \A d \in Epochs : d # e => phase'[<<d, 0>>] = phase[<<d, 0>>]
    BY <2>2, ProcNames
  <2>6. \A s \in Subs : Passed(e, s)' <=> rowId[s] <= cursor[e]
    BY <2>1, <2>4 DEF Passed
  <2>7. \A s \in Subs : phase[<<e, s>>] # "none" => Passed(e, s)'
    BY <2>1, <2>6 DEF OnceInv, CursorPassed, Passed
  <2>8. \A t \in Tasks : \/ phase'[t] = phase[t]
                         \/ /\ phase[t] = "none" /\ phase'[t] = "waiting"
                            /\ t[1] = e /\ Passed(e, t[2])'
    <3> SUFFICES ASSUME NEW t \in Tasks, phase'[t] # phase[t]
                 PROVE  /\ phase[t] = "none" /\ phase'[t] = "waiting"
                        /\ t[1] = e /\ Passed(e, t[2])'
      OBVIOUS
    <3>1. t \in Procs /\ t # <<e, 0>> /\ t[2] \in Subs /\ t = <<t[1], t[2]>>
      BY ProcNames
    <3>2. /\ t[1] = e /\ <<t[2], TRUE>> \in picked[e]
          /\ phase'[t] = "waiting"
      BY <2>2, <3>1
    <3> QED
      BY <2>3, <2>6, <3>1, <3>2
  <2> QED
    BY <2>1, <2>4, <2>5, <2>7, <2>8, OnceLoop DEF RunPhase
<1>7. CASE ScanEnd(e)
  <2>1. UNCHANGED <<epoch, cursor, picked, rowId, pushed>>
        /\ phase[<<e, 0>>] = "scan"
    BY <1>7 DEF ScanEnd
  <2>2. \E n : SetRemaining(<<e, 0>>, n)
    BY <1>7 DEF ScanEnd
  <2> QED
    BY <1>0, <2>1, <2>2, OnceCounted
<1> QED
  BY <1>1, <1>2, <1>3, <1>4, <1>5, <1>6, <1>7 DEF RunStep

LEMMA OnceInit == Init => OnceInv
BY ProcNames DEF Init, OnceInv, PushedOnce, FreshRuns, CursorPassed

LEMMA OnceStep == TypeOK /\ OnceInv /\ [Next]_vars => OnceInv'
<1> SUFFICES ASSUME TypeOK, OnceInv, [Next]_vars PROVE OnceInv'
  OBVIOUS
<1> USE DEF dbVars, memVars, runVars, taskVars, callVars, envVars
<1>1. CASE DispatchClaim \/ PauseRead \/ PauseMark \/ PauseWrite \/ ResumeClaim
  BY <1>1, OnceStill
     DEF DispatchClaim, PauseRead, PauseMark, PauseWrite, ResumeClaim
<1>2. CASE Maintenance
  BY <1>2, OnceStill DEF Maintenance, MaintenanceRead, MaintenanceWrite
<1>3. CASE \E s \in Subs : Unsubscribe(s)
  BY <1>3, OnceStill DEF Unsubscribe
<1>4. CASE DispatchBegin
  <2>1. UNCHANGED <<cursor, picked, rowId, pushed>> /\ epoch' = epoch + 1
    BY <1>4 DEF DispatchBegin
  <2>2. phase' = [phase EXCEPT ![<<epoch', 0>>] = "audience"]
    BY <1>4 DEF DispatchBegin, GoTo
  <2> QED
    BY <2>1, <2>2, OnceBegins
<1>5. CASE ResumeBegin
  <2>1. UNCHANGED <<cursor, picked, rowId, pushed>> /\ epoch' = epoch + 1
    BY <1>5 DEF ResumeBegin
  <2>2. phase' = [phase EXCEPT ![<<epoch', 0>>] = "scan"]
    BY <1>5 DEF ResumeBegin, GoTo
  <2> QED
    BY <2>1, <2>2, OnceBegins
<1>6. CASE \E e \in Epochs : RunStep(e)
  BY <1>6, OnceRun
<1>7. CASE \E t \in Tasks : TaskStep(t)
  BY <1>7, OnceTask
<1>8. CASE \E p \in Procs : FinalizeStep(p) \/ FinalizeFault(p)
  <2>1. PICK p \in Procs : FinalizeStep(p) \/ FinalizeFault(p)
    BY <1>8
  <2>2. /\ UNCHANGED <<epoch, cursor, picked, rowId, pushed>>
        /\ phase[p] \in FinPhase
    BY <2>1 DEF FinalizeStep, FinalizeFault, FinalizeRead, FinalizeTally,
                FinalizeWrite, FinPhase
  <2>3. PICK l \in {"finTally", "finWrite", "ended"} : GoTo(p, l)
    BY <2>1 DEF FinalizeStep, FinalizeFault, FinalizeRead, FinalizeTally,
                FinalizeWrite
  <2> QED
    BY <2>2, <2>3, OnceGoTo DEF BeforePush, RunPhase, Phase, FinPhase
<1>9. CASE \E e \in Epochs : RunFault(e)
  BY <1>9, OnceGoTo, ProcNames DEF RunFault, BeforePush, RunPhase, Phase
<1>10. CASE \E t \in Tasks : RecordFault(t)
  BY <1>10, OnceGoTo, ProcNames
     DEF RecordFault, BeforePush, RunPhase, Phase, TaskPhase
<1>11. CASE Restart
  <2>1. UNCHANGED <<epoch, cursor, picked, rowId, pushed>>
    BY <1>11 DEF Restart
  <2>2. phase' = [p \in Procs |-> IF phase[p] = "none" THEN "none" ELSE "ended"]
    BY <1>11 DEF Restart
  <2>3. PushedOnce'
    BY <2>1, <2>2, ProcNames DEF OnceInv, PushedOnce, BeforePush
  <2>4. \A q \in Procs : phase'[q] = "none" <=> phase[q] = "none"
    BY <2>2
  <2>5. \A e \in Epochs : \/ phase'[<<e, 0>>] = phase[<<e, 0>>]
                          \/ phase'[<<e, 0>>] \notin RunPhase \cup {"none"}
    BY <2>2, ProcNames DEF RunPhase
  <2>6. epoch \in Nat
    BY DEF TypeOK
  <2> QED
    BY <2>1, <2>3, <2>4, <2>5, <2>6, OnceKept
<1>12. CASE UNCHANGED vars
  BY <1>12, OnceStill DEF vars
<1> QED
  BY <1>1, <1>2, <1>3, <1>4, <1>5, <1>6, <1>7, <1>8, <1>9, <1>10, <1>11, <1>12
     DEF Next, CallStep

\* Whatever requests overlap, whatever fails, however often the process
\* restarts: processSend() reaches a lead's browser at most once under one
\* epoch.
THEOREM OnePushPerRun == Spec => []OncePerRun
<1>1. Init => OnceInv
  BY OnceInit
<1>2. OnceInv => OncePerRun
  BY DEF OnceInv, PushedOnce, OncePerRun
<1> QED
  BY <1>1, <1>2, OnceStep, TypeCorrect, PTL DEF Spec

-----------------------------------------------------------------------------
\* Statements do not throw.
NoThrow == MaxFaults = 0 /\ MaxAborts = 0

\* Operators are patient, and if there are pauses, no statement throws.
Calm == Patient /\ (MaxPauses = 0 \/ NoThrow)

\* A process that is past its last look at stale(), or a loop under way.
IsBusy(p) == phase[p] \notin {"none", "waiting", "pacing", "ended"}

\* A task that will still push, write, or take itself off the count.
ActPhase == {"pushing", "backoff", "row", "lead", "total", "done"}

Owes(t) == \/ phase[t] \in ActPhase
           \/ phase[t] \in {"waiting", "pacing"} /\ ~Stale(t[1])

AllRest     == \A p \in Procs : ~IsBusy(p)
NobodyOwes  == \A t \in Tasks : ~Owes(t)
NoLoop      == \A e \in Epochs : phase[<<e, 0>>] \notin RunPhase
Claims      == dispatchClaims + resumeClaims

\* Every claim, and every pause that may supersede a run, is paid for by a
\* request or a restart, so that epochs do not run out.
Budget ==
  /\ used.pauses <= MaxPauses /\ used.resumes <= MaxResumes
  /\ used.crashes <= MaxCrashes
  /\ epoch + Claims + pauseReads + (IF status = "draft" THEN 1 ELSE 0)
       <= 1 + used.pauses + used.resumes + used.crashes

\* Patience: one request at a time.
OneCall == Claims + pauseReads + pauseWrites <= 1

\* A draft has no request, no run and no sweep.
Draft ==
  status = "draft" => epoch = 0 /\ NoCall /\ ~IsLive /\ maint = "idle"

\* Who has claimed the campaign finds nobody at work.
Claimed ==
  /\ Claims > 0 => /\ status = "sending" /\ AllRest /\ NobodyOwes
                   /\ consumed = 0 /\ maint = "idle"
  /\ dispatchClaims > 0 => epoch = 0 /\ remaining = Unset

\* Whoever is at work belongs to the last run, which is superseded only by a
\* pause.
OneWorks ==
  \A p \in Procs : IsBusy(p) =>
    /\ \A e \in Epochs : phase[<<e, 0>>] # "none" => e <= p[1]
    /\ ~paused => p[1] = epoch

\* A paused campaign is marked, or nothing of it is left.
Halted ==
  status = "paused" =>
    \/ paused
    \/ remaining = Unset /\ \A p \in Procs : phase[p] \in {"none", "ended"}

Pausing ==
  /\ pauseWrites > 0 => paused
  /\ pauseReads + pauseWrites > 0 => status \in {"sending", "sent"}

\* A sweep that is about to close the campaign, or has, finds it at rest.
Closing ==
  /\ maint = "closing" => status = "sending"
  /\ maint = "closing" \/ status = "failed" =>
       MaxPauses = 0 /\ NoCall /\ AllRest /\ ~IsLive

\* If nothing throws, a campaign without a count is being started or finished.
Moving ==
  NoThrow /\ status = "sending" /\ ~IsLive =>
    Claims > 0 \/ \E p \in Procs : phase[p] \in {"audience"} \cup FinPhase

\* One run is at work at a time.
Control == /\ Budget /\ OneCall /\ Draft /\ Claimed /\ OneWorks /\ Halted
           /\ Pausing /\ Closing /\ Moving

Adding == {"target", "insert", "scan", "enqueue"}
Owing  == {s \in Subs : \E e \in Epochs : Owes(<<e, s>>)}
EndedOf(e) == {s \in Subs : phase[<<e, s>>] = "ended"}
Finalizing == \E p \in Procs : phase[p] \in FinPhase

InRange == remaining \in {Unset, MaxSafe} \cup 1..NumSubs

\* Tasks are counted as consumed only while a loop keeps the count open.
Unconsumed == remaining = Unset \/ paused => consumed = 0

\* Nobody is at work without a count.
Counted ==
  (remaining = Unset /\ ~paused) \/ (remaining = MaxSafe /\ paused) => NobodyOwes

\* A count that can reach zero covers everybody at work, and no loop adds more.
Enough ==
  remaining \in 1..NumSubs => Cardinality(Owing) <= remaining /\ NoLoop

\* While a loop adds tasks the count is out of reach, and what was consumed
\* are tasks of this run that have ended.
LoopCounts ==
  \A e \in Epochs :
    /\ phase[<<e, 0>>] = "audience" => remaining = Unset
    /\ phase[<<e, 0>>] \in Adding =>
         /\ consumed <= Cardinality(EndedOf(e))
         /\ ~paused => remaining = MaxSafe

\* Whoever finalizes is the last.
LastOfAll == Finalizing => NobodyOwes /\ NoLoop /\ remaining = Unset

\* The completion count covers the tasks at work.
Count == /\ InRange /\ Unconsumed /\ Counted /\ Enough /\ LoopCounts
         /\ LastOfAll

\* The missing entry of a map is always expanded.
USE DEF Unset

-----------------------------------------------------------------------------
\* When and by whom work can be under way.

LEMMA StaleOwes ==
  ASSUME NEW t \in Tasks, phase[t] \in {"waiting", "pacing"}
  PROVE  Owes(t) <=> ~paused /\ t[1] = epoch
BY DEF Owes, Stale, ActPhase

LEMMA SameRun ==
  ASSUME TypeOK, OnceInv, Control
  PROVE  /\ \A p, q \in Procs : IsBusy(p) /\ IsBusy(q) => p[1] = q[1]
         /\ \A t \in Tasks, p \in Procs : Owes(t) /\ IsBusy(p) => t[1] = p[1]
         /\ \A t, u \in Tasks : Owes(t) /\ Owes(u) => t[1] = u[1]
<1>0. /\ epoch \in Nat /\ \A p \in Procs : p[1] \in Epochs /\ p[1] \in Nat
  BY DEF TypeOK, Epochs, Procs
<1>1. \A p \in Procs : phase[p] # "none" => phase[<<p[1], 0>>] # "none" /\ p[1] <= epoch
  <2> SUFFICES ASSUME NEW p \in Procs, phase[p] # "none"
               PROVE  phase[<<p[1], 0>>] # "none" /\ p[1] <= epoch
    OBVIOUS
  <2>1. PICK e \in Epochs, i \in 0..NumSubs : p = <<e, i>>
    BY DEF Procs
  <2>2. ~(e > epoch)
    BY <2>1 DEF OnceInv, FreshRuns
  <2>3. CASE i = 0
    BY <1>0, <2>1, <2>2, <2>3
  <2>4. CASE i # 0
    <3>1. i \in Subs
      BY <2>4, RunnerAssumption DEF Subs
    <3>2. phase[<<e, 0>>] # "none"
      BY <2>1, <3>1 DEF OnceInv, FreshRuns
    <3> QED
      BY <1>0, <2>1, <2>2, <3>2
  <2> QED
    BY <2>3, <2>4
<1>2. \A p, q \in Procs : IsBusy(p) /\ IsBusy(q) => p[1] = q[1]
  <2> SUFFICES ASSUME NEW p \in Procs, NEW q \in Procs, IsBusy(p), IsBusy(q)
               PROVE  p[1] = q[1]
    OBVIOUS
  <2>1. phase[<<p[1], 0>>] # "none" /\ phase[<<q[1], 0>>] # "none"
    BY <1>1 DEF IsBusy
  <2>2. p[1] <= q[1] /\ q[1] <= p[1]
    BY <1>0, <2>1 DEF Control, OneWorks
  <2> QED
    BY <1>0, <2>2
<1>3. ASSUME NEW t \in Tasks, Owes(t)
      PROVE  t \in Procs /\ (IsBusy(t) \/ (~paused /\ t[1] = epoch))
  <2>1. t \in Procs
    BY ProcNames
  <2>2. CASE phase[t] \in ActPhase
    BY <2>1, <2>2 DEF IsBusy, ActPhase
  <2>3. CASE phase[t] \notin ActPhase
    BY <1>3, <2>1, <2>3 DEF Owes, Stale
  <2> QED
    BY <2>2, <2>3
<1>4. \A p \in Procs : IsBusy(p) /\ ~paused => p[1] = epoch
  BY DEF Control, OneWorks
<1> QED
  BY <1>2, <1>3, <1>4

LEMMA AtWork ==
  ASSUME TypeOK, OnceInv, Control, Counted, NEW p \in Procs,
         IsBusy(p) \/ (p \in Tasks /\ Owes(p))
  PROVE  /\ Claims = 0 /\ maint = "idle"
         /\ status \in {"sending", "paused", "sent"}
         /\ status = "paused" => paused
         /\ phase[p] # "none"
         /\ \A e \in Epochs : phase[<<e, 0>>] # "none" => e <= p[1]
         /\ ~paused => p[1] = epoch
<1>1. phase[p] \notin {"none", "ended"}
  BY DEF IsBusy, Owes, ActPhase
<1>2. Claims = 0
  <2>1. Claims \in Nat
    BY DEF TypeOK, Claims
  <2>2. ~(Claims > 0)
    BY DEF Control, Claimed, AllRest, NobodyOwes
  <2> QED
    BY <2>1, <2>2
<1>3. status # "draft"
  <2> SUFFICES ASSUME status = "draft" PROVE FALSE
    OBVIOUS
  <2>1. epoch = 0
    BY DEF Control, Draft
  <2>2. PICK e \in Epochs, i \in 0..NumSubs : p = <<e, i>>
    BY DEF Procs
  <2>3. e > epoch
    BY <2>1 DEF Epochs
  <2> QED
    BY <1>1, <2>2, <2>3 DEF OnceInv, FreshRuns
<1>4. maint = "idle" /\ status # "failed"
  <2> SUFFICES ASSUME maint = "closing" \/ status = "failed" PROVE FALSE
    BY DEF TypeOK
  <2>1. AllRest /\ ~IsLive
    BY DEF Control, Closing
  <2>2. remaining = Unset /\ ~paused
    BY <2>1 DEF IsLive
  <2>3. NobodyOwes
    BY <2>2 DEF Counted
  <2> QED
    BY <2>1, <2>3 DEF AllRest, NobodyOwes
<1>5. status = "paused" => paused
  BY <1>1 DEF Control, Halted
<1>6. (\A e \in Epochs : phase[<<e, 0>>] # "none" => e <= p[1]) /\ (~paused => p[1] = epoch)
  <2>1. CASE IsBusy(p)
    BY <2>1 DEF Control, OneWorks
  <2>2. CASE ~IsBusy(p)
    <3>1. p \in Tasks /\ p[1] = epoch
      BY <2>2 DEF IsBusy, Owes, ActPhase, Stale
    <3>2. epoch \in Nat /\ \A e \in Epochs : e \in Nat
      BY DEF TypeOK, Epochs
    <3>3. \A e \in Epochs : phase[<<e, 0>>] # "none" => ~(e > epoch)
      BY RunnerAssumption DEF OnceInv, FreshRuns
    <3> QED
      BY <3>1, <3>2, <3>3
  <2> QED
    BY <2>1, <2>2
<1> QED
  BY <1>1, <1>2, <1>3, <1>4, <1>5, <1>6 DEF TypeOK

\* A process at work goes on, or a loop hands leads to the pool.
LEMMA ControlWork ==
  ASSUME TypeOK, OnceInv, Control, Counted, NEW p \in Procs,
         IsBusy(p) \/ (p \in Tasks /\ Owes(p)),
         phase'[p] # "none",
         \A q \in Procs : \/ q = p
                          \/ phase'[q] = phase[q]
                          \/ /\ q \in Tasks /\ phase[q] = "none"
                             /\ phase'[q] = "waiting",
         UNCHANGED <<epoch, paused, callVars>>,
         used'.pauses = used.pauses, used'.resumes = used.resumes,
         used'.crashes = used.crashes,
         status' \in {status, "sent"},
         NoThrow /\ status' = "sending" /\ remaining' = Unset /\ ~paused =>
           \/ phase'[p] \in {"audience"} \cup FinPhase
           \/ remaining = Unset /\ phase[p] \notin {"audience"} \cup FinPhase
  PROVE  Control'
<1> USE DEF callVars
<1>1. /\ Claims = 0 /\ maint = "idle"
      /\ status \in {"sending", "paused", "sent"}
      /\ status = "paused" => paused
      /\ phase[p] # "none"
      /\ \A e \in Epochs : phase[<<e, 0>>] # "none" => e <= p[1]
      /\ ~paused => p[1] = epoch
  BY AtWork
<1>2. Budget' /\ OneCall' /\ Draft' /\ Claimed'
  <2>1. Claims' = 0 /\ dispatchClaims' = 0
    BY <1>1 DEF Claims, TypeOK
  <2>2. status' # "draft" /\ status # "draft"
    BY <1>1
  <2>3. Budget'
    BY <2>2 DEF Control, Budget, Claims
  <2>4. OneCall'
    BY DEF Control, OneCall, Claims
  <2> QED
    BY <2>1, <2>2, <2>3, <2>4 DEF Draft, Claimed
<1>3. \A e \in Epochs : phase'[<<e, 0>>] # "none" => phase[<<e, 0>>] # "none"
  BY <1>1, ProcNames
<1>4. OneWorks'
  <2>1. \A q \in Procs : IsBusy(q)' => q = p \/ IsBusy(q)
    BY DEF IsBusy
  <2>2. \A q \in Procs : IsBusy(q) =>
          /\ \A e \in Epochs : phase[<<e, 0>>] # "none" => e <= q[1]
          /\ ~paused => q[1] = epoch
    BY DEF Control, OneWorks
  <2> QED
    BY <1>1, <1>3, <2>1, <2>2 DEF OneWorks
<1>5. Halted' /\ Pausing' /\ Closing'
  BY <1>1 DEF Control, Halted, Pausing, Closing
<1>6. Moving'
  <2> SUFFICES ASSUME NoThrow, status' = "sending", remaining' = Unset, ~paused
               PROVE  \E q \in Procs : phase'[q] \in {"audience"} \cup FinPhase
    BY DEF Moving, IsLive
  <2>1. CASE phase'[p] \in {"audience"} \cup FinPhase
    BY <2>1
  <2>2. CASE remaining = Unset /\ phase[p] \notin {"audience"} \cup FinPhase
    <3>1. PICK q \in Procs : phase[q] \in {"audience"} \cup FinPhase
      BY <1>1, <2>2 DEF Control, Moving, IsLive
    <3>2. q # p /\ phase[q] \in {"audience"} \cup FinPhase
      BY <2>2, <3>1
    <3>3. phase'[q] = phase[q]
      BY <3>2 DEF FinPhase
    <3> QED
      BY <3>1, <3>3
  <2> QED
    BY <2>1, <2>2
<1> QED
  BY <1>2, <1>4, <1>5, <1>6 DEF Control

\* Nothing has begun while the epoch is 0, and an epoch to come has no process.
LEMMA Unbegun ==
  ASSUME TypeOK, OnceInv, NEW p \in Procs, phase[p] # "none"
  PROVE  p[1] <= epoch /\ epoch > 0
<1>1. PICK e \in Epochs, i \in 0..NumSubs : p = <<e, i>>
  BY DEF Procs
<1>2. ~(e > epoch)
  BY <1>1 DEF OnceInv, FreshRuns
<1> QED
  BY <1>1, <1>2 DEF TypeOK, Epochs

\* A task takes a slot, or leaves its slot because it is stale; a lead leaves.
LEMMA ControlQuiet ==
  ASSUME TypeOK, Control, UNCHANGED <<status, epoch, paused, remaining, consumed,
                                      callVars, used>>,
         \A q \in Procs : \/ phase'[q] = phase[q]
                          \/ /\ q \in Tasks
                             /\ phase[q] \in {"waiting", "pacing"}
                             /\ \/ phase'[q] = "ended"
                                \/ phase'[q] = "pacing" /\ ~Stale(q[1])
  PROVE  Control'
<1> USE DEF callVars
<1>1. \A q \in Procs : IsBusy(q)' <=> IsBusy(q)
  BY DEF IsBusy
<1>2. \A t \in Tasks : Owes(t)' => Owes(t)
  <2> SUFFICES ASSUME NEW t \in Tasks, Owes(t)' PROVE Owes(t)
    OBVIOUS
  <2>1. t \in Procs
    BY ProcNames
  <2>2. CASE phase'[t] = phase[t]
    BY <2>2 DEF Owes, Stale
  <2>3. CASE phase'[t] # phase[t]
    BY <2>1, <2>3 DEF Owes, Stale, ActPhase
  <2> QED
    BY <2>2, <2>3
<1>3. \A e \in Epochs : phase'[<<e, 0>>] = phase[<<e, 0>>]
  BY ProcNames
<1>4. AllRest' <=> AllRest
  BY <1>1 DEF AllRest
<1>5. NobodyOwes => NobodyOwes'
  BY <1>2 DEF NobodyOwes
<1>6. Budget' /\ OneCall' /\ Draft' /\ Claimed'
  BY <1>4, <1>5 DEF Control, Budget, OneCall, Draft, Claimed, Claims, NoCall, IsLive
<1>7. OneWorks'
  BY <1>1, <1>3 DEF Control, OneWorks
<1>8. Halted'
  BY DEF Control, Halted
<1>9. Pausing' /\ Closing'
  BY <1>4 DEF Control, Pausing, Closing, NoCall, IsLive
<1>10. Moving'
  <2>1. \A q \in Procs : phase[q] \in {"audience"} \cup FinPhase => phase'[q] = phase[q]
    BY DEF FinPhase
  <2> QED
    BY <2>1 DEF Control, Moving, IsLive, Claims
<1> QED
  BY <1>6, <1>7, <1>8, <1>9, <1>10 DEF Control

LEMMA ControlDispatchClaim ==
  ASSUME TypeOK, OnceInv, Control, Count, DispatchClaim
  PROVE  Control'
<1> USE DEF dbVars, memVars, runVars, taskVars, callVars, envVars
<1>1. /\ status = "draft" /\ status' = "sending"
      /\ dispatchClaims' = dispatchClaims + 1
      /\ UNCHANGED <<memVars, phase, resumeClaims, pauseReads, pauseWrites, maint, used>>
  BY DEF DispatchClaim
<1>2. /\ epoch = 0 /\ ~IsLive /\ maint = "idle" /\ dispatchClaims = 0
      /\ resumeClaims = 0 /\ pauseReads = 0 /\ pauseWrites = 0
  BY <1>1 DEF Control, Draft, NoCall, TypeOK
<1>3. \A p \in Procs : phase[p] = "none"
  BY <1>2, Unbegun
<1>4. Claims = 0 /\ Claims' = 1
  BY <1>1, <1>2 DEF Claims
<1>5. Budget' /\ OneCall' /\ Draft'
  BY <1>1, <1>2, <1>4 DEF Control, Budget, OneCall, Draft
<1>6. AllRest' /\ NobodyOwes'
  BY <1>1, <1>3, ProcNames DEF AllRest, NobodyOwes, IsBusy, Owes, ActPhase
<1>7. consumed = 0 /\ remaining = Unset
  BY <1>2 DEF Count, Unconsumed, IsLive
<1>8. Claimed'
  BY <1>1, <1>2, <1>6, <1>7 DEF Claimed
<1>9. OneWorks'
  BY <1>1, <1>3 DEF OneWorks, IsBusy
<1>10. Halted' /\ Pausing' /\ Closing'
  BY <1>1, <1>2 DEF Halted, Pausing, Closing
<1>11. Moving'
  BY <1>4 DEF Moving
<1> QED
  BY <1>5, <1>8, <1>9, <1>10, <1>11 DEF Control

\* A claimant goes on under a new epoch.
LEMMA ControlBegins ==
  ASSUME TypeOK, OnceInv, Control, Claims > 0,
         dispatchClaims' = 0, resumeClaims' = 0,
         epoch' = epoch + 1, paused' = FALSE, NEW l \in {"audience", "scan"},
         GoTo(<<epoch', 0>>, l), l = "scan" => remaining' # Unset,
         UNCHANGED <<status, consumed, pauseReads, pauseWrites, maint, used>>
  PROVE  /\ Control' /\ epoch' \in Epochs
         /\ phase'[<<epoch', 0>>] = l
         /\ \A q \in Procs : q # <<epoch', 0>> => phase'[q] = phase[q]
         /\ AllRest /\ NobodyOwes /\ consumed = 0 /\ NobodyOwes'
<1>1. /\ status = "sending" /\ AllRest /\ NobodyOwes /\ consumed = 0 /\ maint = "idle"
  BY DEF Control, Claimed
<1>2. Claims = 1 /\ pauseReads = 0 /\ pauseWrites = 0
  BY DEF Control, OneCall, TypeOK, Claims
<1>3. epoch' \in Epochs
  BY <1>1, <1>2, RunnerAssumption DEF Control, Budget, Epochs, TypeOK
<1>4. /\ phase'[<<epoch', 0>>] = l
      /\ \A q \in Procs : q # <<epoch', 0>> => phase'[q] = phase[q]
  BY <1>3, ProcNames DEF GoTo, TypeOK
<1>5. Budget' /\ OneCall' /\ Draft'
  BY <1>1, <1>2 DEF Control, Budget, OneCall, Draft, TypeOK, Claims
<1>6. Claimed'
  BY <1>2 DEF Claimed, Claims, TypeOK
<1>7. OneWorks'
  <2>1. \A q \in Procs : IsBusy(q)' => q = <<epoch', 0>>
    BY <1>1, <1>4 DEF AllRest, IsBusy
  <2>2. \A e \in Epochs : phase[<<e, 0>>] # "none" => e <= epoch
    BY Unbegun, ProcNames
  <2>3. \A e \in Epochs : phase'[<<e, 0>>] # "none" => e <= epoch'
    <3> SUFFICES ASSUME NEW e \in Epochs, phase'[<<e, 0>>] # "none", e # epoch'
                 PROVE  e <= epoch'
      BY <1>3 DEF Epochs
    <3>1. phase[<<e, 0>>] # "none"
      BY <1>4, ProcNames
    <3> QED
      BY <2>2, <3>1 DEF TypeOK, Epochs
  <2>4. <<epoch', 0>>[1] = epoch'
    OBVIOUS
  <2> QED
    BY <2>1, <2>3, <2>4 DEF OneWorks
<1>8. Halted' /\ Pausing' /\ Closing'
  BY <1>1, <1>2 DEF Halted, Pausing, Closing
<1>9. Moving'
  <2>1. <<epoch', 0>> \in Procs
    BY <1>3, ProcNames
  <2> QED
    BY <1>4, <2>1 DEF Moving, IsLive
<1>10. NobodyOwes'
  <2> SUFFICES ASSUME NEW t \in Tasks PROVE ~Owes(t)'
    BY DEF NobodyOwes
  <2>1. phase'[t] = phase[t]
    BY <1>4, <1>3, ProcNames
  <2>2. ~Owes(t)
    BY <1>1 DEF NobodyOwes
  <2>3. CASE phase[t] \in {"waiting", "pacing"}
    <3>1. t[1] <= epoch
      BY <2>3, Unbegun, ProcNames
    <3>2. t[1] # epoch'
      BY <3>1, ProcNames DEF TypeOK, Epochs
    <3> QED
      BY <2>1, <2>3, <3>2 DEF Owes, Stale, ActPhase
  <2>4. CASE phase[t] \notin {"waiting", "pacing"}
    BY <2>1, <2>2, <2>4 DEF Owes, Stale
  <2> QED
    BY <2>3, <2>4
<1> QED
  BY <1>1, <1>3, <1>4, <1>5, <1>6, <1>7, <1>8, <1>9, <1>10 DEF Control

LEMMA ControlPause ==
  ASSUME Calm, TypeOK, OnceInv, Control, Count, PauseRead \/ PauseMark \/ PauseWrite
  PROVE  Control'
<1> USE DEF dbVars, memVars, runVars, taskVars, callVars, envVars
<1>1. CASE PauseRead
  <2>1. /\ status = "sending" /\ used.pauses < MaxPauses
        /\ used' = [used EXCEPT !.pauses = @ + 1]
        /\ pauseReads' = pauseReads + 1
        /\ UNCHANGED <<dbVars, memVars, phase, dispatchClaims, resumeClaims, pauseWrites, maint>>
    BY <1>1 DEF PauseRead, Spend
  <2>2. NoCall
    BY <1>1 DEF PauseRead, Calm
  <2>3. /\ dispatchClaims = 0 /\ resumeClaims = 0 /\ pauseReads = 0 /\ pauseWrites = 0
    BY <2>2 DEF NoCall, TypeOK
  <2>4. /\ used'.pauses = used.pauses + 1 /\ used'.resumes = used.resumes
        /\ used'.crashes = used.crashes
    BY <2>1 DEF TypeOK
  <2>5. /\ used.pauses \in Nat /\ used.resumes \in Nat /\ used.crashes \in Nat
        /\ epoch \in Nat
    BY DEF TypeOK
  <2>6. Budget'
    BY <2>1, <2>3, <2>4, <2>5, RunnerAssumption DEF Control, Budget, Claims
  <2>7. OneCall' /\ Draft' /\ Claimed' /\ Pausing'
    BY <2>1, <2>3 DEF OneCall, Draft, Claimed, Claims, Pausing
  <2>8. maint = "idle"
    <3>1. MaxPauses # 0
      BY <2>1, <2>5, RunnerAssumption
    <3> QED
      BY <3>1 DEF Control, Closing, TypeOK
  <2>9. OneWorks' /\ Halted' /\ Closing'
    BY <2>1, <2>8 DEF Control, OneWorks, IsBusy, Halted, Closing
  <2>10. Moving'
    BY <2>1 DEF Control, Moving, IsLive, Claims
  <2> QED
    BY <2>6, <2>7, <2>9, <2>10 DEF Control
<1>2. CASE PauseMark
  <2>1. /\ pauseReads > 0 /\ pauseReads' = pauseReads - 1 /\ pauseWrites' = pauseWrites + 1
        /\ paused' = TRUE /\ epoch' = epoch + 1 /\ remaining' = Unset /\ consumed' = 0
        /\ UNCHANGED <<dbVars, phase, dispatchClaims, resumeClaims, maint, used>>
    BY <1>2 DEF PauseMark
  <2>2. /\ dispatchClaims = 0 /\ resumeClaims = 0 /\ pauseReads = 1 /\ pauseWrites = 0
    BY <2>1 DEF Control, OneCall, Claims, TypeOK
  <2>3. status \in {"sending", "sent"} /\ maint = "idle"
    BY <2>1, <2>2 DEF Control, Pausing, Closing, NoCall, TypeOK
  <2>4. Budget' /\ OneCall' /\ Draft' /\ Claimed'
    BY <2>1, <2>2, <2>3 DEF Control, Budget, OneCall, Draft, Claimed, Claims, TypeOK
  <2>5. OneWorks' /\ Halted' /\ Pausing' /\ Closing' /\ Moving'
    BY <2>1, <2>3 DEF Control, OneWorks, IsBusy, Halted, Pausing, Closing, Moving, IsLive
  <2> QED
    BY <2>4, <2>5 DEF Control
<1>3. CASE PauseWrite
  <2>1. /\ pauseWrites > 0 /\ pauseWrites' = pauseWrites - 1 /\ status' = "paused"
        /\ UNCHANGED <<memVars, phase, dispatchClaims, resumeClaims, pauseReads, maint, used>>
    BY <1>3 DEF PauseWrite
  <2>2. /\ dispatchClaims = 0 /\ resumeClaims = 0 /\ pauseReads = 0 /\ pauseWrites = 1
    BY <2>1 DEF Control, OneCall, Claims, TypeOK
  <2>3. paused /\ status \in {"sending", "sent"} /\ maint = "idle"
    BY <2>1, <2>2 DEF Control, Pausing, Closing, NoCall, TypeOK
  <2>4. Budget' /\ OneCall' /\ Draft' /\ Claimed'
    BY <2>1, <2>2, <2>3 DEF Control, Budget, OneCall, Draft, Claimed, Claims
  <2>5. OneWorks' /\ Halted' /\ Pausing' /\ Closing' /\ Moving'
    BY <2>1, <2>2, <2>3 DEF Control, OneWorks, IsBusy, Halted, Pausing, Closing, Moving
  <2> QED
    BY <2>4, <2>5 DEF Control
<1> QED
  BY <1>1, <1>2, <1>3

LEMMA BeginDispatch ==
  ASSUME TypeOK, OnceInv, Control, Count, DispatchBegin
  PROVE  /\ Control' /\ epoch' \in Epochs
         /\ phase'[<<epoch', 0>>] = "audience"
         /\ \A q \in Procs : q # <<epoch', 0>> => phase'[q] = phase[q]
         /\ AllRest /\ NobodyOwes /\ consumed = 0 /\ NobodyOwes'
         /\ epoch = 0 /\ remaining = Unset
<1>1. /\ dispatchClaims > 0 /\ dispatchClaims' = dispatchClaims - 1
      /\ paused' = FALSE /\ epoch' = epoch + 1
      /\ GoTo(<<epoch', 0>>, "audience")
      /\ UNCHANGED <<dbVars, remaining, consumed, runVars, taskVars, tally,
                 resumeClaims, pauseReads, pauseWrites, maint, envVars>>
  BY DEF DispatchBegin
<1>2. Claims > 0 /\ dispatchClaims' = 0 /\ resumeClaims' = 0
  BY <1>1 DEF Control, OneCall, Claims, TypeOK
<1>3. epoch = 0 /\ remaining = Unset
  BY <1>1 DEF Control, Claimed
<1>4. UNCHANGED <<status, consumed, pauseReads, pauseWrites, maint, used>>
  BY <1>1 DEF dbVars, envVars
<1> QED
  BY <1>1, <1>2, <1>3, <1>4, ControlBegins

LEMMA BeginResume ==
  ASSUME TypeOK, OnceInv, Control, Count, ResumeBegin
  PROVE  /\ Control' /\ epoch' \in Epochs
         /\ phase'[<<epoch', 0>>] = "scan"
         /\ \A q \in Procs : q # <<epoch', 0>> => phase'[q] = phase[q]
         /\ AllRest /\ NobodyOwes /\ consumed = 0 /\ NobodyOwes'
<1>1. /\ resumeClaims > 0 /\ resumeClaims' = resumeClaims - 1
      /\ paused' = FALSE /\ epoch' = epoch + 1 /\ remaining' = MaxSafe
      /\ GoTo(<<epoch', 0>>, "scan")
      /\ UNCHANGED <<dbVars, consumed, runVars, taskVars, tally, dispatchClaims,
                 pauseReads, pauseWrites, maint, envVars>>
  BY DEF ResumeBegin
<1>2. Claims > 0 /\ dispatchClaims' = 0 /\ resumeClaims' = 0
  BY <1>1 DEF Control, OneCall, Claims, TypeOK
<1>3. remaining' # Unset
  BY <1>1, RunnerAssumption DEF MaxSafe
<1>4. UNCHANGED <<status, consumed, pauseReads, pauseWrites, maint, used>>
  BY <1>1 DEF dbVars, envVars
<1> QED
  BY <1>1, <1>2, <1>3, <1>4, ControlBegins

LEMMA ControlResumeClaim ==
  ASSUME Calm, TypeOK, OnceInv, Control, Count, ResumeClaim
  PROVE  Control' /\ AllRest /\ NobodyOwes
<1>1. /\ status \in {"paused", "failed"} /\ Settled /\ status' = "sending"
      /\ used.resumes < MaxResumes /\ Spend("resumes")
      /\ resumeClaims' = resumeClaims + 1
      /\ UNCHANGED <<row, sub, totals, memVars, phase, runVars, taskVars, tally,
                 dispatchClaims, pauseReads, pauseWrites, maint, rowId>>
  BY DEF ResumeClaim, Calm
<1>2. /\ dispatchClaims = 0 /\ resumeClaims = 0 /\ pauseReads = 0 /\ pauseWrites = 0
      /\ AllRest
  BY <1>1 DEF Settled, NoCall, TypeOK, AllRest, IsBusy
<1>3. maint = "idle"
  BY <1>1 DEF Control, Closing, TypeOK
<1>4. NobodyOwes /\ consumed = 0
  <2>1. \A t \in Tasks : t \in Procs /\ phase[t] \in {"none", "waiting", "pacing", "ended"}
    BY <1>1, ProcNames DEF Settled
  <2>2. CASE paused
    BY <2>1, <2>2 DEF NobodyOwes, Owes, ActPhase, Stale, Count, Unconsumed
  <2>3. CASE ~paused /\ status = "paused"
    BY <2>1, <2>3 DEF NobodyOwes, Owes, ActPhase, Count, Unconsumed, Control, Halted
  <2>4. CASE ~paused /\ status = "failed"
    BY <2>4 DEF Count, Unconsumed, Counted, Control, Closing, IsLive
  <2> QED
    BY <1>1, <2>2, <2>3, <2>4
<1>5. /\ used' = [used EXCEPT !.resumes = @ + 1]
      /\ used.pauses \in Nat /\ used.resumes \in Nat /\ used.crashes \in Nat
      /\ epoch \in Nat
  BY <1>1 DEF TypeOK, Spend
<1>6. /\ used'.pauses = used.pauses /\ used'.resumes = used.resumes + 1
      /\ used'.crashes = used.crashes
  BY <1>5 DEF TypeOK
<1>7. UNCHANGED <<remaining, consumed, paused, epoch>>
  BY <1>1 DEF memVars
<1>8. Budget'
  BY <1>1, <1>2, <1>5, <1>6, <1>7, RunnerAssumption DEF Control, Budget, Claims
<1>9. AllRest' /\ NobodyOwes'
  BY <1>1, <1>2, <1>4, <1>7 DEF AllRest, IsBusy, NobodyOwes, Owes, Stale
<1>10. OneCall' /\ Draft' /\ Claimed'
  BY <1>1, <1>2, <1>3, <1>4, <1>7, <1>9 DEF OneCall, Draft, Claimed, Claims
<1>11. OneWorks' /\ Halted' /\ Pausing' /\ Closing' /\ Moving'
  BY <1>1, <1>2, <1>3, <1>7 DEF Control, OneWorks, IsBusy, Halted, Pausing, Closing, Moving, Claims
<1> QED
  BY <1>2, <1>4, <1>8, <1>10, <1>11 DEF Control

LEMMA ControlMaintenance ==
  ASSUME Calm, TypeOK, Control, Maintenance
  PROVE  Control' /\ AllRest /\ ~IsLive
<1> USE DEF dbVars, memVars, runVars, taskVars, callVars, envVars
<1>1. CASE MaintenanceRead
  <2>1. /\ status = "sending" /\ Settled /\ ~IsLive /\ maint' = "closing"
        /\ UNCHANGED <<dbVars, memVars, phase, dispatchClaims, resumeClaims, pauseReads, pauseWrites, used>>
    BY <1>1 DEF MaintenanceRead
  <2>2. NoCall /\ AllRest
    BY <2>1 DEF Settled, AllRest, IsBusy
  <2>3. /\ dispatchClaims = 0 /\ resumeClaims = 0 /\ pauseReads = 0 /\ pauseWrites = 0
    BY <2>2 DEF NoCall, TypeOK
  <2>4. MaxPauses = 0
    <3>1. ~NoThrow
      BY <2>1, <2>3 DEF Control, Moving, Claims, Settled, FinPhase
    <3> QED
      BY <3>1 DEF Calm
  <2>5. Budget' /\ OneCall' /\ Draft' /\ Claimed'
    BY <2>1, <2>3 DEF Control, Budget, OneCall, Draft, Claimed, Claims
  <2>6. OneWorks' /\ Halted' /\ Pausing'
    BY <2>1 DEF Control, OneWorks, IsBusy, Halted, Pausing
  <2>7. AllRest' /\ NoCall' /\ ~IsLive'
    BY <2>1, <2>2 DEF AllRest, IsBusy, NoCall, IsLive
  <2>8. Closing'
    BY <2>1, <2>4, <2>7 DEF Closing
  <2>9. Moving'
    BY <2>1 DEF Control, Moving, Claims, IsLive
  <2> QED
    BY <2>1, <2>2, <2>5, <2>6, <2>8, <2>9 DEF Control
<1>2. CASE MaintenanceWrite
  <2>1. /\ maint = "closing" /\ maint' = "idle" /\ status' \in {"failed", "sent"}
        /\ UNCHANGED <<memVars, phase, dispatchClaims, resumeClaims, pauseReads, pauseWrites, used>>
    BY <1>2 DEF MaintenanceWrite
  <2>2. status = "sending" /\ MaxPauses = 0 /\ NoCall /\ AllRest /\ ~IsLive
    BY <2>1 DEF Control, Closing
  <2>3. /\ dispatchClaims = 0 /\ resumeClaims = 0 /\ pauseReads = 0 /\ pauseWrites = 0
    BY <2>2 DEF NoCall, TypeOK
  <2>4. Budget' /\ OneCall' /\ Draft' /\ Claimed'
    BY <2>1, <2>2, <2>3 DEF Control, Budget, OneCall, Draft, Claimed, Claims
  <2>5. OneWorks' /\ Halted' /\ Pausing'
    BY <2>1, <2>3 DEF Control, OneWorks, IsBusy, Halted, Pausing
  <2>6. AllRest' /\ NoCall' /\ ~IsLive'
    BY <2>1, <2>2 DEF AllRest, IsBusy, NoCall, IsLive
  <2>7. Closing' /\ Moving'
    BY <2>1, <2>2, <2>6 DEF Closing, Moving
  <2> QED
    BY <2>2, <2>4, <2>5, <2>7 DEF Control
<1> QED
  BY <1>1, <1>2 DEF Maintenance

LEMMA ControlRestart ==
  ASSUME TypeOK, Control, Restart
  PROVE  Control' /\ AllRest' /\ NobodyOwes'
<1> USE DEF dbVars, memVars, runVars, taskVars, callVars, envVars
<1>1. /\ used.crashes < MaxCrashes /\ Spend("crashes")
      /\ remaining' = Unset /\ consumed' = 0 /\ paused' = FALSE
      /\ phase' = [p \in Procs |-> IF phase[p] = "none" THEN "none" ELSE "ended"]
      /\ dispatchClaims' = 0 /\ pauseReads' = 0 /\ pauseWrites' = 0
      /\ resumeClaims' = IF status = "sending" THEN 1 ELSE 0
      /\ maint' = "idle"
      /\ UNCHANGED <<status, epoch>>
  BY DEF Restart
<1>2. \A p \in Procs : phase'[p] \in {"none", "ended"}
  BY <1>1
<1>3. AllRest' /\ NobodyOwes'
  BY <1>2, ProcNames DEF AllRest, IsBusy, NobodyOwes, Owes, ActPhase
<1>a. used' = [used EXCEPT !.crashes = @ + 1]
  BY <1>1 DEF Spend
<1>4. /\ used' = [used EXCEPT !.crashes = @ + 1]
      /\ used.pauses \in Nat /\ used.resumes \in Nat /\ used.crashes \in Nat
      /\ epoch \in Nat /\ Claims \in Nat /\ pauseReads \in Nat
  BY <1>a DEF TypeOK, Claims
<1>5. /\ used'.pauses = used.pauses /\ used'.resumes = used.resumes
      /\ used'.crashes = used.crashes + 1
  BY <1>4 DEF TypeOK
<1>6. Claims' = IF status = "sending" THEN 1 ELSE 0
  BY <1>1 DEF Claims
<1>7. Budget'
  BY <1>1, <1>4, <1>5, <1>6, RunnerAssumption DEF Control, Budget
<1>8. OneCall' /\ Claimed' /\ Pausing'
  BY <1>1, <1>3, <1>6 DEF OneCall, Claimed, Pausing
<1>9. Draft'
  BY <1>1 DEF Control, Draft, NoCall, IsLive
<1>10. OneWorks' /\ Halted'
  BY <1>1, <1>2, <1>3 DEF OneWorks, AllRest, Halted
<1>11. Closing'
  <2>1. status = "failed" => MaxPauses = 0 /\ NoCall'
    BY <1>1 DEF Control, Closing, NoCall
  <2> QED
    BY <1>1, <1>3, <2>1 DEF Closing, IsLive
<1>12. Moving'
  BY <1>1, <1>6 DEF Moving
<1> QED
  BY <1>3, <1>7, <1>8, <1>9, <1>10, <1>11, <1>12 DEF Control

LEMMA OwingSet ==
  /\ Owing \in SUBSET Subs
  /\ NobodyOwes <=> Owing = {}
<1>1. Owing \in SUBSET Subs
  BY DEF Owing
<1>2. NobodyOwes => Owing = {}
  BY ProcNames DEF NobodyOwes, Owing
<1>3. Owing = {} => NobodyOwes
  <2> SUFFICES ASSUME NEW t \in Tasks, Owes(t) PROVE Owing # {}
    BY DEF NobodyOwes
  <2>1. t[1] \in Epochs /\ t[2] \in Subs /\ t = <<t[1], t[2]>>
    BY ProcNames
  <2>2. Owes(<<t[1], t[2]>>)
    BY <2>1
  <2> QED
    BY <2>1, <2>2 DEF Owing
<1> QED
  BY <1>1, <1>2, <1>3

\* Nothing new is owed, no loop and no finalize() begins, nothing is counted.
LEMMA CountKept ==
  ASSUME TypeOK, Count, UNCHANGED <<remaining, consumed, paused>>,
         \A t \in Tasks : Owes(t)' => Owes(t),
         \A e \in Epochs :
           /\ phase'[<<e, 0>>] = "audience" => phase[<<e, 0>>] = "audience"
           /\ phase'[<<e, 0>>] \in Adding => phase[<<e, 0>>] \in Adding
           /\ \A s \in Subs : phase[<<e, s>>] = "ended" => phase'[<<e, s>>] = "ended",
         Finalizing' => Finalizing
  PROVE  Count'
<1>1. NobodyOwes => NobodyOwes'
  BY DEF NobodyOwes
<1>2. Owing' \subseteq Owing
  BY ProcNames DEF Owing
<1>3. Cardinality(Owing') <= Cardinality(Owing)
  BY <1>2, SubsFinite, OwingSet, FS_Subset
<1>4. NoLoop => NoLoop'
  BY DEF NoLoop, RunPhase, Adding
<1>5. ASSUME NEW e \in Epochs
      PROVE  Cardinality(EndedOf(e)) <= Cardinality(EndedOf(e)')
  <2>1. EndedOf(e)' \in SUBSET Subs
    BY DEF EndedOf
  <2>2. IsFiniteSet(EndedOf(e)')
    BY <2>1, SubsFinite
  <2>3. EndedOf(e) \subseteq EndedOf(e)'
    BY DEF EndedOf
  <2> QED
    BY <2>2, <2>3, FS_Subset
<1>6. InRange' /\ Unconsumed' /\ Counted'
  BY <1>1 DEF Count, InRange, Unconsumed, Counted
<1>7. Enough'
  <2> SUFFICES ASSUME remaining' \in 1..NumSubs
               PROVE  Cardinality(Owing') <= remaining' /\ NoLoop'
    BY DEF Enough
  <2>1. Cardinality(Owing) <= remaining /\ NoLoop
    BY DEF Count, Enough
  <2>2. Cardinality(Owing) \in Nat /\ Cardinality(Owing') \in Nat
    <3>1. Owing' \in SUBSET Subs
      BY DEF Owing
    <3> QED
      BY <3>1, OwingSet, SubsFinite
  <2> QED
    BY <1>3, <1>4, <2>1, <2>2
<1>8. LoopCounts'
  <2> SUFFICES ASSUME NEW e \in Epochs
               PROVE  /\ phase'[<<e, 0>>] = "audience" => remaining' = Unset
                      /\ phase'[<<e, 0>>] \in Adding =>
                           /\ consumed' <= Cardinality(EndedOf(e)')
                           /\ ~paused' => remaining' = MaxSafe
    BY DEF LoopCounts
  <2>1. EndedOf(e) \in SUBSET Subs /\ EndedOf(e)' \in SUBSET Subs
    BY DEF EndedOf
  <2>2. Cardinality(EndedOf(e)) \in Nat /\ Cardinality(EndedOf(e)') \in Nat
    BY <2>1, SubsFinite
  <2>3. consumed \in Nat
    BY DEF TypeOK
  <2> QED
    BY <1>5, <2>2, <2>3 DEF Count, LoopCounts
<1>9. LastOfAll'
  BY <1>1, <1>4 DEF Count, LastOfAll
<1> QED
  BY <1>6, <1>7, <1>8, <1>9 DEF Count

\* One process moves without counting anything.
LEMMA CountMoves ==
  ASSUME TypeOK, Count, UNCHANGED <<remaining, consumed, paused, epoch>>,
         NEW p \in Procs, NEW l, phase'[p] = l,
         \A q \in Procs : q # p => phase'[q] = phase[q],
         l = "audience" => phase[p] = "audience",
         l \in Adding => phase[p] \in Adding,
         l \in FinPhase => phase[p] \in FinPhase,
         phase[p] # "ended",
         l \in {"waiting", "pacing"} => phase[p] \in {"waiting", "pacing"},
         l \in ActPhase => (p \in Tasks => Owes(p))
  PROVE  Count'
<1>1. \A t \in Tasks : Owes(t)' => Owes(t)
  <2> SUFFICES ASSUME NEW t \in Tasks, Owes(t)' PROVE Owes(t)
    OBVIOUS
  <2>1. t \in Procs
    BY ProcNames
  <2>2. CASE t = p
    BY <2>1, <2>2 DEF Owes, Stale
  <2>3. CASE t # p
    BY <2>1, <2>3 DEF Owes, Stale
  <2> QED
    BY <2>2, <2>3
<1>2. Finalizing' => Finalizing
  BY DEF Finalizing
<1>3. ASSUME NEW e \in Epochs
      PROVE  /\ phase'[<<e, 0>>] = "audience" => phase[<<e, 0>>] = "audience"
             /\ phase'[<<e, 0>>] \in Adding => phase[<<e, 0>>] \in Adding
             /\ \A s \in Subs : phase[<<e, s>>] = "ended" => phase'[<<e, s>>] = "ended"
  BY ProcNames
<1> QED
  BY <1>1, <1>2, <1>3, CountKept

\* No process moves.
LEMMA CountStill ==
  ASSUME TypeOK, Count, UNCHANGED <<remaining, consumed, paused, epoch, phase>>
  PROVE  Count'
<1>1. \A t \in Tasks : Owes(t)' => Owes(t)
  BY DEF Owes, Stale
<1>2. Finalizing' => Finalizing
  BY DEF Finalizing
<1> QED
  BY <1>1, <1>2, CountKept

\* A loop hands leads to the pool.
LEMMA CountAdds ==
  ASSUME TypeOK, OnceInv, Control, Count, NEW e \in Epochs,
         phase[<<e, 0>>] \in Adding, phase'[<<e, 0>>] \in Adding,
         UNCHANGED <<remaining, consumed, paused, epoch>>,
         \A q \in Procs : \/ q = <<e, 0>>
                          \/ phase'[q] = phase[q]
                          \/ q[1] = e /\ phase[q] = "none" /\ phase'[q] = "waiting"
  PROVE  Count'
<1>0. phase[<<e, 0>>] \in RunPhase /\ <<e, 0>> \in Procs /\ IsBusy(<<e, 0>>)
  BY ProcNames DEF Adding, RunPhase, IsBusy
<1>1. ~NoLoop
  BY <1>0 DEF NoLoop
<1>2. remaining \notin 1..NumSubs /\ ~Finalizing
  BY <1>1 DEF Count, Enough, LastOfAll
<1>3. InRange' /\ Unconsumed' /\ Enough'
  BY <1>2 DEF Count, InRange, Unconsumed, Enough
<1>4. ~Finalizing'
  <2> SUFFICES ASSUME NEW q \in Procs, phase'[q] \in FinPhase PROVE FALSE
    BY DEF Finalizing
  <2>1. q # <<e, 0>>
    BY DEF Adding, FinPhase
  <2>2. phase'[q] = phase[q]
    BY <2>1 DEF FinPhase
  <2> QED
    BY <1>2, <2>2 DEF Finalizing
<1>5. Counted'
  <2>1. ~paused => remaining = MaxSafe
    BY DEF Count, LoopCounts
  <2>2. MaxSafe # Unset
    BY RunnerAssumption DEF MaxSafe
  <2> SUFFICES ASSUME paused, remaining = MaxSafe PROVE NobodyOwes'
    BY <2>1, <2>2 DEF Counted
  <2>3. NobodyOwes
    BY DEF Count, Counted
  <2>4. ASSUME NEW t \in Tasks PROVE ~Owes(t)'
    <3>1. t \in Procs /\ t # <<e, 0>> /\ ~Owes(t)
      BY <2>3, ProcNames DEF NobodyOwes
    <3>2. CASE phase'[t] = phase[t]
      BY <3>1, <3>2 DEF Owes, Stale
    <3>3. CASE phase'[t] = "waiting"
      BY <3>3 DEF Owes, Stale, ActPhase
    <3> QED
      BY <3>1, <3>2, <3>3
  <2> QED
    BY <2>4 DEF NobodyOwes
<1>6. LoopCounts'
  <2> SUFFICES ASSUME NEW d \in Epochs, phase'[<<d, 0>>] \in {"audience"} \cup Adding
               PROVE  /\ d = e
                      /\ consumed' <= Cardinality(EndedOf(d)')
                      /\ ~paused' => remaining' = MaxSafe
    BY DEF LoopCounts, Adding
  <2>1. d = e
    <3> SUFFICES ASSUME d # e PROVE FALSE
      OBVIOUS
    <3>1. phase'[<<d, 0>>] = phase[<<d, 0>>]
      BY ProcNames DEF Adding
    <3>2. IsBusy(<<d, 0>>) /\ <<d, 0>> \in Procs
      BY <3>1, ProcNames DEF IsBusy, Adding
    <3> QED
      BY <1>0, <3>2, SameRun
  <2>2. EndedOf(e)' = EndedOf(e)
    BY ProcNames DEF EndedOf
  <2> QED
    BY <2>1, <2>2 DEF Count, LoopCounts
<1> QED
  BY <1>3, <1>4, <1>5, <1>6 DEF Count, LastOfAll

\* The count is set, or the last one is taken off: finalize() may begin.
LEMMA CountSets ==
  ASSUME TypeOK, OnceInv, Control, Count, NEW p \in Procs, NEW n \in Int,
         SetRemaining(p, n), UNCHANGED <<paused, epoch>>, ~Finalizing,
         phase[p] # "none",
         Cardinality(Owing') <= n, n <= NumSubs,
         \A e \in Epochs : phase[<<e, 0>>] \in RunPhase => p = <<e, 0>>
  PROVE  Count'
<1>1. PICK l \in {"finRead", "ended"} :
        /\ phase'[p] = l
        /\ \A q \in Procs : q # p => phase'[q] = phase[q]
        /\ n <= 0 => l = "finRead" /\ remaining' = Unset /\ consumed' = 0
        /\ n > 0 => l = "ended" /\ remaining' = n /\ consumed' = consumed
  BY DEF SetRemaining, GoTo, TypeOK
<1>2. NoLoop'
  <2> SUFFICES ASSUME NEW e \in Epochs PROVE phase'[<<e, 0>>] \notin RunPhase
    BY DEF NoLoop
  <2>1. CASE p = <<e, 0>>
    BY <1>1, <2>1 DEF RunPhase
  <2>2. CASE p # <<e, 0>>
    BY <1>1, <2>2, ProcNames
  <2> QED
    BY <2>1, <2>2
<1>3. Owing' \in SUBSET Subs /\ Cardinality(Owing') \in Nat /\ IsFiniteSet(Owing')
  <2>1. Owing' \in SUBSET Subs
    BY DEF Owing
  <2> QED
    BY <2>1, SubsFinite
<1>4. n <= 0 => NobodyOwes'
  <2>1. n <= 0 => Owing' = {}
    BY <1>3, FS_EmptySet
  <2>2. ASSUME Owing' = {}, NEW t \in Tasks, Owes(t)' PROVE FALSE
    <3>1. t[1] \in Epochs /\ t[2] \in Subs /\ t = <<t[1], t[2]>>
      BY ProcNames
    <3>2. Owes(<<t[1], t[2]>>)'
      BY <2>2, <3>1
    <3> QED
      BY <2>2, <3>1, <3>2 DEF Owing
  <2> QED
    BY <2>1, <2>2 DEF NobodyOwes
<1>5. paused => consumed' = 0
  BY <1>1 DEF Count, Unconsumed
<1>6. InRange' /\ Unconsumed' /\ Enough'
  BY <1>1, <1>2, <1>5 DEF InRange, Unconsumed, Enough
<1>7. Counted'
  BY <1>1, <1>4, RunnerAssumption DEF Counted, MaxSafe
<1>8. LoopCounts'
  BY <1>2 DEF NoLoop, LoopCounts, Adding, RunPhase
<1>9. LastOfAll'
  <2>1. n > 0 => ~Finalizing'
    BY <1>1 DEF Finalizing, FinPhase
  <2> QED
    BY <1>1, <1>2, <1>4, <2>1 DEF LastOfAll
<1> QED
  BY <1>6, <1>7, <1>8, <1>9 DEF Count

-----------------------------------------------------------------------------
\* The completion count covers the tasks that are still at work.

CalmInv == TypeOK /\ OnceInv /\ Control /\ Count

LEMMA CountBegins ==
  ASSUME TypeOK, OnceInv, Control, Count, DispatchBegin \/ ResumeBegin
  PROVE  Count'
<1>1. /\ epoch' \in Epochs
      /\ phase'[<<epoch', 0>>] \in {"audience", "scan"}
      /\ \A q \in Procs : q # <<epoch', 0>> => phase'[q] = phase[q]
      /\ AllRest /\ consumed = 0 /\ NobodyOwes'
  BY BeginDispatch, BeginResume
<1>2. /\ consumed' = 0 /\ paused' = FALSE
      /\ \/ phase'[<<epoch', 0>>] = "audience" /\ remaining' = Unset
         \/ phase'[<<epoch', 0>>] = "scan" /\ remaining' = MaxSafe
  BY <1>1, BeginDispatch, BeginResume DEF DispatchBegin, ResumeBegin
<1>3. \A q \in Procs : q # <<epoch', 0>> => ~IsBusy(q)'
  BY <1>1 DEF AllRest, IsBusy
<1>4. ~Finalizing'
  BY <1>1, <1>3 DEF Finalizing, IsBusy, FinPhase
<1>5. InRange' /\ Unconsumed' /\ Counted' /\ Enough' /\ LastOfAll'
  BY <1>1, <1>2, <1>4, RunnerAssumption
     DEF InRange, Unconsumed, Counted, Enough, LastOfAll, MaxSafe
<1>6. LoopCounts'
  <2> SUFFICES ASSUME NEW e \in Epochs, phase'[<<e, 0>>] \in {"audience"} \cup Adding
               PROVE  /\ phase'[<<e, 0>>] = "audience" => remaining' = Unset
                      /\ phase'[<<e, 0>>] \in Adding =>
                           /\ consumed' <= Cardinality(EndedOf(e)')
                           /\ ~paused' => remaining' = MaxSafe
    BY DEF LoopCounts, Adding
  <2>1. e = epoch'
    BY <1>3, ProcNames DEF IsBusy, Adding
  <2>2. EndedOf(e)' \in SUBSET Subs
    BY DEF EndedOf
  <2>3. Cardinality(EndedOf(e)') \in Nat
    BY <2>2, SubsFinite
  <2> QED
    BY <1>2, <2>1, <2>3 DEF Adding
<1> QED
  BY <1>5, <1>6 DEF Count

LEMMA CountResolved ==
  ASSUME TypeOK, OnceInv, Control, Count, NEW e \in Epochs, AudienceResolved(e)
  PROVE  Count' /\ NobodyOwes
<1> USE DEF dbVars, memVars, runVars, taskVars, callVars, envVars
<1>1. /\ phase[<<e, 0>>] = "audience" /\ phase'[<<e, 0>>] = "target"
      /\ \A q \in Procs : q # <<e, 0>> => phase'[q] = phase[q]
      /\ remaining' = MaxSafe /\ UNCHANGED <<consumed, paused, epoch>>
      /\ <<e, 0>> \in Procs
  BY ProcNames DEF AudienceResolved, GoTo, TypeOK
<1>2. remaining = Unset /\ consumed = 0
  BY <1>1 DEF Count, LoopCounts, Unconsumed
<1>3. IsBusy(<<e, 0>>)
  BY <1>1 DEF IsBusy
<1>4. NobodyOwes
  <2> SUFFICES ASSUME NEW t \in Tasks, Owes(t) PROVE FALSE
    BY DEF NobodyOwes
  <2>1. t[1] = e
    BY <1>1, <1>3, SameRun
  <2>2. phase[t] = "none"
    BY <1>1, <2>1, ProcNames DEF OnceInv, FreshRuns
  <2> QED
    BY <2>2 DEF Owes, ActPhase
<1>5. NobodyOwes'
  BY <1>1, <1>4, ProcNames DEF NobodyOwes, Owes, Stale
<1>6. ~Finalizing
  BY <1>1 DEF Count, LastOfAll, NoLoop, RunPhase
<1>7. ~Finalizing'
  BY <1>1, <1>6 DEF Finalizing, FinPhase
<1>8. InRange' /\ Unconsumed' /\ Counted' /\ Enough' /\ LastOfAll'
  BY <1>1, <1>2, <1>5, <1>7, RunnerAssumption
     DEF InRange, Unconsumed, Counted, Enough, LastOfAll, MaxSafe
<1>9. LoopCounts'
  <2> SUFFICES ASSUME NEW d \in Epochs, phase'[<<d, 0>>] \in {"audience"} \cup Adding
               PROVE  /\ d = e
                      /\ consumed' <= Cardinality(EndedOf(d)')
                      /\ ~paused' => remaining' = MaxSafe
    BY <1>1 DEF LoopCounts, Adding
  <2>1. d = e
    <3> SUFFICES ASSUME d # e PROVE FALSE
      OBVIOUS
    <3>1. IsBusy(<<d, 0>>) /\ <<d, 0>> \in Procs
      BY <1>1, ProcNames DEF IsBusy, Adding
    <3> QED
      BY <1>1, <1>3, <3>1, SameRun
  <2>2. EndedOf(d)' \in SUBSET Subs
    BY DEF EndedOf
  <2>3. Cardinality(EndedOf(d)') \in Nat
    BY <2>2, SubsFinite
  <2> QED
    BY <1>1, <1>2, <2>1, <2>3
<1> QED
  BY <1>4, <1>8, <1>9 DEF Count

LEMMA CountPauseMark ==
  ASSUME TypeOK, Count, PauseMark
  PROVE  Count'
<1>1. /\ paused' = TRUE /\ epoch' = epoch + 1 /\ remaining' = Unset /\ consumed' = 0
      /\ phase' = phase
  BY DEF PauseMark
<1>2. \A t \in Tasks : Owes(t)' => Owes(t)
  BY <1>1 DEF Owes, Stale, ActPhase
<1>3. (NobodyOwes => NobodyOwes') /\ (NoLoop => NoLoop') /\ (Finalizing' => Finalizing)
  BY <1>1, <1>2 DEF NobodyOwes, NoLoop, Finalizing
<1>4. InRange' /\ Unconsumed' /\ Counted' /\ Enough' /\ LastOfAll'
  BY <1>1, <1>3, RunnerAssumption
     DEF Count, InRange, Unconsumed, Counted, Enough, LastOfAll, MaxSafe
<1>5. LoopCounts'
  <2>1. ASSUME NEW e \in Epochs PROVE consumed' <= Cardinality(EndedOf(e)')
    <3>1. EndedOf(e)' \in SUBSET Subs
      BY DEF EndedOf
    <3>2. Cardinality(EndedOf(e)') \in Nat
      BY <3>1, SubsFinite
    <3> QED
      BY <1>1, <3>2
  <2> QED
    BY <1>1, <2>1 DEF LoopCounts
<1> QED
  BY <1>4, <1>5 DEF Count

LEMMA CountRestart ==
  ASSUME TypeOK, Control, Restart
  PROVE  Count'
<1>1. /\ remaining' = Unset /\ consumed' = 0 /\ paused' = FALSE
      /\ \A p \in Procs : phase'[p] \in {"none", "ended"}
  BY DEF Restart
<1>2. NobodyOwes'
  BY ControlRestart
<1>3. NoLoop' /\ ~Finalizing'
  BY <1>1, ProcNames DEF NoLoop, RunPhase, Finalizing, FinPhase
<1>4. InRange' /\ Unconsumed' /\ Counted' /\ Enough' /\ LastOfAll'
  BY <1>1, <1>2, <1>3, RunnerAssumption
     DEF InRange, Unconsumed, Counted, Enough, LastOfAll, MaxSafe
<1>5. LoopCounts'
  BY <1>3 DEF LoopCounts, NoLoop, RunPhase, Adding
<1> QED
  BY <1>4, <1>5 DEF Count

\* The tasks a run owes or has ended are among those it created.
LEMMA LoopOwes ==
  ASSUME TypeOK, OnceInv, Control, Count, NEW e \in Epochs,
         phase[<<e, 0>>] \in Adding
  PROVE  /\ Cardinality(Owing) <= Added(e) - consumed
         /\ Added(e) = 0 => Cardinality(Owing) = 0
         /\ Added(e) <= NumSubs
<1> DEFINE Has == {s \in Subs : phase[<<e, s>>] # "none"}
<1>1. IsBusy(<<e, 0>>) /\ <<e, 0>> \in Procs
  BY ProcNames DEF IsBusy, Adding
<1>2. Owing \subseteq {s \in Subs : Owes(<<e, s>>)}
  <2> SUFFICES ASSUME NEW s \in Subs, NEW d \in Epochs, Owes(<<d, s>>)
               PROVE  Owes(<<e, s>>)
    BY DEF Owing
  <2>1. <<d, s>> \in Tasks
    BY ProcNames
  <2>2. <<d, s>>[1] = <<e, 0>>[1]
    BY <1>1, <2>1, SameRun
  <2> QED
    BY <2>2
<1>3. Owing \cup EndedOf(e) \subseteq Has
  BY <1>2 DEF EndedOf, Owes, ActPhase
<1>4. Owing \cap EndedOf(e) = {}
  BY <1>2 DEF EndedOf, Owes, ActPhase
<1>5. /\ IsFiniteSet(Owing) /\ Cardinality(Owing) \in Nat
      /\ IsFiniteSet(EndedOf(e)) /\ Cardinality(EndedOf(e)) \in Nat
      /\ IsFiniteSet(Has) /\ Cardinality(Has) \in Nat
  <2>1. Owing \in SUBSET Subs /\ EndedOf(e) \in SUBSET Subs /\ Has \in SUBSET Subs
    BY DEF Owing, EndedOf
  <2> QED
    BY <2>1, SubsFinite
<1>6. Cardinality(Owing \cup EndedOf(e)) = Cardinality(Owing) + Cardinality(EndedOf(e))
  <2>1. Cardinality(Owing \cap EndedOf(e)) = 0
    BY <1>4, FS_EmptySet
  <2>2. Cardinality(Owing \cup EndedOf(e))
          = Cardinality(Owing) + Cardinality(EndedOf(e)) - Cardinality(Owing \cap EndedOf(e))
    BY <1>5, FS_Union
  <2> QED
    BY <1>5, <2>1, <2>2
<1>7. Cardinality(Owing \cup EndedOf(e)) <= Cardinality(Has)
  BY <1>3, <1>5, FS_Subset
<1>8. Cardinality(Has) <= NumSubs
  <2>1. IsFiniteSet(Subs) /\ Cardinality(Subs) = NumSubs
    BY RunnerAssumption, FS_Interval DEF Subs
  <2>2. Has \subseteq Subs
    OBVIOUS
  <2> QED
    BY <2>1, <2>2, FS_Subset
<1>9. Added(e) = Cardinality(Has)
  BY DEF Added
<1>10. consumed <= Cardinality(EndedOf(e)) /\ consumed \in Nat
  BY DEF Count, LoopCounts, TypeOK
<1> HIDE DEF Has
<1> QED
  BY <1>5, <1>6, <1>7, <1>8, <1>9, <1>10

\* A loop ends and sets the count.
LEMMA CountLoopEnds ==
  ASSUME TypeOK, OnceInv, Control, Count, NEW e \in Epochs,
         phase[<<e, 0>>] \in Adding, UNCHANGED <<paused, epoch>>,
         SetRemaining(<<e, 0>>, IF Added(e) = 0 THEN 0 ELSE Added(e) - consumed)
  PROVE  Count'
<1> DEFINE n == IF Added(e) = 0 THEN 0 ELSE Added(e) - consumed
<1>1. <<e, 0>> \in Procs /\ IsBusy(<<e, 0>>) /\ phase[<<e, 0>>] \in RunPhase
  BY ProcNames DEF IsBusy, Adding, RunPhase
<1>2. n \in Int /\ n <= NumSubs /\ Cardinality(Owing) <= n
  <2>1. consumed \in Nat /\ Added(e) \in Nat
    BY CountsAreNat DEF TypeOK
  <2>2. Owing \in SUBSET Subs
    BY OwingSet
  <2>3. Cardinality(Owing) \in Nat
    BY <2>2, SubsFinite
  <2> QED
    BY <2>1, <2>3, LoopOwes, RunnerAssumption
<1>3. ~Finalizing
  BY <1>1 DEF Count, LastOfAll, NoLoop
<1>4. \A d \in Epochs : phase[<<d, 0>>] \in RunPhase => <<e, 0>> = <<d, 0>>
  <2> SUFFICES ASSUME NEW d \in Epochs, phase[<<d, 0>>] \in RunPhase PROVE d = e
    OBVIOUS
  <2>1. IsBusy(<<d, 0>>) /\ <<d, 0>> \in Procs
    BY ProcNames DEF IsBusy, RunPhase
  <2> QED
    BY <1>1, <2>1, SameRun
<1>5. Owing' = Owing
  <2>1. \A q \in Procs : q # <<e, 0>> => phase'[q] = phase[q]
    BY DEF SetRemaining, GoTo, TypeOK
  <2>2. \A d \in Epochs, s \in Subs : Owes(<<d, s>>)' <=> Owes(<<d, s>>)
    BY <2>1, ProcNames DEF Owes, Stale
  <2> QED
    BY <2>2 DEF Owing
<1>6. phase[<<e, 0>>] # "none"
  BY DEF Adding
<1> HIDE DEF n
<1>7. SetRemaining(<<e, 0>>, n)
  BY DEF n
<1> QED
  BY <1>1, <1>2, <1>3, <1>4, <1>5, <1>6, <1>7, CountSets

LEMMA CountTaskDone ==
  ASSUME TypeOK, OnceInv, Control, Count, NEW t \in Tasks, TaskDone(t)
  PROVE  Count'
<1>1. phase[t] = "done" /\ UNCHANGED <<paused, epoch>> /\ t \in Procs
  BY ProcNames DEF TaskDone, memVars
<1>2. Owes(t) /\ IsBusy(t)
  BY <1>1 DEF Owes, ActPhase, IsBusy
<1>3. t[1] \in Epochs /\ t[2] \in Subs /\ t = <<t[1], t[2]>>
  BY ProcNames
<1>4. ~NobodyOwes /\ ~Finalizing
  BY <1>2 DEF NobodyOwes, Count, LastOfAll
<1>5. CASE remaining = Unset /\ GoTo(t, "ended") /\ UNCHANGED <<remaining, consumed>>
  <2>1. phase'[t] = "ended" /\ \A q \in Procs : q # t => phase'[q] = phase[q]
    BY <1>1, <1>5 DEF GoTo, TypeOK
  <2> QED
    BY <1>1, <1>5, <2>1, CountMoves DEF Adding, FinPhase, ActPhase
<1>6. CASE remaining = MaxSafe /\ consumed' = consumed + 1 /\ GoTo(t, "ended") /\ UNCHANGED remaining
  <2>1. phase'[t] = "ended" /\ \A q \in Procs : q # t => phase'[q] = phase[q]
    BY <1>1, <1>6 DEF GoTo, TypeOK
  <2>2. ~paused
    BY <1>4, <1>6 DEF Count, Counted
  <2>3. \A e \in Epochs : phase'[<<e, 0>>] = phase[<<e, 0>>]
    BY <2>1, ProcNames
  <2>4. ~Finalizing'
    BY <1>4, <2>1 DEF Finalizing, FinPhase
  <2>5. InRange' /\ Unconsumed' /\ Counted' /\ Enough' /\ LastOfAll'
    BY <1>1, <1>6, <2>2, <2>4, RunnerAssumption
       DEF InRange, Unconsumed, Counted, Enough, LastOfAll, MaxSafe
  <2>6. LoopCounts'
    <3> SUFFICES ASSUME NEW e \in Epochs, phase[<<e, 0>>] \in {"audience"} \cup Adding
                 PROVE  /\ phase[<<e, 0>>] = "audience" => remaining = Unset
                        /\ phase[<<e, 0>>] \in Adding =>
                             /\ consumed' <= Cardinality(EndedOf(e)')
                             /\ ~paused => remaining = MaxSafe
      BY <1>1, <1>6, <2>3 DEF LoopCounts, Adding
    <3>1. <<e, 0>> \in Procs /\ IsBusy(<<e, 0>>)
      BY ProcNames DEF IsBusy, Adding
    <3>2. t[1] = e
      BY <1>1, <1>2, <3>1, SameRun
    <3>3. EndedOf(e)' = EndedOf(e) \cup {t[2]}
      BY <1>3, <2>1, <3>2, ProcNames DEF EndedOf
    <3>4. t[2] \notin EndedOf(e)
      BY <1>1, <1>3, <3>2 DEF EndedOf
    <3>5. EndedOf(e) \in SUBSET Subs
      BY DEF EndedOf
    <3>6. IsFiniteSet(EndedOf(e)) /\ Cardinality(EndedOf(e)) \in Nat
      BY <3>5, SubsFinite
    <3>7. Cardinality(EndedOf(e)') = Cardinality(EndedOf(e)) + 1
      BY <3>3, <3>4, <3>6, FS_AddElement
    <3> QED
      BY <1>6, <3>6, <3>7 DEF Count, LoopCounts, TypeOK
  <2> QED
    BY <2>5, <2>6 DEF Count
<1>7. CASE remaining \notin {MaxSafe, Unset} /\ SetRemaining(t, remaining - 1)
  <2>1. \A q \in Procs : q # t => phase'[q] = phase[q]
    BY <1>7 DEF SetRemaining, GoTo, TypeOK
  <2>2. phase'[t] \in {"finRead", "ended"}
    BY <1>1, <1>7 DEF SetRemaining, GoTo, TypeOK
  <2>3. remaining \in 1..NumSubs /\ NoLoop /\ Cardinality(Owing) <= remaining
    BY <1>7 DEF Count, InRange, Enough
  <2>4. Owing' = Owing \ {t[2]}
    <3>1. \A s \in Subs : s \in Owing' <=> s \in Owing /\ s # t[2]
      <4> SUFFICES ASSUME NEW s \in Subs
                   PROVE  (\E e \in Epochs : Owes(<<e, s>>)') <=>
                            (\E e \in Epochs : Owes(<<e, s>>)) /\ s # t[2]
        BY DEF Owing
      <4>1. \A e \in Epochs : <<e, s>> # t => (Owes(<<e, s>>)' <=> Owes(<<e, s>>))
        BY <1>1, <2>1, ProcNames DEF Owes, Stale
      <4>2. ~Owes(t)'
        BY <2>2 DEF Owes, ActPhase
      <4>3. \A e \in Epochs : Owes(<<e, s>>) => e = t[1]
        <5> SUFFICES ASSUME NEW e \in Epochs, Owes(<<e, s>>) PROVE e = t[1]
          OBVIOUS
        <5>1. <<e, s>> \in Tasks
          BY ProcNames
        <5> QED
          BY <1>2, <5>1, SameRun
      <4>4. CASE s = t[2]
        <5>1. \A e \in Epochs : ~Owes(<<e, s>>)'
          BY <1>3, <4>1, <4>2, <4>3, <4>4
        <5> QED
          BY <4>4, <5>1
      <4>5. CASE s # t[2]
        <5>1. \A e \in Epochs : <<e, s>> # t
          BY <1>3, <4>5
        <5> QED
          BY <4>1, <4>5, <5>1
      <4> QED
        BY <4>4, <4>5
    <3>2. Owing' \subseteq Subs /\ Owing \subseteq Subs
      BY DEF Owing
    <3> QED
      BY <3>1, <3>2
  <2>5. t[2] \in Owing
    BY <1>2, <1>3 DEF Owing
  <2>6. IsFiniteSet(Owing) /\ Cardinality(Owing) \in Nat
    BY OwingSet, SubsFinite
  <2>7. Cardinality(Owing') = Cardinality(Owing) - 1
    BY <2>4, <2>5, <2>6, FS_RemoveElement
  <2>8. remaining - 1 \in Int /\ remaining - 1 <= NumSubs /\ Cardinality(Owing') <= remaining - 1
    BY <2>3, <2>6, <2>7, RunnerAssumption
  <2>9. \A e \in Epochs : phase[<<e, 0>>] \in RunPhase => t = <<e, 0>>
    BY <2>3 DEF NoLoop
  <2> QED
    BY <1>1, <1>4, <1>7, <2>8, <2>9, CountSets
<1> QED
  BY <1>5, <1>6, <1>7 DEF TaskDone

\* The step of a loop.
LEMMA CalmRun ==
  ASSUME CalmInv, NEW e \in Epochs, RunStep(e)
  PROVE  Control' /\ Count'
<1> USE DEF dbVars, memVars, runVars, taskVars, callVars, envVars, CalmInv
<1>0. /\ <<e, 0>> \in Procs /\ Counted
      /\ phase[<<e, 0>>] \in RunPhase /\ IsBusy(<<e, 0>>)
  BY ProcNames DEF RunStep, AudienceResolved, TargetRead, TargetInsert, DispatchEnd,
     ScanRead, ScanEnqueue, ScanEnd, RunPhase, IsBusy, Count
<1>1. CASE AudienceResolved(e)
  <2>1. /\ phase'[<<e, 0>>] = "target"
        /\ \A q \in Procs : q # <<e, 0>> => phase'[q] = phase[q]
        /\ UNCHANGED <<epoch, paused, callVars, used, status>>
        /\ remaining' # Unset
    BY <1>0, <1>1, RunnerAssumption DEF AudienceResolved, GoTo, TypeOK, MaxSafe
  <2>2. Control'
    BY <1>0, <2>1, ControlWork
  <2> QED
    BY <1>1, <2>2, CountResolved
<1>2. CASE TargetRead(e) \/ ScanRead(e)
  <2>1. PICK l \in Adding : phase'[<<e, 0>>] = l
    BY <1>0, <1>2 DEF TargetRead, ScanRead, GoTo, TypeOK, Adding
  <2>2. /\ phase[<<e, 0>>] \in Adding
        /\ \A q \in Procs : q # <<e, 0>> => phase'[q] = phase[q]
        /\ UNCHANGED <<epoch, paused, remaining, consumed, callVars, used, status>>
    BY <1>2 DEF TargetRead, ScanRead, GoTo, TypeOK, Adding
  <2>3. Control'
    BY <1>0, <2>1, <2>2, ControlWork DEF Adding, FinPhase
  <2>4. Count'
    BY <1>0, <2>1, <2>2, CountMoves DEF Adding, FinPhase, ActPhase
  <2> QED
    BY <2>3, <2>4
<1>3. CASE TargetInsert(e) \/ ScanEnqueue(e)
  <2>1. \A x \in picked[e] : x[1] \in Subs /\ phase[<<e, x[1]>>] = "none"
    <3>1. \A x \in picked[e] : phase[<<e, x[1]>>] = "none"
      BY <1>3 DEF TargetInsert, ScanEnqueue, OnceInv, CursorPassed
    <3>2. picked[e] \in SUBSET (Subs \X BOOLEAN)
      BY DEF TypeOK
    <3> QED
      BY <3>1, <3>2
  <2>2. PICK S \in SUBSET Subs, l \in Adding :
          /\ \A s \in S : phase[<<e, s>>] = "none"
          /\ phase' = [p \in Procs |-> IF p[1] = e /\ p[2] \in S THEN "waiting"
                                       ELSE IF p = <<e, 0>> THEN l ELSE phase[p]]
    <3>1. CASE TargetInsert(e)
      <4> DEFINE S == {x[1] : x \in picked[e]}
      <4>1. S \in SUBSET Subs /\ \A s \in S : phase[<<e, s>>] = "none"
        <5>1. \A s \in S : \E x \in picked[e] : s = x[1]
          OBVIOUS
        <5>2. \A s \in S : s \in Subs /\ phase[<<e, s>>] = "none"
          BY <2>1, <5>1
        <5> QED
          BY <5>2
      <4>2. phase' = [p \in Procs |-> IF p[1] = e /\ p[2] \in S THEN "waiting"
                                       ELSE IF p = <<e, 0>> THEN "target" ELSE phase[p]]
        BY <3>1 DEF TargetInsert
      <4>3. "target" \in Adding
        BY DEF Adding
      <4> HIDE DEF S
      <4> QED
        BY <4>1, <4>2, <4>3
    <3>2. CASE ScanEnqueue(e)
      <4> DEFINE S == {s \in Subs : <<s, TRUE>> \in picked[e]}
      <4>1. \A s \in S : phase[<<e, s>>] = "none"
        BY <2>1
      <4>2. \A s : <<s, TRUE>> \in picked[e] <=> s \in S
        BY DEF TypeOK
      <4>3. phase' = [p \in Procs |-> IF p[1] = e /\ p[2] \in S THEN "waiting"
                                       ELSE IF p = <<e, 0>> THEN "scan" ELSE phase[p]]
        BY <3>2, <4>2 DEF ScanEnqueue
      <4>4. S \in SUBSET Subs /\ "scan" \in Adding
        BY DEF Adding
      <4> QED
        BY <4>1, <4>3, <4>4
    <3> QED
      BY <1>3, <3>1, <3>2
  <2>3. phase'[<<e, 0>>] = l
    BY <1>0, <2>2 DEF Subs
  <2>4. \A q \in Procs : \/ q = <<e, 0>>
                         \/ phase'[q] = phase[q]
                         \/ /\ q \in Tasks /\ q[1] = e
                            /\ phase[q] = "none" /\ phase'[q] = "waiting"
    <3> SUFFICES ASSUME NEW q \in Procs, q # <<e, 0>>, phase'[q] # phase[q]
                 PROVE  /\ q \in Tasks /\ q[1] = e
                        /\ phase[q] = "none" /\ phase'[q] = "waiting"
      OBVIOUS
    <3>1. PICK d \in Epochs, i \in 0..NumSubs : q = <<d, i>>
      BY DEF Procs
    <3>2. d = e /\ i \in S
      BY <2>2, <3>1
    <3> QED
      BY <2>2, <3>1, <3>2, ProcNames
  <2>5. /\ phase[<<e, 0>>] \in Adding
        /\ UNCHANGED <<epoch, paused, remaining, consumed, callVars, used, status>>
    BY <1>3 DEF TargetInsert, ScanEnqueue, Adding
  <2>6. Control'
    BY <1>0, <2>3, <2>4, <2>5, ControlWork DEF Adding, FinPhase
  <2>7. Count'
    BY <1>0, <2>3, <2>4, <2>5, CountAdds
  <2> QED
    BY <2>6, <2>7
<1>4. CASE DispatchEnd(e) \/ ScanEnd(e)
  <2> DEFINE n == IF Added(e) = 0 THEN 0 ELSE Added(e) - consumed
  <2>1. /\ phase[<<e, 0>>] \in Adding
        /\ UNCHANGED <<epoch, paused, callVars, used, status>>
        /\ \/ /\ paused /\ GoTo(<<e, 0>>, "ended")
              /\ UNCHANGED <<remaining, consumed>>
           \/ SetRemaining(<<e, 0>>, n)
    BY <1>4 DEF DispatchEnd, ScanEnd, Adding
  <2> HIDE DEF n
  <2>2. n \in Int
    BY CountsAreNat DEF TypeOK, n
  <2>3. /\ \A q \in Procs : q # <<e, 0>> => phase'[q] = phase[q]
        /\ phase'[<<e, 0>>] \in {"ended", "finRead"}
        /\ remaining' = Unset /\ ~paused => phase'[<<e, 0>>] = "finRead"
    BY <1>0, <2>1, <2>2 DEF SetRemaining, GoTo, TypeOK
  <2>4. Control'
    BY <1>0, <2>1, <2>3, ControlWork DEF FinPhase
  <2>5. CASE paused /\ GoTo(<<e, 0>>, "ended") /\ UNCHANGED <<remaining, consumed>>
    <3>1. phase'[<<e, 0>>] = "ended"
      BY <1>0, <2>5 DEF GoTo, TypeOK
    <3>2. Count'
      BY <1>0, <2>1, <2>3, <2>5, <3>1, CountMoves DEF Adding, FinPhase, ActPhase
    <3> QED
      BY <2>4, <3>2
  <2>6. CASE SetRemaining(<<e, 0>>, n)
    BY <2>1, <2>4, <2>6, CountLoopEnds DEF n
  <2> QED
    BY <2>1, <2>5, <2>6
<1> QED
  BY <1>1, <1>2, <1>3, <1>4 DEF RunStep

LEMMA CalmTask ==
  ASSUME CalmInv, NEW t \in Tasks, TaskStep(t)
  PROVE  Control' /\ Count'
<1> USE DEF dbVars, memVars, runVars, taskVars, callVars, envVars, CalmInv
<1>0. t \in Procs /\ Counted
  BY ProcNames DEF Count
<1>1. CASE TaskStart(t) \/ (TaskPaced(t) /\ Stale(t[1]))
  <2>1. PICK l \in {"pacing", "ended"} :
          /\ phase[t] \in {"waiting", "pacing"} /\ phase'[t] = l
          /\ \A q \in Procs : q # t => phase'[q] = phase[q]
          /\ l = "pacing" => ~Stale(t[1])
    BY <1>0, <1>1 DEF TaskStart, TaskPaced, GoTo, TypeOK
  <2>2. UNCHANGED <<remaining, consumed, paused, epoch, callVars, used, status>>
    BY <1>1 DEF TaskStart, TaskPaced
  <2>3. Control'
    BY <2>1, <2>2, ControlQuiet
  <2>4. Count'
    BY <1>0, <2>1, <2>2, CountMoves DEF Adding, FinPhase, ActPhase
  <2> QED
    BY <2>3, <2>4
<1>2. CASE TaskDone(t)
  <2>1. /\ IsBusy(t) /\ phase[t] = "done"
        /\ UNCHANGED <<epoch, paused, callVars, used, status>>
    BY <1>2 DEF TaskDone, IsBusy
  <2>2. /\ phase'[t] \in {"ended", "finRead"}
        /\ \A q \in Procs : q # t => phase'[q] = phase[q]
    <3>1. GoTo(t, "ended") \/ SetRemaining(t, remaining - 1)
      BY <1>2 DEF TaskDone
    <3> QED
      BY <1>0, <3>1 DEF SetRemaining, GoTo, TypeOK
  <2>3. remaining' = Unset /\ ~paused => phase'[t] = "finRead"
    <3>1. ~NobodyOwes
      BY <2>1 DEF NobodyOwes, Owes, ActPhase
    <3>2. remaining # Unset \/ paused
      BY <1>0, <3>1 DEF Counted
    <3>3. remaining \notin {MaxSafe, Unset} /\ SetRemaining(t, remaining - 1) =>
            remaining' # Unset \/ phase'[t] = "finRead"
      BY <1>0 DEF SetRemaining, GoTo, TypeOK
    <3> QED
      BY <1>2, <3>2, <3>3 DEF TaskDone
  <2>4. Control'
    BY <1>0, <2>1, <2>2, <2>3, ControlWork DEF FinPhase
  <2> QED
    BY <1>2, <2>4, CountTaskDone
<1>3. CASE ~TaskStart(t) /\ ~TaskDone(t) /\ ~(TaskPaced(t) /\ Stale(t[1]))
  <2>1. PICK l \in ActPhase : GoTo(t, l)
    BY <1>3 DEF TaskStep, TaskPaced, PushDelivered, PushGone, PushFails, PushEnds,
       PushThrottled, PushRetry, RecordRow, RecordLead, RecordTotal, ActPhase
  <2>2. phase'[t] = l /\ \A q \in Procs : q # t => phase'[q] = phase[q]
    BY <1>0, <2>1 DEF GoTo, TypeOK
  <2>3. UNCHANGED <<remaining, consumed, paused, epoch, callVars, used, status>>
    BY <1>3 DEF TaskStep, TaskPaced, PushDelivered, PushGone, PushFails, PushEnds,
       PushThrottled, PushRetry, RecordRow, RecordLead, RecordTotal
  <2>4. Owes(t) /\ phase[t] \in {"pacing", "pushing", "backoff", "row", "lead", "total"}
    BY <1>3 DEF TaskStep, TaskPaced, PushDelivered, PushGone, PushFails, PushEnds,
       PushThrottled, PushRetry, RecordRow, RecordLead, RecordTotal, Owes, ActPhase
  <2>5. Control'
    BY <1>0, <2>2, <2>3, <2>4, ControlWork DEF FinPhase, ActPhase
  <2>6. Count'
    BY <1>0, <2>2, <2>3, <2>4, CountMoves DEF Adding, FinPhase, ActPhase
  <2> QED
    BY <2>5, <2>6
<1> QED
  BY <1>1, <1>2, <1>3

LEMMA CalmFinalize ==
  ASSUME CalmInv, NEW p \in Procs, FinalizeStep(p)
  PROVE  Control' /\ Count'
<1> USE DEF dbVars, memVars, runVars, taskVars, callVars, envVars, CalmInv
<1>1. PICK l \in {"finTally", "finWrite", "ended"} : GoTo(p, l)
  BY DEF FinalizeStep, FinalizeRead, FinalizeTally, FinalizeWrite
<1>2. phase'[p] = l /\ \A q \in Procs : q # p => phase'[q] = phase[q]
  BY <1>1 DEF GoTo, TypeOK
<1>3. /\ phase[p] \in FinPhase /\ IsBusy(p) /\ status' \in {status, "sent"}
      /\ UNCHANGED <<remaining, consumed, paused, epoch, callVars, used>>
  BY DEF FinalizeStep, FinalizeRead, FinalizeTally, FinalizeWrite, FinPhase, IsBusy
<1>4. Counted
  BY DEF Count
<1>5. status = "paused" => paused
  BY <1>3, <1>4, AtWork
<1>6. l = "ended" => status' = "sent" \/ paused
  BY <1>2, <1>5 DEF FinalizeStep, FinalizeRead, FinalizeTally, FinalizeWrite, GoTo, TypeOK
<1>7. Control'
  BY <1>2, <1>3, <1>4, <1>6, ControlWork DEF FinPhase
<1>8. Count'
  BY <1>2, <1>3, CountMoves DEF FinPhase, Adding, ActPhase
<1> QED
  BY <1>7, <1>8

\* A statement throws.
LEMMA CalmFault ==
  ASSUME CalmInv, NEW p \in Procs,
         \/ \E e \in Epochs : p = <<e, 0>> /\ RunFault(e)
         \/ p \in Tasks /\ RecordFault(p)
         \/ FinalizeFault(p)
  PROVE  Control' /\ Count'
<1> USE DEF dbVars, memVars, runVars, taskVars, callVars, envVars, CalmInv
<1>1. PICK l \in {"done", "ended"} : GoTo(p, l) /\ (l = "done" => p \in Tasks /\ phase[p] \in {"row", "lead", "total"})
  BY DEF RunFault, RecordFault, FinalizeFault
<1>2. phase'[p] = l /\ \A q \in Procs : q # p => phase'[q] = phase[q]
  BY <1>1 DEF GoTo, TypeOK
<1>3. /\ IsBusy(p) /\ phase[p] # "none" /\ phase[p] # "ended"
      /\ UNCHANGED <<remaining, consumed, paused, epoch, callVars, status>>
  BY DEF RunFault, RecordFault, FinalizeFault, FinPhase, IsBusy, RunPhase
<1>4. /\ used'.pauses = used.pauses /\ used'.resumes = used.resumes
      /\ used'.crashes = used.crashes
  <2>1. used' = [used EXCEPT !.faults = @ + 1] \/ used' = [used EXCEPT !.aborts = @ + 1]
    BY DEF RunFault, RecordFault, FinalizeFault, Spend
  <2> QED
    BY <2>1 DEF TypeOK
<1>5. ~NoThrow
  <2>1. used.aborts < MaxAborts \/ used.faults < MaxFaults
    BY DEF RunFault, RecordFault, FinalizeFault
  <2>2. used.aborts \in Nat /\ used.faults \in Nat
    BY DEF TypeOK
  <2> QED
    BY <2>1, <2>2 DEF NoThrow
<1>6. Counted
  BY DEF Count
<1>7. Control'
  BY <1>2, <1>3, <1>4, <1>5, <1>6, ControlWork
<1>8. p \in Tasks /\ l = "done" => Owes(p)
  BY <1>1 DEF Owes, ActPhase
<1>9. Count'
  BY <1>2, <1>3, <1>8, CountMoves DEF FinPhase, Adding, ActPhase
<1> QED
  BY <1>7, <1>9

\* Requests, the sweep, a restart, a lead that leaves.
LEMMA CalmRequest ==
  ASSUME CalmInv, Calm,
         \/ DispatchClaim \/ PauseRead \/ ResumeClaim \/ CallStep
         \/ Maintenance \/ Restart \/ \E s \in Subs : Unsubscribe(s)
         \/ UNCHANGED vars
  PROVE  Control' /\ Count'
<1> USE DEF dbVars, memVars, runVars, taskVars, callVars, envVars, CalmInv
<1>1. CASE DispatchClaim \/ PauseRead \/ PauseWrite \/ ResumeClaim \/ Maintenance
  <2>1. UNCHANGED <<remaining, consumed, paused, epoch, phase>>
    BY <1>1 DEF DispatchClaim, PauseRead, PauseWrite, ResumeClaim, Maintenance,
       MaintenanceRead, MaintenanceWrite
  <2>2. Count'
    BY <2>1, CountStill
  <2>3. Control'
    BY <1>1, ControlDispatchClaim, ControlPause, ControlResumeClaim, ControlMaintenance
  <2> QED
    BY <2>2, <2>3
<1>2. CASE DispatchBegin \/ ResumeBegin
  BY <1>2, BeginDispatch, BeginResume, CountBegins
<1>3. CASE PauseMark
  BY <1>3, ControlPause, CountPauseMark
<1>4. CASE Restart
  BY <1>4, ControlRestart, CountRestart
<1>5. CASE (\E s \in Subs : Unsubscribe(s)) \/ UNCHANGED vars
  <2>1. UNCHANGED <<remaining, consumed, paused, epoch, phase, status, callVars, used>>
    BY <1>5 DEF Unsubscribe, vars
  <2>2. Count'
    BY <2>1, CountStill
  <2>3. Control'
    BY <2>1, ControlQuiet
  <2> QED
    BY <2>2, <2>3
<1> QED
  BY <1>1, <1>2, <1>3, <1>4, <1>5 DEF CallStep

LEMMA CalmStep ==
  ASSUME Calm, CalmInv, [Next]_vars
  PROVE  CalmInv'
<1>1. TypeOK'
  BY TypeStep DEF CalmInv
<1>2. OnceInv'
  BY OnceStep DEF CalmInv
<1>3. Control' /\ Count'
  <2>1. CASE \E e \in Epochs : RunStep(e)
    BY <2>1, CalmRun
  <2>2. CASE \E t \in Tasks : TaskStep(t)
    BY <2>2, CalmTask
  <2>3. CASE \E p \in Procs : FinalizeStep(p)
    BY <2>3, CalmFinalize
  <2>4. CASE \/ \E e \in Epochs : RunFault(e)
             \/ \E t \in Tasks : RecordFault(t)
             \/ \E p \in Procs : FinalizeFault(p)
    BY <2>4, CalmFault, ProcNames
  <2> QED
    BY <2>1, <2>2, <2>3, <2>4, CalmRequest DEF Next
<1> QED
  BY <1>1, <1>2, <1>3 DEF CalmInv

LEMMA CalmInit == Init => CalmInv
<1> SUFFICES ASSUME Init PROVE CalmInv
  OBVIOUS
<1>1. TypeOK
  BY InitTypeOK
<1>2. OnceInv
  BY OnceInit
<1>3. \A p \in Procs : phase[p] = "none"
  BY DEF Init
<1>4. AllRest /\ NobodyOwes /\ NoLoop /\ ~Finalizing
  BY <1>3, ProcNames DEF AllRest, NobodyOwes, NoLoop, Finalizing, IsBusy, Owes,
     ActPhase, RunPhase, FinPhase
<1>5. Control
  BY <1>3, RunnerAssumption DEF Init, Control, Budget, OneCall, Draft, Claimed, OneWorks, Halted,
     Pausing, Closing, Moving, Claims, NoCall, IsLive, IsBusy
<1>6. Count
  <2>1. remaining = Unset /\ consumed = 0
    BY DEF Init
  <2>2. \A e \in Epochs : phase[<<e, 0>>] = "none"
    BY <1>3, ProcNames
  <2> QED
    BY <1>4, <2>1, <2>2 DEF Count, InRange, Unconsumed, Counted,
       Enough, LoopCounts, LastOfAll, Adding
<1> QED
  BY <1>1, <1>2, <1>5, <1>6 DEF CalmInv

\* finalize() starts only when the last task has recorded its outcome, though the
\* count is kept by increments while tasks are still being added and by a loop
\* that reads it after its last await (campaign-runner.service.ts:626-664).
THEOREM FinalizeIsLast ==
  ASSUME Calm PROVE Spec => []NoEarlyFinalize
<1>1. CalmInv /\ [Next]_vars => CalmInv'
  BY CalmStep
<1>2. CalmInv => NoEarlyFinalize
  <2> SUFFICES ASSUME CalmInv, Finalizing, NEW t \in Tasks, phase[t] \in TaskPhase
               PROVE  phase[t] \in {"waiting", "pacing"} /\ Stale(t[1])
    BY DEF NoEarlyFinalize, Finalizing
  <2>1. ~Owes(t)
    BY DEF CalmInv, Count, LastOfAll, NobodyOwes
  <2> QED
    BY <2>1 DEF Owes, ActPhase, TaskPhase
<1> QED
  BY <1>1, <1>2, CalmInit, PTL DEF Spec

\* While the campaign is paused no worker picks up another of its sends: a task
\* that waits for its slot finds itself stale (campaign-runner.service.ts:203,
\* 699).
THEOREM PauseHolds ==
  ASSUME Calm PROVE Spec => []PauseStops
<1>1. CalmInv /\ [Next]_vars => CalmInv'
  BY CalmStep
<1>2. CalmInv => PauseStops
  <2> SUFFICES ASSUME CalmInv, status = "paused", NEW t \in Tasks, phase[t] \in {"waiting", "pacing"}
               PROVE  Stale(t[1])
    BY DEF PauseStops
  <2> QED
    BY ProcNames DEF CalmInv, Control, Halted, Stale
<1> QED
  BY <1>1, <1>2, CalmInit, PTL DEF Spec

-----------------------------------------------------------------------------
\* The rows, under Calm.

\* The missing entry of a map is always expanded.
USE DEF Unset

Open == {"waiting", "pacing", "pushing", "backoff", "row"}

\* A task that may still push, or has not recorded its push, has an open row.
RowsOwed ==
  \A t \in Tasks : Owes(t) /\ phase[t] \in Open => row[t[2]] = "queued"

\* So have the rows of the page in hand, each in it once.
PageOpen ==
  \A e \in Epochs : phase[<<e, 0>>] = "enqueue" =>
    \A x \in picked[e] : /\ row[x[1]] = "queued"
                         /\ \A y \in picked[e] : x[1] = y[1] => x = y

\* What finalize() has read is still true when it writes it.
TallyCounts == \A p \in Procs : phase[p] = "finWrite" => tally[p] = RowTally

\* When the campaign is "sent" nobody will touch a row or a counter.
SentSettled == status = "sent" => NobodyOwes /\ NoLoop /\ totals = RowTally

OutcomeKnown ==
  \A t \in Tasks : /\ pushed[t] > 0 => outcome[t] = "sent"
                   /\ phase[t] \in {"row", "lead", "total"} => outcome[t] # "none"

\* In a campaign that has had one run, a failed row is that of no push.
OneRun ==
  \A d, e \in Epochs :
    phase[<<d, 0>>] # "none" /\ phase[<<e, 0>>] # "none" => d = e
FirstHonest ==
  OneRun => \A t \in Tasks : pushed[t] > 0 => row[t[2]] # "failed"

Rows == /\ RowsOwed /\ PageOpen /\ TallyCounts /\ SentSettled /\ OutcomeKnown
        /\ FirstHonest

LEMMA RowsKept ==
  ASSUME Rows, UNCHANGED <<row, outcome, pushed>>,
         \A t \in Tasks :
           /\ Owes(t)' => Owes(t) /\ (phase'[t] \in Open => phase[t] \in Open)
           /\ phase'[t] \in {"row", "lead", "total"} =>
                phase[t] \in {"row", "lead", "total"},
         \A e \in Epochs :
           /\ phase'[<<e, 0>>] = "enqueue" =>
                phase[<<e, 0>>] = "enqueue" /\ picked'[e] = picked[e]
           /\ phase[<<e, 0>>] # "none" => phase'[<<e, 0>>] # "none"
           /\ phase'[<<e, 0>>] \in RunPhase => phase[<<e, 0>>] \in RunPhase \/ status' # "sent",
         \A p \in Procs : phase'[p] = "finWrite" =>
           phase[p] = "finWrite" /\ tally'[p] = tally[p],
         status' = "sent" => status = "sent" /\ totals' = totals
  PROVE  Rows'
<1>1. RowTally' = RowTally
  BY DEF RowTally, CountRows
<1>2. RowsOwed' /\ PageOpen' /\ OutcomeKnown'
  BY DEF Rows, RowsOwed, PageOpen, OutcomeKnown
<1>3. TallyCounts'
  BY <1>1 DEF Rows, TallyCounts
<1>4. SentSettled'
  BY <1>1 DEF Rows, SentSettled, NobodyOwes, NoLoop
<1>5. FirstHonest'
  BY DEF Rows, FirstHonest, OneRun
<1> QED
  BY <1>2, <1>3, <1>4, <1>5 DEF Rows

\* One process moves and touches no row.
LEMMA RowsMoves ==
  ASSUME TypeOK, Rows, UNCHANGED <<row, outcome, pushed, epoch, paused, tally>>,
         NEW p \in Procs, NEW l, phase'[p] = l,
         \A q \in Procs : q # p => phase'[q] = phase[q],
         l \notin {"enqueue", "finWrite", "none", "audience", "scan", "row"},
         l \in {"target", "insert"} => phase[p] \in RunPhase,
         \A e \in Epochs : p # <<e, 0>> => picked'[e] = picked[e],
         l \in {"lead", "total"} => phase[p] \in {"row", "lead", "total"},
         p \in Tasks => /\ l \in {"waiting", "pacing"} => phase[p] \in {"waiting", "pacing"}
                        /\ l \in ActPhase => Owes(p)
                        /\ l \in Open => phase[p] \in Open,
         status' = "sent" => status = "sent" /\ totals' = totals
  PROVE  Rows'
<1>1. \A t \in Tasks :
         /\ Owes(t)' => Owes(t) /\ (phase'[t] \in Open => phase[t] \in Open)
         /\ phase'[t] \in {"row", "lead", "total"} =>
              phase[t] \in {"row", "lead", "total"}
  <2> SUFFICES ASSUME NEW t \in Tasks
               PROVE  /\ Owes(t)' => Owes(t) /\ (phase'[t] \in Open => phase[t] \in Open)
                      /\ phase'[t] \in {"row", "lead", "total"} =>
                           phase[t] \in {"row", "lead", "total"}
    OBVIOUS
  <2>1. t \in Procs
    BY ProcNames
  <2>2. CASE t = p
    BY <2>1, <2>2 DEF Owes, Stale
  <2>3. CASE t # p
    BY <2>1, <2>3 DEF Owes, Stale
  <2> QED
    BY <2>2, <2>3
<1>2. \A e \in Epochs :
         /\ phase'[<<e, 0>>] = "enqueue" =>
              phase[<<e, 0>>] = "enqueue" /\ picked'[e] = picked[e]
         /\ phase[<<e, 0>>] # "none" => phase'[<<e, 0>>] # "none"
         /\ phase'[<<e, 0>>] \in RunPhase => phase[<<e, 0>>] \in RunPhase \/ status' # "sent"
  <2> SUFFICES ASSUME NEW e \in Epochs
               PROVE  /\ phase'[<<e, 0>>] = "enqueue" =>
                           phase[<<e, 0>>] = "enqueue" /\ picked'[e] = picked[e]
                      /\ phase[<<e, 0>>] # "none" => phase'[<<e, 0>>] # "none"
                      /\ phase'[<<e, 0>>] \in RunPhase => phase[<<e, 0>>] \in RunPhase
    OBVIOUS
  <2>1. CASE p = <<e, 0>>
    BY <2>1 DEF RunPhase
  <2>2. CASE p # <<e, 0>>
    BY <2>2, ProcNames
  <2> QED
    BY <2>1, <2>2
<1>3. \A q \in Procs : phase'[q] = "finWrite" =>
         phase[q] = "finWrite" /\ tally'[q] = tally[q]
  BY DEF TypeOK
<1> QED
  BY <1>1, <1>2, <1>3, RowsKept

\* No process moves and no row is touched.
LEMMA RowsStill ==
  ASSUME TypeOK, Rows, UNCHANGED <<row, outcome, pushed, tally, phase, picked>>,
         \A t \in Tasks : Owes(t)' => Owes(t),
         status' = "sent" => status = "sent" /\ totals' = totals
  PROVE  Rows'
BY RowsKept

\* What holds of a task at work, and of a loop.
LEMMA TaskWorks ==
  ASSUME CalmInv, Rows, NEW t \in Tasks, Owes(t)
  PROVE  /\ status # "sent" /\ ~Finalizing /\ t \in Procs
         /\ \A u \in Tasks : Owes(u) => u[1] = t[1]
         /\ \A e \in Epochs : phase[<<e, 0>>] \in RunPhase => e = t[1]
<1>1. status # "sent" /\ ~Finalizing /\ t \in Procs
  BY ProcNames DEF Rows, SentSettled, NobodyOwes, CalmInv, Count, LastOfAll
<1>2. \A u \in Tasks : Owes(u) => u[1] = t[1]
  BY SameRun DEF CalmInv
<1>3. ASSUME NEW e \in Epochs, phase[<<e, 0>>] \in RunPhase PROVE e = t[1]
  <2>1. <<e, 0>> \in Procs /\ IsBusy(<<e, 0>>)
    BY <1>3, ProcNames DEF IsBusy, RunPhase
  <2> QED
    BY <2>1, SameRun DEF CalmInv
<1> QED
  BY <1>1, <1>2, <1>3

LEMMA LoopWorks ==
  ASSUME CalmInv, Rows, NEW e \in Epochs, phase[<<e, 0>>] \in RunPhase
  PROVE  /\ status # "sent" /\ ~Finalizing /\ <<e, 0>> \in Procs
         /\ \A d \in Epochs : phase[<<d, 0>>] \in RunPhase => d = e
         /\ \A u \in Tasks : Owes(u) => u[1] = e
<1>1. status # "sent" /\ ~Finalizing /\ <<e, 0>> \in Procs
  BY ProcNames DEF Rows, SentSettled, NoLoop, CalmInv, Count, LastOfAll
<1>2. IsBusy(<<e, 0>>)
  BY DEF IsBusy, RunPhase
<1>3. \A d \in Epochs : phase[<<d, 0>>] \in RunPhase => d = e
  <2> SUFFICES ASSUME NEW d \in Epochs, phase[<<d, 0>>] \in RunPhase PROVE d = e
    OBVIOUS
  <2>1. <<d, 0>> \in Procs /\ IsBusy(<<d, 0>>)
    BY ProcNames DEF IsBusy, RunPhase
  <2> QED
    BY <1>1, <1>2, <2>1, SameRun DEF CalmInv
<1>4. \A u \in Tasks : Owes(u) => u[1] = e
  BY <1>1, <1>2, SameRun DEF CalmInv
<1> QED
  BY <1>1, <1>3, <1>4

\* Leads handed to the pool: their rows are open.
LEMMA RowsAdds ==
  ASSUME CalmInv, Rows, NEW e \in Epochs, phase[<<e, 0>>] \in {"insert", "enqueue"},
         NEW l \in {"target", "scan"}, NEW S \in SUBSET Subs, NEW F \in SUBSET Subs,
         \A s \in S \cup F : phase[<<e, s>>] = "none",
         \A s \in S : row'[s] = "queued",
         \A s \in F : row'[s] = "failed",
         \A s \in Subs \ F : row'[s] \in {row[s], "queued"},
         phase' = [p \in Procs |-> IF p[1] = e /\ p[2] \in S THEN "waiting"
                                   ELSE IF p = <<e, 0>> THEN l ELSE phase[p]],
         UNCHANGED <<status, epoch, paused, outcome, pushed, tally>>,
         \A d \in Epochs : d # e => picked'[d] = picked[d]
  PROVE  Rows'
<1>0. phase[<<e, 0>>] \in RunPhase
  BY DEF RunPhase
<1>1. /\ status # "sent" /\ ~Finalizing /\ <<e, 0>> \in Procs
      /\ \A d \in Epochs : phase[<<d, 0>>] \in RunPhase => d = e
      /\ \A u \in Tasks : Owes(u) => u[1] = e
  BY <1>0, LoopWorks
<1>2. phase'[<<e, 0>>] = l
  BY <1>1 DEF Subs
<1>3. \A d \in Epochs : d # e => phase'[<<d, 0>>] = phase[<<d, 0>>]
  BY ProcNames
<1>4. \A t \in Tasks : IF t[1] = e /\ t[2] \in S THEN phase'[t] = "waiting"
                       ELSE phase'[t] = phase[t]
  BY ProcNames
<1>5. RowsOwed'
  <2> SUFFICES ASSUME NEW t \in Tasks, Owes(t)', phase'[t] \in Open
               PROVE  row'[t[2]] = "queued"
    BY DEF RowsOwed
  <2>0. t[2] \in Subs /\ t = <<t[1], t[2]>>
    BY ProcNames
  <2>1. CASE t[1] = e /\ t[2] \in S
    BY <2>1
  <2>2. CASE ~(t[1] = e /\ t[2] \in S)
    <3>1. phase'[t] = phase[t] /\ Owes(t)
      BY <1>4, <2>2 DEF Owes, Stale
    <3>2. t[1] = e /\ row[t[2]] = "queued"
      BY <1>1, <3>1 DEF Rows, RowsOwed
    <3>3. phase[t] # "none"
      BY <3>1 DEF Owes, ActPhase
    <3>4. t[2] \notin F
      BY <2>0, <3>2, <3>3
    <3> QED
      BY <2>0, <3>2, <3>4
  <2> QED
    BY <2>1, <2>2
<1>6. PageOpen'
  BY <1>1, <1>2, <1>3 DEF PageOpen, RunPhase
<1>7. TallyCounts' /\ SentSettled'
  <2>1. \A p \in Procs : phase'[p] # "finWrite"
    BY <1>1 DEF Finalizing, FinPhase
  <2> QED
    BY <1>1, <2>1 DEF TallyCounts, SentSettled
<1>8. OutcomeKnown'
  BY <1>4 DEF Rows, OutcomeKnown
<1>9. FirstHonest'
  <2> SUFFICES ASSUME OneRun', NEW t \in Tasks, pushed[t] > 0, row'[t[2]] = "failed"
               PROVE  FALSE
    BY DEF FirstHonest
  <2>0. t[1] \in Epochs /\ t[2] \in Subs /\ t = <<t[1], t[2]>>
    BY ProcNames
  <2>1. OneRun
    <3>1. \A d \in Epochs : phase[<<d, 0>>] # "none"
                            => phase'[<<d, 0>>] # "none"
      <4> TAKE d \in Epochs
      <4>1. CASE d = e
        BY <1>2, <4>1
      <4>2. CASE d # e
        BY <1>3, <4>2
      <4> QED
        BY <4>1, <4>2
    <3> QED
      BY <3>1 DEF OneRun
  <2>2. phase[t] # "none"
    BY DEF CalmInv, OnceInv, PushedOnce, BeforePush
  <2>3. phase[<<t[1], 0>>] # "none"
    BY <2>0, <2>2 DEF CalmInv, OnceInv, FreshRuns
  <2>4. t[1] = e
    BY <1>0, <2>0, <2>1, <2>3 DEF OneRun, RunPhase
  <2>5. t[2] \notin F
    BY <2>0, <2>2, <2>4
  <2>6. row[t[2]] = "failed"
    BY <2>0, <2>5
  <2> QED
    BY <2>1, <2>6 DEF Rows, FirstHonest
<1> QED
  BY <1>5, <1>6, <1>7, <1>8, <1>9 DEF Rows

LEMMA RowsRun ==
  ASSUME CalmInv, Rows, NEW e \in Epochs, RunStep(e)
  PROVE  Rows'
<1> USE DEF dbVars, memVars, runVars, taskVars, callVars, envVars
<1>0. phase[<<e, 0>>] \in RunPhase /\ TypeOK /\ OnceInv
  BY DEF RunStep, AudienceResolved, TargetRead, TargetInsert, DispatchEnd,
     ScanRead, ScanEnqueue, ScanEnd, RunPhase, CalmInv
<1>1. status # "sent" /\ <<e, 0>> \in Procs
  BY <1>0, LoopWorks
<1>2. \A d \in Epochs : <<e, 0>> # <<d, 0>> <=> d # e
  OBVIOUS
<1>3. CASE AudienceResolved(e) \/ TargetRead(e) \/ DispatchEnd(e) \/ ScanEnd(e)
  <2>1. PICK l \in {"target", "insert", "ended", "finRead"} :
          /\ phase'[<<e, 0>>] = l
          /\ \A q \in Procs : q # <<e, 0>> => phase'[q] = phase[q]
    BY <1>0, <1>1, <1>3 DEF AudienceResolved, TargetRead, DispatchEnd, ScanEnd, SetRemaining, GoTo, TypeOK
  <2>2. /\ UNCHANGED <<row, outcome, pushed, epoch, paused, tally, status>>
        /\ \A d \in Epochs : d # e => picked'[d] = picked[d]
    BY <1>0, <1>3 DEF AudienceResolved, TargetRead, DispatchEnd, ScanEnd, TypeOK
  <2>3. <<e, 0>> \notin Tasks
    BY ProcNames
  <2> QED
    BY <1>0, <1>1, <1>2, <2>1, <2>2, <2>3, RowsMoves
<1>4. CASE ScanRead(e)
  <2>1. /\ phase'[<<e, 0>>] = "enqueue" /\ phase[<<e, 0>>] = "scan"
        /\ \A q \in Procs : q # <<e, 0>> => phase'[q] = phase[q]
        /\ UNCHANGED <<row, totals, outcome, pushed, epoch, paused, tally, status>>
        /\ \A d \in Epochs : d # e => picked'[d] = picked[d]
    BY <1>0, <1>1, <1>4 DEF ScanRead, GoTo, TypeOK
  <2>2. \A t \in Tasks : phase'[t] = phase[t] /\ (Owes(t)' <=> Owes(t))
    BY <2>1, ProcNames DEF Owes, Stale
  <2>3. \A x \in picked'[e] : row[x[1]] = "queued" /\ \A y \in picked'[e] : x[1] = y[1] => x = y
    <3> DEFINE page == {s \in Unread(e) :
          Cardinality({r \in Unread(e) : rowId[r] < rowId[s]}) < BatchSize}
    <3>1. picked'[e] = {<<s, sub[s] = "active">> : s \in page}
      BY <1>0, <1>4 DEF ScanRead, TypeOK
    <3>2. \A s \in page : row[s] = "queued"
      BY DEF Unread
    <3> HIDE DEF page
    <3>3. \A x \in picked'[e] : x[1] \in page /\ x = <<x[1], sub[x[1]] = "active">>
      <4> SUFFICES ASSUME NEW x \in picked'[e]
                   PROVE  x[1] \in page /\ x = <<x[1], sub[x[1]] = "active">>
        OBVIOUS
      <4>1. PICK s \in page : x = <<s, sub[s] = "active">>
        BY <3>1, Zenon
      <4>2. x[1] = s
        BY <4>1
      <4> QED
        BY <4>1, <4>2
    <3> QED
      BY <3>2, <3>3
  <2>4. RowTally' = RowTally
    BY <2>1 DEF RowTally, CountRows
  <2>5. RowsOwed' /\ OutcomeKnown'
    BY <2>1, <2>2 DEF Rows, RowsOwed, OutcomeKnown
  <2>6. PageOpen'
    <3> SUFFICES ASSUME NEW d \in Epochs, phase'[<<d, 0>>] = "enqueue", d # e
                 PROVE  FALSE
      BY <2>1, <2>3 DEF PageOpen
    <3>1. phase[<<d, 0>>] = "enqueue"
      BY <2>1, ProcNames
    <3> QED
      BY <1>0, <3>1, LoopWorks DEF RunPhase
  <2>7. TallyCounts' /\ SentSettled'
    BY <1>1, <2>1, <2>4 DEF Rows, TallyCounts, SentSettled
  <2>8. FirstHonest'
    BY <1>0, <2>1, ProcNames DEF Rows, FirstHonest, OneRun, RunPhase
  <2> QED
    BY <2>5, <2>6, <2>7, <2>8 DEF Rows
<1>5. CASE TargetInsert(e)
  <2> DEFINE S == {x[1] : x \in picked[e]}
             F == {}
  <2>1. /\ phase[<<e, 0>>] = "insert"
        /\ row' = [s \in Subs |-> IF s \in S THEN "queued" ELSE row[s]]
        /\ phase' = [p \in Procs |-> IF p[1] = e /\ p[2] \in S THEN "waiting"
                                     ELSE IF p = <<e, 0>> THEN "target" ELSE phase[p]]
        /\ UNCHANGED <<status, epoch, paused, outcome, pushed, tally>>
        /\ \A d \in Epochs : d # e => picked'[d] = picked[d]
    BY <1>0, <1>5 DEF TargetInsert, TypeOK
  <2>2. S \in SUBSET Subs /\ \A s \in S : phase[<<e, s>>] = "none"
    <3>1. \A s \in S : \E x \in picked[e] : s = x[1]
      OBVIOUS
    <3>2. \A x \in picked[e] : x[1] \in Subs
      BY <1>0 DEF TypeOK
    <3> QED
      BY <1>0, <2>1, <3>1, <3>2 DEF OnceInv, CursorPassed
  <2>a. S \cup F = S /\ Subs \ F = Subs /\ F \in SUBSET Subs /\ \A s \in F : FALSE
    OBVIOUS
  <2> HIDE DEF S, F
  <2>3. \A s \in S : row'[s] = "queued"
    BY <2>1, <2>2
  <2>4. \A s \in Subs \ F : row'[s] \in {row[s], "queued"}
    BY <2>1, <2>a
  <2>5. /\ F \in SUBSET Subs /\ \A s \in F : row'[s] = "failed"
        /\ \A s \in S \cup F : phase[<<e, s>>] = "none"
    BY <2>2, <2>a
  <2> QED
    BY <2>1, <2>2, <2>3, <2>4, <2>5, RowsAdds
<1>6. CASE ScanEnqueue(e)
  <2> DEFINE S == {s \in Subs : <<s, TRUE>> \in picked[e]}
             F == {s \in Subs : <<s, FALSE>> \in picked[e]}
  <2>0. picked[e] \in SUBSET (Subs \X BOOLEAN)
    BY <1>0 DEF TypeOK
  <2>1. /\ phase[<<e, 0>>] = "enqueue"
        /\ row' = [s \in Subs |-> IF s \in F THEN "failed" ELSE row[s]]
        /\ UNCHANGED <<status, epoch, paused, outcome, pushed, tally>>
        /\ \A d \in Epochs : d # e => picked'[d] = picked[d]
    BY <1>0, <1>6 DEF ScanEnqueue, TypeOK
  <2>2. phase' = [p \in Procs |-> IF p[1] = e /\ p[2] \in S THEN "waiting"
                                     ELSE IF p = <<e, 0>> THEN "scan" ELSE phase[p]]
    <3>1. \A s : <<s, TRUE>> \in picked[e] <=> s \in S
      BY <2>0
    <3> QED
      BY <1>6, <3>1 DEF ScanEnqueue
  <2>3. \A s \in S \cup F : phase[<<e, s>>] = "none"
    BY <1>0, <2>1 DEF OnceInv, CursorPassed
  <2>4. \A s \in S : row[s] = "queued" /\ s \notin F
    <3> SUFFICES ASSUME NEW s \in S PROVE row[s] = "queued" /\ <<s, FALSE>> \notin picked[e]
      OBVIOUS
    <3>1. <<s, TRUE>> \in picked[e]
      OBVIOUS
    <3>2. /\ row[<<s, TRUE>>[1]] = "queued"
          /\ \A y \in picked[e] : <<s, TRUE>>[1] = y[1] => <<s, TRUE>> = y
      BY <2>1, <3>1, Zenon DEF Rows, PageOpen
    <3>3. <<s, FALSE>> \in picked[e] => <<s, TRUE>> = <<s, FALSE>>
      BY <3>2
    <3> QED
      BY <3>2, <3>3
  <2>5. S \in SUBSET Subs /\ F \in SUBSET Subs
    OBVIOUS
  <2> HIDE DEF S, F
  <2>6. \A s \in S : row'[s] = "queued"
    BY <2>1, <2>4, <2>5
  <2>7. \A s \in F : row'[s] = "failed"
    BY <2>1, <2>5
  <2>8. \A s \in Subs \ F : row'[s] \in {row[s], "queued"}
    BY <2>1
  <2> QED
    BY <2>1, <2>2, <2>3, <2>5, <2>6, <2>7, <2>8, RowsAdds
<1> QED
  BY <1>3, <1>4, <1>5, <1>6 DEF RunStep

\* The push ends, and its outcome is recorded.
LEMMA RowsPush ==
  ASSUME CalmInv, Rows, NEW t \in Tasks, NEW o \in {"sent", "expired", "failed"},
         PushEnds(t, o),
         \/ pushed' = pushed
         \/ o = "sent" /\ pushed' = [pushed EXCEPT ![t] = @ + 1]
  PROVE  Rows'
<1> USE DEF dbVars, memVars, runVars, taskVars, callVars, envVars
<1>0. t \in Procs /\ TypeOK /\ OnceInv
  BY ProcNames DEF CalmInv
<1>1. /\ phase[t] = "pushing" /\ phase'[t] = "row" /\ outcome'[t] = o
      /\ \A q \in Procs : q # t => phase'[q] = phase[q]
      /\ \A u \in Tasks : u # t => outcome'[u] = outcome[u]
      /\ UNCHANGED <<status, row, totals, epoch, paused, tally, picked>>
  BY <1>0 DEF PushEnds, GoTo, TypeOK
<1>2. /\ pushed'[t] > 0 => o = "sent"
      /\ \A u \in Tasks : u # t => pushed'[u] = pushed[u]
  BY <1>0, <1>1 DEF TypeOK, OnceInv, PushedOnce, BeforePush
<1>3. Owes(t) /\ row[t[2]] = "queued"
  BY <1>1 DEF Owes, ActPhase, Rows, RowsOwed, Open
<1>4. status # "sent" /\ ~Finalizing
  BY <1>3, TaskWorks
<1>5. \A u \in Tasks : u # t => (Owes(u)' <=> Owes(u)) /\ phase'[u] = phase[u]
  BY <1>1, ProcNames DEF Owes, Stale
<1>6. \A e \in Epochs : phase'[<<e, 0>>] = phase[<<e, 0>>]
  BY <1>1, ProcNames
<1>7. RowsOwed'
  BY <1>1, <1>3, <1>5 DEF Rows, RowsOwed
<1>8. PageOpen'
  BY <1>1, <1>6 DEF Rows, PageOpen
<1>9. TallyCounts' /\ SentSettled'
  <2>1. \A p \in Procs : phase'[p] # "finWrite"
    BY <1>1, <1>4 DEF Finalizing, FinPhase
  <2> QED
    BY <1>1, <1>4, <2>1 DEF TallyCounts, SentSettled
<1>10. OutcomeKnown'
  <2> SUFFICES ASSUME NEW u \in Tasks
               PROVE  /\ pushed'[u] > 0 => outcome'[u] = "sent"
                      /\ phase'[u] \in {"row", "lead", "total"} => outcome'[u] # "none"
    BY DEF OutcomeKnown
  <2>1. CASE u = t
    BY <1>1, <1>2, <2>1
  <2>2. CASE u # t
    BY <1>1, <1>2, <1>5, <2>2 DEF Rows, OutcomeKnown
  <2> QED
    BY <2>1, <2>2
<1>11. FirstHonest'
  BY <1>1, <1>2, <1>3, <1>6 DEF Rows, FirstHonest, OneRun
<1> QED
  BY <1>7, <1>8, <1>9, <1>10, <1>11 DEF Rows

LEMMA RowsRecord ==
  ASSUME CalmInv, Rows, NEW t \in Tasks, RecordRow(t)
  PROVE  Rows'
<1> USE DEF dbVars, memVars, runVars, taskVars, callVars, envVars
<1>0. /\ t \in Procs /\ TypeOK /\ OnceInv
      /\ t[1] \in Epochs /\ t[2] \in Subs /\ t = <<t[1], t[2]>>
  BY ProcNames DEF CalmInv
<1>1. /\ phase[t] = "row" /\ phase'[t] \in {"lead", "total"}
      /\ row'[t[2]] = outcome[t] /\ \A s \in Subs : s # t[2] => row'[s] = row[s]
      /\ \A q \in Procs : q # t => phase'[q] = phase[q]
      /\ UNCHANGED <<status, totals, epoch, paused, tally, picked, outcome, pushed>>
  BY <1>0 DEF RecordRow, GoTo, TypeOK
<1>2. Owes(t)
  BY <1>1 DEF Owes, ActPhase
<1>3. /\ status # "sent" /\ ~Finalizing
      /\ \A u \in Tasks : Owes(u) => u[1] = t[1]
      /\ \A e \in Epochs : phase[<<e, 0>>] \in RunPhase => e = t[1]
  BY <1>2, TaskWorks
<1>5. \A u \in Tasks : u # t => (Owes(u)' <=> Owes(u)) /\ phase'[u] = phase[u]
  BY <1>1, ProcNames DEF Owes, Stale
<1>6. \A e \in Epochs : phase'[<<e, 0>>] = phase[<<e, 0>>]
  BY <1>1, ProcNames
<1>7. RowsOwed'
  <2> SUFFICES ASSUME NEW u \in Tasks, Owes(u)', phase'[u] \in Open
               PROVE  row'[u[2]] = "queued"
    BY DEF RowsOwed
  <2>1. u # t
    BY <1>1 DEF Open
  <2>2. Owes(u) /\ row[u[2]] = "queued" /\ u[1] = t[1]
    BY <1>3, <1>5, <2>1 DEF Rows, RowsOwed
  <2>3. u[2] # t[2] /\ u[2] \in Subs
    BY <1>0, <2>1, <2>2, ProcNames
  <2> QED
    BY <1>1, <2>2, <2>3
<1>8. PageOpen'
  <2> SUFFICES ASSUME NEW e \in Epochs, phase[<<e, 0>>] = "enqueue", NEW x \in picked[e]
               PROVE  row'[x[1]] = row[x[1]]
    BY <1>1, <1>6 DEF Rows, PageOpen
  <2>1. e = t[1]
    BY <1>3 DEF RunPhase
  <2>2. phase[<<e, x[1]>>] = "none"
    BY <1>0 DEF OnceInv, CursorPassed
  <2>3. x[1] # t[2]
    BY <1>0, <1>1, <2>1, <2>2
  <2>4. x[1] \in Subs
    BY <1>0 DEF TypeOK
  <2> QED
    BY <1>1, <2>3, <2>4
<1>9. TallyCounts' /\ SentSettled'
  <2>1. \A p \in Procs : phase'[p] # "finWrite"
    BY <1>1, <1>3 DEF Finalizing, FinPhase
  <2> QED
    BY <1>1, <1>3, <2>1 DEF TallyCounts, SentSettled
<1>10. OutcomeKnown'
  BY <1>1, <1>5 DEF Rows, OutcomeKnown
<1>11. FirstHonest'
  <2> SUFFICES ASSUME OneRun, NEW u \in Tasks, pushed[u] > 0, row'[u[2]] = "failed"
               PROVE  FALSE
    BY <1>1, <1>6 DEF FirstHonest, OneRun
  <2>0. u[1] \in Epochs /\ u[2] \in Subs /\ u = <<u[1], u[2]>>
    BY ProcNames
  <2>1. CASE u[2] # t[2]
    BY <1>1, <2>0, <2>1 DEF Rows, FirstHonest
  <2>2. CASE u[2] = t[2]
    <3>1. phase[u] # "none" /\ phase[t] # "none"
      BY <1>0, <1>1 DEF OnceInv, PushedOnce, BeforePush
    <3>2. phase[<<u[1], 0>>] # "none" /\ phase[<<t[1], 0>>] # "none"
      BY <1>0, <2>0, <3>1 DEF OnceInv, FreshRuns
    <3>3. u = t
      BY <1>0, <2>0, <2>2, <3>2 DEF OneRun
    <3>4. outcome[t] = "sent"
      BY <3>3 DEF Rows, OutcomeKnown
    <3> QED
      BY <1>1, <2>2, <3>4
  <2> QED
    BY <2>1, <2>2
<1> QED
  BY <1>7, <1>8, <1>9, <1>10, <1>11 DEF Rows

LEMMA RowsTask ==
  ASSUME CalmInv, Rows, NEW t \in Tasks, TaskStep(t)
  PROVE  Rows'
<1> USE DEF dbVars, memVars, runVars, taskVars, callVars, envVars
<1>0. t \in Procs /\ TypeOK /\ \A e \in Epochs : t # <<e, 0>>
  BY ProcNames DEF CalmInv
<1>1. CASE PushDelivered(t) \/ PushGone(t) \/ PushFails(t)
  BY <1>1, RowsPush DEF PushDelivered, PushGone, PushFails
<1>2. CASE RecordRow(t)
  BY <1>2, RowsRecord
<1>3. CASE TaskStart(t) \/ TaskPaced(t) \/ PushThrottled(t) \/ PushRetry(t)
           \/ RecordLead(t) \/ RecordTotal(t) \/ TaskDone(t)
  <2>1. PICK l \in {"pacing", "pushing", "backoff", "total", "done", "ended", "finRead"} :
          /\ phase'[t] = l
          /\ \A q \in Procs : q # t => phase'[q] = phase[q]
    BY <1>0, <1>3 DEF TaskStart, TaskPaced, PushThrottled, PushRetry, RecordLead,
       RecordTotal, TaskDone, SetRemaining, GoTo, TypeOK
  <2>2. UNCHANGED <<row, outcome, pushed, epoch, paused, tally, status, picked>>
    BY <1>3 DEF TaskStart, TaskPaced, PushThrottled, PushRetry, RecordLead,
       RecordTotal, TaskDone
  <2>3. /\ l = "pacing" => phase[t] = "waiting"
        /\ l = "total" => phase[t] = "lead"
        /\ l \in ActPhase => Owes(t)
        /\ l \in Open => phase[t] \in Open
    BY <1>0, <1>3, <2>1 DEF TaskStart, TaskPaced, PushThrottled, PushRetry, RecordLead,
       RecordTotal, TaskDone, SetRemaining, GoTo, TypeOK, Owes, ActPhase, Open
  <2>4. status' = "sent" => status = "sent" /\ totals' = totals
    <3>1. CASE RecordTotal(t)
      <4>1. Owes(t)
        BY <3>1 DEF RecordTotal, Owes, ActPhase
      <4> QED
        BY <2>2, <4>1, TaskWorks
    <3>2. CASE ~RecordTotal(t)
      BY <1>3, <3>2 DEF TaskStart, TaskPaced, PushThrottled, PushRetry, RecordLead, TaskDone
    <3> QED
      BY <3>1, <3>2
  <2> QED
    BY <1>0, <2>1, <2>2, <2>3, <2>4, RowsMoves
<1> QED
  BY <1>1, <1>2, <1>3 DEF TaskStep

LEMMA RowsFinalize ==
  ASSUME CalmInv, Rows, NEW p \in Procs, FinalizeStep(p)
  PROVE  Rows'
<1> USE DEF dbVars, memVars, runVars, taskVars, callVars, envVars
<1>0. TypeOK /\ NobodyOwes /\ NoLoop
  BY DEF CalmInv, Count, LastOfAll, Finalizing, FinalizeStep, FinalizeRead,
     FinalizeTally, FinalizeWrite, FinPhase
<1>1. CASE FinalizeRead(p)
  <2>1. PICK l \in {"ended", "finTally"} :
          phase'[p] = l /\ \A q \in Procs : q # p => phase'[q] = phase[q]
    BY <1>0, <1>1 DEF FinalizeRead, GoTo, TypeOK
  <2>2. UNCHANGED <<row, outcome, pushed, epoch, paused, tally, status, picked, totals>>
    BY <1>1 DEF FinalizeRead
  <2>3. l \notin ActPhase /\ l \notin Open
    BY DEF ActPhase, Open
  <2> QED
    BY <1>0, <2>1, <2>2, <2>3, RowsMoves
<1>2. ASSUME NEW l \in {"finWrite", "ended"}, GoTo(p, l), phase[p] \in FinPhase,
             UNCHANGED <<row, outcome, pushed, epoch, paused, picked>>,
             \A q \in Procs : q # p => tally'[q] = tally[q],
             l = "finWrite" => tally'[p] = RowTally,
             \/ status' = status /\ totals' = totals
             \/ status' = "sent" /\ totals' = RowTally
      PROVE  Rows'
  <2>1. phase'[p] = l /\ \A q \in Procs : q # p => phase'[q] = phase[q]
    BY <1>0, <1>2 DEF GoTo, TypeOK
  <2>2. RowTally' = RowTally
    BY <1>2 DEF RowTally, CountRows
  <2>3. \A t \in Tasks : Owes(t)' => Owes(t)
    <3> SUFFICES ASSUME NEW t \in Tasks, Owes(t)' PROVE Owes(t)
      OBVIOUS
    <3>1. t \in Procs
      BY ProcNames
    <3>2. CASE t = p
      BY <2>1, <3>1, <3>2 DEF Owes, ActPhase
    <3>3. CASE t # p
      BY <1>2, <2>1, <3>1, <3>3 DEF Owes, Stale
    <3> QED
      BY <3>2, <3>3
  <2>4. NobodyOwes' /\ \A e \in Epochs : phase'[<<e, 0>>] \notin RunPhase
    BY <1>0, <2>1, <2>3, ProcNames DEF NobodyOwes, NoLoop, RunPhase
  <2>5. RowsOwed' /\ PageOpen'
    BY <2>4 DEF RowsOwed, NobodyOwes, PageOpen, RunPhase
  <2>6. TallyCounts'
    BY <1>2, <2>1, <2>2 DEF Rows, TallyCounts
  <2>7. SentSettled'
    BY <1>2, <2>2, <2>4 DEF Rows, SentSettled, NoLoop
  <2>8. OutcomeKnown'
    BY <1>2, <2>1, ProcNames DEF Rows, OutcomeKnown
  <2>9. FirstHonest'
    BY <1>2, <2>1, ProcNames DEF Rows, FirstHonest, OneRun, FinPhase
  <2> QED
    BY <2>5, <2>6, <2>7, <2>8, <2>9 DEF Rows
<1>3. CASE FinalizeTally(p)
  <2>1. /\ GoTo(p, "finWrite") /\ phase[p] \in FinPhase
        /\ UNCHANGED <<row, outcome, pushed, epoch, paused, picked, status, totals>>
        /\ \A q \in Procs : q # p => tally'[q] = tally[q]
        /\ tally'[p] = RowTally
    BY <1>0, <1>3 DEF FinalizeTally, FinPhase, TypeOK
  <2> QED
    BY <1>2, <2>1
<1>4. CASE FinalizeWrite(p)
  <2>1. /\ GoTo(p, "ended") /\ phase[p] \in FinPhase
        /\ UNCHANGED <<row, outcome, pushed, epoch, paused, picked, tally>>
        /\ status' = "sent" /\ totals' = RowTally
    BY <1>4 DEF FinalizeWrite, FinPhase, Rows, TallyCounts
  <2> QED
    BY <1>2, <2>1
<1> QED
  BY <1>1, <1>3, <1>4 DEF FinalizeStep

LEMMA RowsFault ==
  ASSUME CalmInv, Rows, NEW p \in Procs,
         \/ \E e \in Epochs : p = <<e, 0>> /\ RunFault(e)
         \/ p \in Tasks /\ RecordFault(p)
         \/ FinalizeFault(p)
  PROVE  Rows'
<1> USE DEF dbVars, memVars, runVars, taskVars, callVars, envVars
<1>0. TypeOK
  BY DEF CalmInv
<1>1. PICK l \in {"done", "ended"} :
        /\ phase'[p] = l /\ \A q \in Procs : q # p => phase'[q] = phase[q]
        /\ p \in Tasks /\ l = "done" => Owes(p)
  <2>1. CASE RecordFault(p)
    BY <1>0, <2>1 DEF RecordFault, GoTo, TypeOK, Owes, ActPhase
  <2>2. CASE FinalizeFault(p) \/ \E e \in Epochs : p = <<e, 0>> /\ RunFault(e)
    BY <1>0, <2>2 DEF FinalizeFault, RunFault, GoTo, TypeOK
  <2> QED
    BY <2>1, <2>2
<1>2. UNCHANGED <<row, outcome, pushed, epoch, paused, tally, status, picked, totals>>
  BY DEF RunFault, RecordFault, FinalizeFault
<1>3. l \notin Open
  BY DEF Open
<1>4. l \in ActPhase => l = "done"
  BY DEF ActPhase
<1> QED
  BY <1>0, <1>1, <1>2, <1>3, <1>4, RowsMoves

LEMMA RowsRequest ==
  ASSUME CalmInv, Rows, Calm,
         \/ DispatchClaim \/ PauseRead \/ ResumeClaim \/ CallStep
         \/ Maintenance \/ Restart \/ \E s \in Subs : Unsubscribe(s)
         \/ UNCHANGED vars
  PROVE  Rows'
<1> USE DEF dbVars, memVars, runVars, taskVars, callVars, envVars
<1>0. TypeOK /\ OnceInv /\ Control /\ Count
  BY DEF CalmInv
<1>1. CASE DispatchClaim \/ PauseRead \/ PauseWrite \/ ResumeClaim
           \/ MaintenanceRead \/ UNCHANGED vars \/ \E s \in Subs : Unsubscribe(s)
  <2>1. UNCHANGED <<row, outcome, pushed, tally, phase, picked, paused, epoch>>
    BY <1>1 DEF DispatchClaim, PauseRead, PauseWrite, ResumeClaim, MaintenanceRead, Unsubscribe, vars
  <2>2. status' = "sent" => status = "sent" /\ totals' = totals
    BY <1>1 DEF DispatchClaim, PauseRead, PauseWrite, ResumeClaim, MaintenanceRead, Unsubscribe, vars
  <2>3. \A t \in Tasks : Owes(t)' => Owes(t)
    BY <2>1 DEF Owes, Stale
  <2> QED
    BY <1>0, <2>1, <2>2, <2>3, RowsStill
<1>2. CASE PauseMark
  <2>1. /\ UNCHANGED <<row, outcome, pushed, tally, phase, picked, status, totals>>
        /\ paused' = TRUE
    BY <1>2 DEF PauseMark
  <2>2. \A t \in Tasks : Owes(t)' => Owes(t)
    BY <2>1 DEF Owes, Stale, ActPhase
  <2> QED
    BY <1>0, <2>1, <2>2, RowsStill
<1>3. CASE MaintenanceWrite
  <2>1. /\ UNCHANGED <<row, outcome, pushed, tally, phase, picked, paused, epoch>>
        /\ status' = "sent" => totals' = [RowTally EXCEPT !.failed = @ + CountRows("queued")]
                               /\ ~(CountRows("queued") > 0)
        /\ maint = "closing"
    BY <1>3 DEF MaintenanceWrite
  <2>2. AllRest /\ ~IsLive
    BY <1>0, <2>1 DEF Control, Closing
  <2>3. NobodyOwes /\ NoLoop
    BY <1>0, <2>2, ProcNames DEF IsLive, Count, Counted, AllRest, NoLoop, IsBusy, RunPhase
  <2>4. status' = "sent" => totals' = RowTally
    BY <2>1, CountsAreNat DEF RowTally
  <2>5. RowTally' = RowTally
    BY <2>1 DEF RowTally, CountRows
  <2>6. RowsOwed' /\ PageOpen' /\ TallyCounts' /\ OutcomeKnown' /\ FirstHonest'
    BY <2>1, <2>5 DEF Rows, RowsOwed, PageOpen, TallyCounts, OutcomeKnown, FirstHonest, OneRun, Owes, Stale
  <2>7. SentSettled'
    BY <2>1, <2>3, <2>4, <2>5 DEF SentSettled, NobodyOwes, NoLoop, Owes, Stale
  <2> QED
    BY <2>6, <2>7 DEF Rows
<1>4. CASE DispatchBegin \/ ResumeBegin
  <2>1. /\ epoch' \in Epochs
        /\ phase'[<<epoch', 0>>] \in {"audience", "scan"}
        /\ \A q \in Procs : q # <<epoch', 0>> => phase'[q] = phase[q]
        /\ NobodyOwes' /\ AllRest
    BY <1>0, <1>4, BeginDispatch, BeginResume
  <2>2. UNCHANGED <<row, outcome, pushed, tally, picked, totals, status>>
    BY <1>4 DEF DispatchBegin, ResumeBegin
  <2>3. status = "sending"
    BY <1>0, <1>4 DEF DispatchBegin, ResumeBegin, Control, Claimed, Claims, TypeOK
  <2>4. \A t \in Tasks : ~Owes(t)' /\ phase'[t] = phase[t]
    BY <2>1, ProcNames DEF NobodyOwes
  <2>5. \A e \in Epochs : /\ phase'[<<e, 0>>] = "enqueue" => phase[<<e, 0>>] = "enqueue"
                          /\ phase[<<e, 0>>] # "none" => phase'[<<e, 0>>] # "none"
    BY <2>1, ProcNames
  <2>6. \A p \in Procs : phase'[p] = "finWrite" => phase[p] = "finWrite"
    BY <2>1
  <2> QED
    BY <2>2, <2>3, <2>4, <2>5, <2>6, RowsKept
<1>5. CASE Restart
  <2>1. /\ UNCHANGED <<row, outcome, pushed, tally, picked, totals, status>>
        /\ \A p \in Procs : /\ phase'[p] \in {"none", "ended"}
                            /\ phase'[p] = "none" <=> phase[p] = "none"
    BY <1>5 DEF Restart
  <2>2. NobodyOwes'
    BY <1>0, <1>5, ControlRestart
  <2> QED
    BY <2>1, <2>2, ProcNames, RowsKept DEF NobodyOwes, RunPhase
<1> QED
  BY <1>1, <1>2, <1>3, <1>4, <1>5 DEF CallStep, Maintenance

LEMMA RowsStep ==
  ASSUME Calm, CalmInv, Rows, [Next]_vars
  PROVE  Rows'
<1>1. CASE \E e \in Epochs : RunStep(e)
  BY <1>1, RowsRun
<1>2. CASE \E t \in Tasks : TaskStep(t)
  BY <1>2, RowsTask
<1>3. CASE \E p \in Procs : FinalizeStep(p)
  BY <1>3, RowsFinalize
<1>4. CASE \/ \E e \in Epochs : RunFault(e)
           \/ \E t \in Tasks : RecordFault(t)
           \/ \E p \in Procs : FinalizeFault(p)
  BY <1>4, RowsFault, ProcNames
<1> QED
  BY <1>1, <1>2, <1>3, <1>4, RowsRequest DEF Next

LEMMA RowsInit == Init => Rows
<1> SUFFICES ASSUME Init PROVE Rows
  OBVIOUS
<1>1. /\ \A p \in Procs : phase[p] = "none"
      /\ \A t \in Tasks : phase[t] = "none" /\ pushed[t] = 0
      /\ \A e \in Epochs : phase[<<e, 0>>] = "none"
      /\ status = "draft"
  BY ProcNames DEF Init
<1> QED
  BY <1>1 DEF Rows, RowsOwed, PageOpen, TallyCounts, SentSettled, OutcomeKnown,
     FirstHonest, Owes, ActPhase

\* The campaign's counters agree with its rows once it is closed, though tasks
\* increment them and finalize() writes what it has counted one await earlier
\* (campaign-runner.service.ts:666-690).
THEOREM TotalsAgree ==
  ASSUME Calm PROVE Spec => []TotalsExact
<1>1. CalmInv /\ Rows /\ [Next]_vars => CalmInv' /\ Rows'
  BY CalmStep, RowsStep
<1>2. CalmInv /\ Rows => TotalsExact
  BY DEF Rows, SentSettled, TotalsExact
<1> QED
  BY <1>1, <1>2, CalmInit, RowsInit, PTL DEF Spec

\* Only PushDelivered touches the pushes.
LEMMA PushSteps ==
  ASSUME TypeOK, [Next]_vars, NEW t \in Tasks, pushed'[t] # pushed[t]
  PROVE  PushDelivered(t)
<1> USE DEF dbVars, memVars, runVars, taskVars, callVars, envVars
<1>1. CASE \E u \in Tasks : TaskStep(u)
  <2>1. PICK u \in Tasks : TaskStep(u)
    BY <1>1
  <2>2. CASE PushDelivered(u)
    <3>1. pushed' = [pushed EXCEPT ![u] = @ + 1]
      BY <2>2 DEF PushDelivered
    <3>2. t = u
      BY <3>1 DEF TypeOK
    <3> QED
      BY <2>2, <3>2
  <2>3. CASE ~PushDelivered(u)
    <3>1. pushed' = pushed
      BY <2>1, <2>3 DEF TaskStep, TaskStart, TaskPaced, PushGone, PushFails,
         PushThrottled, PushRetry, RecordRow, RecordLead, RecordTotal, TaskDone
    <3> QED
      BY <3>1
  <2> QED
    BY <2>2, <2>3
<1>2. CASE \E e \in Epochs : RunStep(e) \/ RunFault(e)
  BY <1>2 DEF RunStep, RunFault, AudienceResolved, TargetRead, TargetInsert,
     DispatchEnd, ScanRead, ScanEnqueue, ScanEnd
<1>3. CASE \/ \E p \in Procs : FinalizeStep(p) \/ FinalizeFault(p)
           \/ \E u \in Tasks : RecordFault(u)
           \/ \E s \in Subs : Unsubscribe(s)
  BY <1>3 DEF FinalizeStep, FinalizeFault, FinalizeRead, FinalizeTally,
     FinalizeWrite, RecordFault, Unsubscribe
<1>4. CASE \/ DispatchClaim \/ PauseRead \/ ResumeClaim \/ CallStep
           \/ Maintenance \/ Restart \/ UNCHANGED vars
  BY <1>4 DEF DispatchClaim, PauseRead, ResumeClaim, CallStep, DispatchBegin,
     PauseMark, PauseWrite, ResumeBegin, Maintenance, MaintenanceRead,
     MaintenanceWrite, Restart, vars
<1> QED
  BY <1>1, <1>2, <1>3, <1>4 DEF Next

\* A lead is pushed only while its row is open: a replay after a pause, a restart
\* or a statement that threw repeats a push only where none is on record
\* (campaign-runner.service.ts:102, 240).
THEOREM OnlyOpenRows ==
  ASSUME Calm PROVE Spec => PushesOpenRows
<1>1. CalmInv /\ Rows /\ [Next]_vars => CalmInv' /\ Rows'
  BY CalmStep, RowsStep
<1>2. CalmInv /\ Rows /\ [Next]_vars =>
        [\A t \in Tasks : pushed'[t] # pushed[t] => row[t[2]] = "queued"]_pushed
  <2> SUFFICES ASSUME CalmInv, Rows, [Next]_vars, NEW t \in Tasks, pushed'[t] # pushed[t]
               PROVE  row[t[2]] = "queued"
    OBVIOUS
  <2>1. phase[t] = "pushing"
    BY PushSteps DEF CalmInv, PushDelivered, PushEnds
  <2> QED
    BY <2>1 DEF Rows, RowsOwed, Open, Owes, ActPhase
<1> QED
  BY <1>1, <1>2, CalmInit, RowsInit, PTL DEF Spec, PushesOpenRows

\* In the first run of a campaign no row of a delivered push says "failed", though
\* the statement that records it may throw (campaign-runner.service.ts:765).
THEOREM NeverMislabelled ==
  ASSUME Calm PROVE Spec => []DeliveredNotFailed
<1>1. CalmInv /\ Rows /\ [Next]_vars => CalmInv' /\ Rows'
  BY CalmStep, RowsStep
<1>2. CalmInv /\ Rows => DeliveredNotFailed
  <2> SUFFICES ASSUME CalmInv, Rows, NEW s \in Subs, row[s] = "failed",
                      Cardinality({r \in Runs : phase[r] # "none"}) <= 1,
                      NEW e \in Epochs, pushed[<<e, s>>] > 0
               PROVE  FALSE
    BY DEF DeliveredNotFailed, Delivered
  <2> DEFINE R == {r \in Runs : phase[r] # "none"}
  <2>1. \A c, d \in Epochs : phase[<<c, 0>>] # "none" /\ phase[<<d, 0>>] # "none" => c = d
    <3> SUFFICES ASSUME NEW c \in Epochs, NEW d \in Epochs, phase[<<c, 0>>] # "none",
                        phase[<<d, 0>>] # "none", c # d
                 PROVE  FALSE
      OBVIOUS
    <3>1. {<<c, 0>>, <<d, 0>>} \subseteq R
      BY DEF Runs
    <3>2. IsFiniteSet(R)
      <4>1. IsFiniteSet(Epochs)
        BY RunnerAssumption, FS_Interval DEF Epochs
      <4>2. IsFiniteSet({0})
        BY FS_Singleton
      <4>3. IsFiniteSet(Runs)
        BY <4>1, <4>2, FS_Product DEF Runs
      <4> QED
        BY <4>3, FS_Subset
    <3>3. Cardinality({<<c, 0>>, <<d, 0>>}) = 2
      <4>1. IsFiniteSet({<<d, 0>>}) /\ Cardinality({<<d, 0>>}) = 1 /\ <<c, 0>> \notin {<<d, 0>>}
        BY FS_Singleton
      <4>2. Cardinality({<<d, 0>>} \cup {<<c, 0>>}) = 1 + 1
        BY <4>1, FS_AddElement, Zenon
      <4>3. {<<d, 0>>} \cup {<<c, 0>>} = {<<c, 0>>, <<d, 0>>}
        OBVIOUS
      <4> QED
        BY <4>2, <4>3
    <3>4. Cardinality({<<c, 0>>, <<d, 0>>}) <= Cardinality(R) /\ Cardinality(R) \in Nat
      BY <3>1, <3>2, FS_Subset, FS_CardinalityType
    <3> QED
      BY <3>3, <3>4
  <2>2. <<e, s>> \in Tasks /\ <<e, s>>[2] = s
    BY ProcNames
  <2> QED
    BY <2>1, <2>2 DEF Rows, FirstHonest, OneRun
<1> QED
  BY <1>1, <1>2, CalmInit, RowsInit, PTL DEF Spec

-----------------------------------------------------------------------------
\* What a step may do to the rows, the drafts and the loops.

LEMMA RowSteps ==
  ASSUME [Next]_vars, row' # row
  PROVE  \/ \E e \in Epochs : TargetInsert(e) \/ ScanEnqueue(e)
         \/ \E t \in Tasks : RecordRow(t)
<1> USE DEF dbVars, memVars, runVars, taskVars, callVars, envVars
<1>1. CASE \E u \in Tasks : TaskStep(u)
  BY <1>1 DEF TaskStep, TaskStart, TaskPaced, PushDelivered, PushGone, PushFails,
         PushEnds, PushThrottled, PushRetry, RecordLead, RecordTotal, TaskDone
<1>2. CASE \E e \in Epochs : RunStep(e) \/ RunFault(e)
  BY <1>2 DEF RunStep, RunFault, AudienceResolved, TargetRead, DispatchEnd,
     ScanRead, ScanEnd
<1>3. CASE \/ \E p \in Procs : FinalizeStep(p) \/ FinalizeFault(p)
           \/ \E u \in Tasks : RecordFault(u)
           \/ \E s \in Subs : Unsubscribe(s)
  BY <1>3 DEF FinalizeStep, FinalizeFault, FinalizeRead, FinalizeTally,
     FinalizeWrite, RecordFault, Unsubscribe
<1>4. CASE \/ DispatchClaim \/ PauseRead \/ ResumeClaim \/ CallStep
           \/ Maintenance \/ Restart \/ UNCHANGED vars
  BY <1>4 DEF DispatchClaim, PauseRead, ResumeClaim, CallStep, DispatchBegin,
     PauseMark, PauseWrite, ResumeBegin, Maintenance, MaintenanceRead,
     MaintenanceWrite, Restart, vars
<1> QED
  BY <1>1, <1>2, <1>3, <1>4 DEF Next

LEMMA DraftSteps ==
  ASSUME TypeOK, [Next]_vars, status' = "draft" \/ dispatchClaims' > 0
  PROVE  status = "draft" \/ dispatchClaims > 0
<1> USE DEF dbVars, memVars, runVars, taskVars, callVars, envVars
<1>1. CASE \E u \in Tasks : TaskStep(u)
  BY <1>1 DEF TaskStep, TaskStart, TaskPaced, PushDelivered, PushGone, PushFails,
         PushEnds, PushThrottled, PushRetry, RecordRow, RecordLead, RecordTotal, TaskDone
<1>2. CASE \E e \in Epochs : RunStep(e) \/ RunFault(e)
  BY <1>2 DEF RunStep, RunFault, AudienceResolved, TargetRead, TargetInsert, DispatchEnd,
     ScanRead, ScanEnqueue, ScanEnd
<1>3. CASE \/ \E p \in Procs : FinalizeStep(p) \/ FinalizeFault(p)
           \/ \E u \in Tasks : RecordFault(u)
           \/ \E s \in Subs : Unsubscribe(s)
  BY <1>3 DEF FinalizeStep, FinalizeFault, FinalizeRead, FinalizeTally,
     FinalizeWrite, RecordFault, Unsubscribe
<1>4. CASE \/ DispatchClaim \/ PauseRead \/ ResumeClaim \/ CallStep
           \/ Maintenance \/ Restart \/ UNCHANGED vars
  BY <1>4 DEF DispatchClaim, PauseRead, ResumeClaim, CallStep, DispatchBegin,
     PauseMark, PauseWrite, ResumeBegin, Maintenance, MaintenanceRead,
     MaintenanceWrite, Restart, vars, TypeOK
<1> QED
  BY <1>1, <1>2, <1>3, <1>4 DEF Next

\* A loop stands still, takes a step, begins, or is over.
LEMMA LoopSteps ==
  ASSUME TypeOK, [Next]_vars, NEW e \in Epochs
  PROVE  \/ UNCHANGED <<phase[<<e, 0>>], cursor[e], picked[e]>>
         \/ RunStep(e)
         \/ /\ phase[<<e, 0>>] # "none"
            /\ phase'[<<e, 0>>] \in {"ended", "finTally", "finWrite"}
            /\ phase[<<e, 0>>] \in FinPhase \/ RunFault(e) \/ Restart
         \/ DispatchBegin \/ ResumeBegin
<1> USE DEF dbVars, memVars, runVars, taskVars, callVars, envVars
<1>0. <<e, 0>> \in Procs /\ \A t \in Tasks : <<e, 0>> # t
  BY ProcNames
<1>1. ASSUME NEW p \in Procs, NEW l, GoTo(p, l), UNCHANGED <<cursor, picked>>
      PROVE  \/ UNCHANGED <<phase[<<e, 0>>], cursor[e], picked[e]>>
             \/ p = <<e, 0>> /\ phase'[<<e, 0>>] = l
  BY <1>0, <1>1 DEF GoTo, TypeOK
<1>2. CASE \E t \in Tasks : TaskStep(t) \/ RecordFault(t)
  <2>1. PICK t \in Tasks : TaskStep(t) \/ RecordFault(t)
    BY <1>2
  <2>2. (\E l : GoTo(t, l)) /\ UNCHANGED <<cursor, picked>>
    BY <2>1 DEF TaskStep, TaskStart, TaskPaced, PushDelivered, PushGone, PushFails,
         PushEnds, PushThrottled, PushRetry, RecordRow, RecordLead, RecordTotal, TaskDone,
         SetRemaining, RecordFault
  <2> QED
    BY <1>0, <1>1, <2>2, ProcNames
<1>3. CASE \E d \in Epochs : RunStep(d)
  <2>1. PICK d \in Epochs : RunStep(d)
    BY <1>3
  <2>2. CASE d = e
    BY <2>1, <2>2
  <2>3. CASE d # e
    <3>0. <<d, 0>> # <<e, 0>> /\ <<d, 0>> \in Procs
      BY <2>3, ProcNames
    <3>1. CASE AudienceResolved(d) \/ TargetRead(d) \/ DispatchEnd(d) \/ ScanRead(d) \/ ScanEnd(d)
      <4>1. \E l : GoTo(<<d, 0>>, l)
        BY <3>1 DEF AudienceResolved, TargetRead, DispatchEnd, ScanRead, ScanEnd, SetRemaining
      <4>2. phase'[<<e, 0>>] = phase[<<e, 0>>]
        BY <1>0, <3>0, <4>1 DEF GoTo, TypeOK
      <4>3. cursor'[e] = cursor[e] /\ picked'[e] = picked[e]
        BY <2>3, <3>1 DEF AudienceResolved, TargetRead, DispatchEnd, ScanRead, ScanEnd, TypeOK
      <4> QED
        BY <4>2, <4>3
    <3>2. CASE TargetInsert(d) \/ ScanEnqueue(d)
      BY <1>0, <2>3, <3>0, <3>2 DEF TargetInsert, ScanEnqueue, TypeOK
    <3> QED
      BY <2>1, <3>1, <3>2 DEF RunStep
  <2> QED
    BY <2>2, <2>3
<1>4. CASE \E p \in Procs : FinalizeStep(p) \/ FinalizeFault(p)
  <2>1. PICK p \in Procs : FinalizeStep(p) \/ FinalizeFault(p)
    BY <1>4
  <2>2. PICK l \in {"ended", "finTally", "finWrite"} : GoTo(p, l) /\ UNCHANGED <<cursor, picked>>
        /\ phase[p] \in FinPhase
    BY <2>1 DEF FinalizeStep, FinalizeFault, FinalizeRead, FinalizeTally, FinalizeWrite, FinPhase
  <2>3. phase[p] # "none"
    BY <2>2 DEF FinPhase
  <2> QED
    BY <1>1, <2>2, <2>3
<1>5. CASE \E d \in Epochs : RunFault(d)
  <2>1. PICK d \in Epochs : RunFault(d)
    BY <1>5
  <2>2. GoTo(<<d, 0>>, "ended") /\ UNCHANGED <<cursor, picked>> /\ phase[<<d, 0>>] # "none"
    BY <2>1 DEF RunFault, RunPhase
  <2>3. <<d, 0>> \in Procs /\ (<<d, 0>> = <<e, 0>> => d = e)
    BY ProcNames
  <2> QED
    BY <1>1, <2>1, <2>2, <2>3
<1>6. CASE Restart
  BY <1>0, <1>6 DEF Restart
<1>7. CASE \/ DispatchClaim \/ PauseRead \/ ResumeClaim \/ PauseMark \/ PauseWrite
           \/ Maintenance \/ (\E s \in Subs : Unsubscribe(s)) \/ UNCHANGED vars
  BY <1>7 DEF DispatchClaim, PauseRead, ResumeClaim,
     PauseMark, PauseWrite, Maintenance, MaintenanceRead,
     MaintenanceWrite, Unsubscribe, vars
<1> QED
  BY <1>2, <1>3, <1>4, <1>5, <1>6, <1>7 DEF Next, CallStep

\* Until the first run has targeted a lead, the lead has no row.
Untouched ==
  /\ status = "draft" \/ dispatchClaims > 0 => \A s \in Subs : row[s] = "none"
  /\ \A e \in Epochs :
       /\ phase[<<e, 0>>] \in {"audience", "target", "insert"} =>
            \A s \in Subs : cursor[e] < s => row[s] = "none"
       /\ phase[<<e, 0>>] = "insert" => \A x \in picked[e] : row[x[1]] = "none"
       /\ phase[<<e, 0>>] \in {"none", "audience"} => cursor[e] = 0

LEMMA RowWorks ==
  ASSUME CalmInv, [Next]_vars, row' # row
  PROVE  status \in {"sending", "paused", "sent"} /\ dispatchClaims = 0
<1>1. \E p \in Procs : IsBusy(p)
  <2>1. CASE \E t \in Tasks : RecordRow(t)
    BY <2>1, ProcNames DEF RecordRow, IsBusy
  <2>2. CASE \E e \in Epochs : TargetInsert(e) \/ ScanEnqueue(e)
    BY <2>2, ProcNames DEF TargetInsert, ScanEnqueue, IsBusy
  <2> QED
    BY <2>1, <2>2, RowSteps
<1>2. /\ Claims = 0 /\ status \in {"sending", "paused", "sent"}
  BY <1>1, AtWork DEF CalmInv, Count
<1> QED
  BY <1>2 DEF Claims, CalmInv, TypeOK

LEMMA UntouchedStep ==
  ASSUME CalmInv, Rows, Untouched, [Next]_vars
  PROVE  Untouched'
<1> USE DEF dbVars, memVars, runVars, taskVars, callVars, envVars
<1>0. TypeOK /\ OnceInv
  BY DEF CalmInv
<1>1. ASSUME status' = "draft" \/ dispatchClaims' > 0
      PROVE  \A s \in Subs : row'[s] = "none"
  <2>1. status = "draft" \/ dispatchClaims > 0
    BY <1>0, <1>1, DraftSteps
  <2>2. row' = row
    BY <2>1, RowWorks
  <2> QED
    BY <2>1, <2>2 DEF Untouched
<1>2. ASSUME NEW e \in Epochs
      PROVE  /\ phase'[<<e, 0>>] \in {"audience", "target", "insert"} =>
                  \A s \in Subs : cursor'[e] < s => row'[s] = "none"
             /\ phase'[<<e, 0>>] = "insert" => \A x \in picked'[e] : row'[x[1]] = "none"
             /\ phase'[<<e, 0>>] \in {"none", "audience"} => cursor'[e] = 0
  <2>0. \A x \in picked[e] : x[1] \in Subs
    BY <1>0 DEF TypeOK
  <2>1. CASE UNCHANGED <<phase[<<e, 0>>], cursor[e], picked[e]>>
    <3>1. cursor'[e] = cursor[e] /\ picked'[e] = picked[e] /\ phase'[<<e, 0>>] = phase[<<e, 0>>]
      BY <2>1
    <3>2. CASE row' = row \/ phase[<<e, 0>>] \notin {"audience", "target", "insert"}
      BY <3>1, <3>2 DEF Untouched
    <3>3. CASE row' # row /\ phase[<<e, 0>>] \in {"audience", "target", "insert"}
      <4>0. phase[<<e, 0>>] \in RunPhase
        BY <3>3 DEF RunPhase
      <4>1. CASE \E d \in Epochs : TargetInsert(d) \/ ScanEnqueue(d)
        <5>1. PICK d \in Epochs : TargetInsert(d) \/ ScanEnqueue(d)
          BY <4>1
        <5>2. d = e
          BY <4>0, <5>1, LoopWorks DEF TargetInsert, ScanEnqueue, RunPhase
        <5>3. picked'[e] = {} /\ phase[<<e, 0>>] \in {"insert", "enqueue"}
          BY <1>0, <5>1, <5>2 DEF TargetInsert, ScanEnqueue, TypeOK
        <5>4. phase'[<<e, 0>>] \in {"target", "scan", "waiting"}
          BY <5>1, <5>2, ProcNames DEF TargetInsert, ScanEnqueue
        <5> QED
          BY <3>1, <5>3, <5>4
      <4>2. CASE \E t \in Tasks : RecordRow(t)
        <5>1. PICK t \in Tasks : RecordRow(t)
          BY <4>2
        <5>2. /\ phase[t] = "row" /\ Owes(t) /\ t[2] \in Subs /\ t = <<t[1], t[2]>>
              /\ \A s \in Subs : s # t[2] => row'[s] = row[s]
          BY <1>0, <5>1, ProcNames DEF RecordRow, Owes, ActPhase, TypeOK
        <5>3. t[1] = e
          BY <4>0, <5>2, TaskWorks
        <5>4. phase[<<e, t[2]>>] = "row"
          BY <5>2, <5>3
        <5>5. phase[<<e, 0>>] # "audience"
          BY <1>0, <5>2, <5>4 DEF OnceInv, FreshRuns
        <5>6. t[2] <= cursor[e]
          BY <1>0, <3>3, <5>2, <5>4, <5>5 DEF OnceInv, CursorPassed, Passed
        <5>7. \A s \in Subs : cursor[e] < s => s # t[2]
          BY <1>0, <5>6 DEF TypeOK, Subs
        <5>8. phase[<<e, 0>>] = "insert" => \A x \in picked[e] : x[1] # t[2]
          BY <1>0, <5>4 DEF OnceInv, CursorPassed
        <5> QED
          BY <2>0, <3>1, <5>2, <5>7, <5>8 DEF Untouched
      <4> QED
        BY <3>3, <4>1, <4>2, RowSteps
    <3> QED
      BY <3>2, <3>3
  <2>2. CASE RunStep(e)
    <3>0. <<e, 0>> \in Procs
      BY ProcNames
    <3>1. CASE AudienceResolved(e)
      <4>1. /\ phase[<<e, 0>>] = "audience" /\ phase'[<<e, 0>>] = "target"
            /\ UNCHANGED <<cursor, picked, row>>
        BY <1>0, <3>0, <3>1 DEF AudienceResolved, GoTo, TypeOK
      <4> QED
        BY <4>1 DEF Untouched
    <3>2. CASE TargetRead(e)
      <4> DEFINE chunk == {s \in Subs : cursor[e] < s /\ s <= cursor[e] + BatchSize}
                 live  == {s \in chunk : sub[s] = "active"}
      <4>1. /\ phase[<<e, 0>>] = "target" /\ phase'[<<e, 0>>] \in {"target", "insert"}
            /\ picked'[e] = live \X {TRUE} /\ row' = row
        BY <1>0, <3>0, <3>2 DEF TargetRead, GoTo, TypeOK
      <4>2. cursor[e] <= cursor'[e] /\ cursor[e] \in Nat /\ cursor'[e] \in Nat
        BY <1>0, <3>2, RunnerAssumption DEF TargetRead, TypeOK
      <4>3. \A s \in Subs : cursor'[e] < s => cursor[e] < s
        BY <4>2 DEF Subs
      <4>4. \A s \in live : s \in Subs /\ cursor[e] < s
        OBVIOUS
      <4> HIDE DEF live
      <4>5. \A x \in picked'[e] : x[1] \in live
        BY <4>1
      <4> QED
        BY <4>1, <4>3, <4>4, <4>5 DEF Untouched
    <3>3. CASE TargetInsert(e)
      <4>1. /\ phase[<<e, 0>>] = "insert" /\ cursor' = cursor
            /\ row' = [s \in Subs |-> IF s \in {x[1] : x \in picked[e]} THEN "queued" ELSE row[s]]
        BY <3>3 DEF TargetInsert
      <4>2. phase'[<<e, 0>>] \in {"target", "waiting"}
        BY <3>0, <3>3 DEF TargetInsert
      <4>3. \A x \in picked[e] : x[1] \in Subs /\ x[1] <= cursor[e]
        BY <1>0, <2>0, <4>1 DEF OnceInv, CursorPassed, Passed
      <4>4. \A s \in Subs : cursor[e] < s => s \notin {x[1] : x \in picked[e]}
        BY <1>0, <4>3 DEF TypeOK, Subs
      <4> QED
        BY <4>1, <4>2, <4>4 DEF Untouched
    <3>4. CASE DispatchEnd(e) \/ ScanRead(e) \/ ScanEnqueue(e) \/ ScanEnd(e)
      <4>1. phase'[<<e, 0>>] \in {"ended", "finRead", "enqueue", "scan", "waiting"}
        BY <1>0, <3>0, <3>4 DEF DispatchEnd, ScanRead, ScanEnqueue, ScanEnd, SetRemaining, GoTo, TypeOK
      <4> QED
        BY <4>1
    <3> QED
      BY <2>2, <3>1, <3>2, <3>3, <3>4 DEF RunStep
  <2>3. CASE phase'[<<e, 0>>] \in {"ended", "finTally", "finWrite"}
    BY <2>3
  <2>4. CASE DispatchBegin \/ ResumeBegin
    <3>1. /\ row' = row /\ cursor' = cursor /\ picked' = picked
          /\ epoch' = epoch + 1
      BY <2>4 DEF DispatchBegin, ResumeBegin
    <3>2. CASE e # epoch'
      <4>1. phase'[<<e, 0>>] = phase[<<e, 0>>]
        BY <1>0, <2>4, <3>2, BeginDispatch, BeginResume, ProcNames DEF CalmInv
      <4> QED
        BY <3>1, <4>1 DEF Untouched
    <3>3. CASE e = epoch'
      <4>1. phase[<<e, 0>>] = "none"
        BY <1>0, <3>1, <3>3, RunnerAssumption DEF OnceInv, FreshRuns, TypeOK
      <4>2. cursor[e] = 0
        BY <4>1 DEF Untouched
      <4>3. CASE DispatchBegin
        <5>1. \A s \in Subs : row[s] = "none"
          BY <4>3 DEF DispatchBegin, Untouched
        <5>2. phase'[<<e, 0>>] = "audience"
          BY <1>0, <3>3, <4>3, BeginDispatch DEF CalmInv
        <5> QED
          BY <3>1, <4>2, <5>1, <5>2
      <4>4. CASE ResumeBegin
        <5>1. phase'[<<e, 0>>] = "scan"
          BY <1>0, <3>3, <4>4, BeginResume DEF CalmInv
        <5> QED
          BY <5>1
      <4> QED
        BY <2>4, <4>3, <4>4
    <3> QED
      BY <3>2, <3>3
  <2> QED
    BY <1>0, <2>1, <2>2, <2>3, <2>4, LoopSteps
<1> QED
  BY <1>1, <1>2 DEF Untouched

LEMMA UntouchedInit == Init => Untouched
<1> SUFFICES ASSUME Init PROVE Untouched
  OBVIOUS
<1>1. /\ \A e \in Epochs : phase[<<e, 0>>] = "none" /\ cursor[e] = 0
      /\ \A s \in Subs : row[s] = "none"
  BY ProcNames DEF Init
<1> QED
  BY <1>1 DEF Untouched
=============================================================================
