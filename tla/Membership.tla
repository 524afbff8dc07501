----------------------------- MODULE Membership -----------------------------
(***************************************************************************)
(* Segment membership of one property (membership.service.ts): exclusive    *)
(* assignment of leads to segments, weighted distribution of new leads,     *)
(* and the promise chain that serializes both; with the dashboard's edits   *)
(* that go around the chain (segments.controller.ts mutateManual "remove",  *)
(* update and remove; properties.service.ts setAutoAssign).                 *)
(*                                                                          *)
(* A job is what runExclusive() runs.  Each of its steps ends at an await.  *)
(* An edit reads a row, and writes it back when its statement comes.        *)
(***************************************************************************)
EXTENDS Integers, Sequences, FiniteSets

CONSTANTS
  Segs,         \* the property's segments
  Leads,        \* its leads
  Weight,       \* the weight of each segment's auto-assign rule
  NoSeg,        \* not a segment
  Overlap,      \* may an edit be under way together with a job, and a segment be
                \* deleted between the check of an assignment and its read?
  MaxAssigns,   \* bound: assignments from the dashboard
  MaxEdits,     \* bound: other changes from the dashboard: segments edited or
                \* deleted, settings of the distribution written
  MaxFaults     \* bound: statements of a job that throw, or restarts

MembershipAssumption ==
  /\ NoSeg \notin Segs
  /\ Weight \in [Segs -> Nat \ {0}]
  /\ Overlap \in BOOLEAN
  /\ MaxAssigns \in Nat /\ MaxEdits \in Nat /\ MaxFaults \in Nat

Lists  == [incl : SUBSET Leads, excl : SUBSET Leads]
Config == [active : BOOLEAN, rules : SUBSET Segs, counts : [Segs -> Nat]]
Fresh  == [active |-> FALSE, rules |-> {}, counts |-> [s \in Segs |-> 0]]

VARIABLES
  exists,    \* the segments not deleted
  lists,     \* manual_include and manual_exclude of each segment
  config,    \* property.autoAssign; Fresh also stands for null
  queue,     \* the chain: jobs that wait for their turn
  job,       \* the job that runs: where it is and what it has read
  arrived,   \* the leads that have subscribed
  edit,      \* an edit of a segment between its read and its write
  setting,   \* a setAutoAssign() between its read and its write
  deleted,   \* segments deleted whose cleanup is not queued yet
  used,      \* how much of each bound is spent
  \* history
  home,      \* the segment an assignment has last put each lead in
  got,       \* the new leads the distribution has given each segment
  torn,      \* leads of a job that was cut short
  steady     \* the rules have not changed since the distribution began

vars == <<exists, lists, config, queue, job, arrived, edit, setting, deleted,
          used, home, got, torn, steady>>

Idle   == [pc |-> "idle", op |-> "none", target |-> NoSeg, leads |-> {},
           todo |-> {}, snap |-> [s \in Segs |-> [incl |-> {}, excl |-> {}]],
           config |-> Fresh]
NoEdit == [seg |-> NoSeg, without |-> {}, snap |-> [incl |-> {}, excl |-> {}]]
NoSetting == [open |-> FALSE, counts |-> [s \in Segs |-> 0]]

Spend(k) == used' = [used EXCEPT ![k] = @ + 1]
Job(op, t, L) == [op |-> op, target |-> t, leads |-> L]

\* Nothing is between a read and the write that belongs to it.
NoJob  == job.pc = "idle"
NoOpen == edit = NoEdit /\ ~setting.open

Init ==
  /\ exists = Segs
  /\ lists = [s \in Segs |-> [incl |-> {}, excl |-> {}]]
  /\ config = [Fresh EXCEPT !.active = TRUE, !.rules = Segs]
  /\ queue = <<>>
  /\ job = Idle
  /\ arrived = {}
  /\ edit = NoEdit
  /\ setting = NoSetting
  /\ deleted = {}
  /\ used = [assigns |-> 0, edits |-> 0, faults |-> 0]
  /\ home = [l \in Leads |-> NoSeg]
  /\ got = [s \in Segs |-> 0]
  /\ torn = {}
  /\ steady = TRUE

-----------------------------------------------------------------------------
(* Requests that join the chain.                                            *)

\* A new subscriber: autoAssignNewLead().
Arrive(l) ==
  /\ l \notin arrived
  /\ arrived' = arrived \cup {l}
  /\ queue' = Append(queue, Job("auto", NoSeg, {l}))
  /\ UNCHANGED <<exists, lists, config, job, edit, setting, deleted, used,
                 home, got, torn, steady>>

\* Add to a segment, one lead or all that match a filter: exclusiveAssign().
Assign(t, L) ==
  /\ t \in exists
  /\ used.assigns < MaxAssigns /\ Spend("assigns")
  /\ queue' = Append(queue, Job("assign", t, L))
  /\ UNCHANGED <<exists, lists, config, job, arrived, edit, setting, deleted,
                 home, got, torn, steady>>

\* A segment is deleted; its cleanup joins the chain in the next step.
DeleteSegment(s) ==
  /\ s \in exists
  /\ used.edits < MaxEdits /\ Spend("edits")
  /\ Overlap \/ job.pc # "read"
  /\ exists' = exists \ {s}
  /\ deleted' = deleted \cup {s}
  /\ steady' = FALSE
  /\ UNCHANGED <<lists, config, queue, job, arrived, edit, setting, home, got,
                 torn>>

QueueCleanup(s) ==
  /\ s \in deleted
  /\ deleted' = deleted \ {s}
  /\ queue' = Append(queue, Job("cleanup", s, {}))
  /\ UNCHANGED <<exists, lists, config, job, arrived, edit, setting, used,
                 home, got, torn, steady>>

-----------------------------------------------------------------------------
(* The chain.                                                               *)

\* Mutant: the next job does not wait for the end of the one before.
StartAnyJob ==
  /\ queue # <<>>
  /\ Overlap \/ NoOpen
  /\ job' = [Idle EXCEPT !.op = Head(queue).op, !.target = Head(queue).target,
                         !.leads = Head(queue).leads,
                         !.pc = IF Head(queue).op = "assign" THEN "check"
                                                             ELSE "config"]
  /\ queue' = Tail(queue)
  /\ UNCHANGED <<exists, lists, config, arrived, edit, setting, deleted, used,
                 home, got, torn, steady>>

\* runExclusive(): the job at the head begins when the one before has ended,
\* well or badly.
StartJob ==
  /\ NoJob
  /\ queue # <<>>
  /\ Overlap \/ NoOpen
  /\ job' = [Idle EXCEPT !.op = Head(queue).op, !.target = Head(queue).target,
                         !.leads = Head(queue).leads,
                         !.pc = IF Head(queue).op = "assign" THEN "check"
                                                             ELSE "config"]
  /\ queue' = Tail(queue)
  /\ UNCHANGED <<exists, lists, config, arrived, edit, setting, deleted, used,
                 home, got, torn, steady>>

\* The property's settings are read.  Without any, or if the distribution is
\* off, the job ends.
ReadConfig ==
  /\ job.pc = "config"
  /\ job' = IF \/ config = Fresh
               \/ job.op = "auto" /\ (~config.active \/ config.rules = {})
            THEN Idle
            ELSE [job EXCEPT !.config = config,
                             !.pc = IF job.op = "auto" THEN "choose"
                                                       ELSE "forget"]
  /\ UNCHANGED <<exists, lists, config, queue, arrived, edit, setting,
                 deleted, used, home, got, torn, steady>>

\* The rule whose fill ratio counts/weight is lowest, among the segments that
\* still exist; ties go to the first in the operator's list, any of them here.
ChooseSegment ==
  /\ job.pc = "choose"
  /\ LET rules == job.config.rules \cap exists
         n     == job.config.counts
     IN  IF rules = {}
         THEN job' = Idle
         ELSE \E t \in rules :
                /\ \A s \in rules : n[t] * Weight[s] <= n[s] * Weight[t]
                /\ job' = [job EXCEPT !.target = t, !.pc = "check"]
  /\ UNCHANGED <<exists, lists, config, queue, arrived, edit, setting,
                 deleted, used, home, got, torn, steady>>

\* Mutant: the target is not looked up first.
CheckNothing ==
  /\ job.pc = "check"
  /\ job' = [job EXCEPT !.pc = "read"]
  /\ UNCHANGED <<exists, lists, config, queue, arrived, edit, setting,
                 deleted, used, home, got, torn, steady>>

\* The target must still exist, or nothing is touched.  For a new lead the
\* count goes up all the same.
CheckTarget ==
  /\ job.pc = "check"
  /\ job' = IF job.target \in exists THEN [job EXCEPT !.pc = "read"]
            ELSE IF job.op = "auto"  THEN [job EXCEPT !.pc = "count"]
            ELSE Idle
  /\ UNCHANGED <<exists, lists, config, queue, arrived, edit, setting,
                 deleted, used, home, got, torn, steady>>

\* All the property's segments are read at once.
ReadSiblings ==
  /\ job.pc = "read"
  /\ job' = [job EXCEPT !.snap = lists, !.todo = exists, !.pc = "write"]
  /\ UNCHANGED <<exists, lists, config, queue, arrived, edit, setting,
                 deleted, used, home, got, torn, steady>>

\* What the job makes of the lists of segment s it has read.
Assigned(s) ==
  IF s = job.target
  THEN [incl |-> job.snap[s].incl \cup job.leads,
        excl |-> job.snap[s].excl \ job.leads]
  ELSE [incl |-> job.snap[s].incl \ job.leads,
        excl |-> job.snap[s].excl \cup job.leads]

\* Siblings that the leads are already out of are not written.
Unwritten == {s \in job.todo : s = job.target \/ Assigned(s) # job.snap[s]}

WriteSegment(s) ==
  /\ job.pc = "write"
  /\ s \in Unwritten
  /\ s \in exists
  /\ lists' = [lists EXCEPT ![s] = Assigned(s)]
  /\ job' = [job EXCEPT !.todo = @ \ {s}]
  /\ home' = [l \in Leads |-> IF s = job.target /\ l \in job.leads
                              THEN s ELSE home[l]]
  /\ UNCHANGED <<exists, config, queue, arrived, edit, setting, deleted, used,
                 got, torn, steady>>

\* The update of a segment deleted meanwhile throws: the job ends there.
WriteDeleted(s) ==
  /\ job.pc = "write"
  /\ s \in Unwritten
  /\ s \notin exists
  /\ torn' = torn \cup job.leads
  /\ job' = Idle
  /\ UNCHANGED <<exists, lists, config, queue, arrived, edit, setting,
                 deleted, used, home, got, steady>>

\* All is written: a distribution goes on to its count.
EndAssign ==
  /\ job.pc = "write"
  /\ Unwritten = {}
  /\ torn' = torn \ job.leads
  /\ IF job.op = "auto"
     THEN /\ job' = [job EXCEPT !.pc = "count"]
          /\ got' = [got EXCEPT ![job.target] = @ + 1]
     ELSE /\ job' = Idle
          /\ UNCHANGED got
  /\ UNCHANGED <<exists, lists, config, queue, arrived, edit, setting,
                 deleted, used, home, steady>>

\* Mutant: the counts that were read are written back.
CountForgets ==
  /\ job.pc = "count"
  /\ config' = job.config
  /\ job' = Idle
  /\ UNCHANGED <<exists, lists, queue, arrived, edit, setting, deleted, used,
                 home, got, torn, steady>>

\* The settings read at the start are written back with the count raised.
CountLead ==
  /\ job.pc = "count"
  /\ config' = [job.config EXCEPT !.counts[job.target] = @ + 1]
  /\ job' = Idle
  /\ UNCHANGED <<exists, lists, queue, arrived, edit, setting, deleted, used,
                 home, got, torn, steady>>

\* Mutant: the cleanup lowers the count of the segment.
ForgetOne ==
  /\ job.pc = "forget"
  /\ config' = [job.config EXCEPT !.rules = @ \ {job.target},
                                  !.counts[job.target] = @ - 1]
  /\ job' = Idle
  /\ UNCHANGED <<exists, lists, queue, arrived, edit, setting, deleted, used,
                 home, got, torn, steady>>

\* cleanupDeletedSegment(): the rule and the count of the segment are dropped.
ForgetSegment ==
  /\ job.pc = "forget"
  /\ config' = [job.config EXCEPT !.rules = @ \ {job.target},
                                  !.counts[job.target] = 0]
  /\ job' = Idle
  /\ UNCHANGED <<exists, lists, queue, arrived, edit, setting, deleted, used,
                 home, got, torn, steady>>

\* Mutant: a job that throws takes the jobs behind it with it.
JobFailsForGood ==
  /\ ~NoJob
  /\ used.faults < MaxFaults /\ Spend("faults")
  /\ torn' = torn \cup job.leads
  /\ job' = [job EXCEPT !.pc = "rejected"]
  /\ UNCHANGED <<exists, lists, config, queue, arrived, edit, setting,
                 deleted, home, got, steady>>

\* A statement throws: the caller sees it, or it is logged; the chain goes on.
JobFails ==
  /\ ~NoJob
  /\ used.faults < MaxFaults /\ Spend("faults")
  /\ torn' = torn \cup job.leads
  /\ job' = Idle
  /\ UNCHANGED <<exists, lists, config, queue, arrived, edit, setting,
                 deleted, home, got, steady>>

\* The process restarts: the chain is forgotten, what was written stays.
Restart ==
  /\ used.faults < MaxFaults /\ Spend("faults")
  /\ torn' = torn \cup job.leads
  /\ queue' = <<>>
  /\ job' = Idle
  /\ edit' = NoEdit /\ setting' = NoSetting /\ deleted' = {}
  /\ UNCHANGED <<exists, lists, config, arrived, home, got, steady>>

-----------------------------------------------------------------------------
(* Edits that do not join the chain.                                        *)

\* removeMember() reads the segment; so does the dashboard before it sends a
\* whole criteria object (nobody removed then).
EditRead(s, L) ==
  /\ s \in exists
  /\ edit = NoEdit
  /\ Overlap \/ NoJob
  /\ used.edits < MaxEdits /\ Spend("edits")
  /\ edit' = [seg |-> s, without |-> L, snap |-> lists[s]]
  /\ UNCHANGED <<exists, lists, config, queue, job, arrived, setting, deleted,
                 home, got, torn, steady>>

\* The lists it has read are written back, less the lead removed.
EditWrite ==
  /\ edit # NoEdit
  /\ edit' = NoEdit
  /\ IF edit.seg \in exists
     THEN /\ lists' = [lists EXCEPT ![edit.seg] =
                         [incl |-> edit.snap.incl \ edit.without,
                          excl |-> edit.snap.excl \cup edit.without]]
          /\ home' = [l \in Leads |->
                        IF l \in edit.without /\ home[l] = edit.seg THEN NoSeg
                                                                    ELSE home[l]]
     ELSE UNCHANGED <<lists, home>>
  /\ UNCHANGED <<exists, config, queue, job, arrived, setting, deleted, used,
                 got, torn, steady>>

SettingRead ==
  /\ ~setting.open
  /\ Overlap \/ NoJob
  /\ used.edits < MaxEdits /\ Spend("edits")
  /\ setting' = [open |-> TRUE, counts |-> config.counts]
  /\ UNCHANGED <<exists, lists, config, queue, job, arrived, edit, deleted,
                 home, got, torn, steady>>

\* New status and rules, with the counts it has read.
SettingWrite(active, rules) ==
  /\ setting.open
  /\ setting' = NoSetting
  /\ config' = [active |-> active, rules |-> rules, counts |-> setting.counts]
  /\ steady' = (steady /\ rules = config.rules)
  /\ UNCHANGED <<exists, lists, queue, job, arrived, edit, deleted, used,
                 home, got, torn>>

\* "Stop": the settings are removed, the counts with them.
SettingStop ==
  /\ setting.open
  /\ setting' = NoSetting
  /\ config' = Fresh
  /\ steady' = FALSE
  /\ UNCHANGED <<exists, lists, queue, job, arrived, edit, deleted, used,
                 home, got, torn>>

-----------------------------------------------------------------------------
JobStep ==
  \/ StartJob \/ ReadConfig \/ ChooseSegment \/ CheckTarget \/ ReadSiblings
  \/ \E s \in Segs : WriteSegment(s) \/ WriteDeleted(s)
  \/ EndAssign \/ CountLead \/ ForgetSegment

EditStep ==
  \/ EditWrite
  \/ \E a \in BOOLEAN, R \in SUBSET Segs : SettingWrite(a, R)
  \/ SettingStop

Next ==
  \/ JobStep
  \/ EditStep
  \/ \E l \in Leads : Arrive(l)
  \/ \E t \in Segs, L \in SUBSET Leads : L # {} /\ Assign(t, L)
  \/ \E s \in Segs : DeleteSegment(s) \/ QueueCleanup(s)
  \/ JobFails \/ Restart
  \/ \E s \in Segs, L \in SUBSET Leads : Cardinality(L) <= 1 /\ EditRead(s, L)
  \/ SettingRead

\* The event loop runs the chain; a request that has read goes on to write.
Fairness == WF_vars(JobStep) /\ WF_vars(EditStep)

Spec     == Init /\ [][Next]_vars
FairSpec == Spec /\ Fairness

-----------------------------------------------------------------------------
(* Properties                                                               *)

TypeOK ==
  /\ exists \subseteq Segs /\ deleted \subseteq Segs
  /\ lists \in [Segs -> Lists]
  /\ config \in Config
  /\ queue \in Seq([op : {"assign", "auto", "cleanup"},
                    target : Segs \cup {NoSeg}, leads : SUBSET Leads])
  /\ job \in [pc : {"idle", "config", "choose", "check", "read", "write",
                    "count", "forget"},
              op : {"none", "assign", "auto", "cleanup"},
              target : Segs \cup {NoSeg}, leads : SUBSET Leads,
              todo : SUBSET Segs, snap : [Segs -> Lists], config : Config]
  /\ arrived \subseteq Leads
  /\ edit \in [seg : Segs \cup {NoSeg}, without : SUBSET Leads, snap : Lists]
  /\ setting \in [open : BOOLEAN, counts : [Segs -> Nat]]
  /\ home \in [Leads -> Segs \cup {NoSeg}]
  /\ got \in [Segs -> Nat]
  /\ torn \subseteq Leads
  /\ steady \in BOOLEAN

\* One lead lives in one segment: when no job is at work, each lead is listed
\* in the segment of its last assignment, unless it was removed from it or the
\* segment deleted, and in no other; a lead is never evicted everywhere and
\* listed nowhere.  Leads of a job that was cut short are excepted.
OneHome ==
  NoJob => \A l \in Leads \ torn :
             {s \in exists : l \in lists[s].incl} = {home[l]} \cap exists

\* No lead is listed in two segments once everything has come to rest, whatever
\* overlaps: what the chain is for ("their read-modify-write of segment criteria
\* can't interleave and land a lead in two segments").
NeverInTwo ==
  NoJob /\ NoOpen /\ queue = <<>> =>
    \A l \in Leads \ torn : Cardinality({s \in exists : l \in lists[s].incl}) <= 1

\* New leads are shared out by weight: no segment is more than one lead ahead of
\* its share relative to any other, and one more for each job cut short between
\* the assignment and its count; through pauses of the distribution and whatever
\* else moves leads around, as long as the rules stay the same.
FairShare ==
  NoJob /\ steady =>
    \A r, s \in config.rules :
      (got[r] - 1 - used.faults) * Weight[s] <= got[s] * Weight[r]

\* A job that throws does not hold up the jobs behind it.
ChainDrains == queue # <<>> ~> queue = <<>>
=============================================================================
