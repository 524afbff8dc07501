------------------------------ MODULE TypeProofs ----------------------------
(***************************************************************************)
(* The types of the parts of the platform.  Where TypeOK bounds a quantity *)
(* by the constants, it is the induction that needs the bound:             *)
(*                                                                         *)
(* Console: no text on a page, in a request or in the row is newer than    *)
(* the latest edit (TextsKept), and the saves there were, with the presses *)
(* that are still to save, are no more than the presses (SavesPaid): one   *)
(* press saves once.                                                       *)
(*                                                                         *)
(* Intake: what a counter shows, with the requests that may still count,   *)
(* is no more than the calls there were (Paid); a fault loses no more than *)
(* one of each count for each request.                                     *)
(*                                                                         *)
(* Segments: a job knows its segment by the time it writes (JobTargets).   *)
(*                                                                         *)
(* Fingerprints: a list without repeats is as long as its members are many *)
(* (EntriesCounted).                                                       *)
(*                                                                         *)
(* PartsInv joins these with the invariants of the other modules.          *)
(***************************************************************************)
EXTENDS LimiterProofs, PagesProofs, OutreachProofs, AudienceProofs

-----------------------------------------------------------------------------
\* Segments of a lead (membership.service.ts:28-140).

\* A job knows its segment by the time it needs it.
JobTargets ==
  /\ \A i \in 1..Len(membersQueue) :
       membersQueue[i].op # "auto"
         => membersQueue[i].target \in MembersParams.Segs
  /\ membersJob.pc \in {"check", "read", "write", "count", "forget"}
       => membersJob.target \in MembersParams.Segs
  /\ membersJob.pc = "config" /\ membersJob.op # "auto"
       => membersJob.target \in MembersParams.Segs

MembersTypes == Members!TypeOK /\ JobTargets

LEMMA MembersTypesInit ==
  ASSUME Members!MembershipAssumption, Members!Init
  PROVE  MembersTypes
<1>1. Members!Fresh \in Members!Config /\ config \in Members!Config
  BY DEF Members!Init, Members!Fresh, Members!Config
<1>2. membersQueue \in Seq(Waiting) /\ Len(membersQueue) = 0
  BY DEF Members!Init
<1>3. Members!TypeOK
  BY <1>1, <1>2, AtRest
     DEF Members!Init, Members!TypeOK, Members!Lists, Members!NoEdit,
     Members!NoSetting, Waiting, Running
<1>4. JobTargets
  BY <1>2 DEF Members!Init, JobTargets, Members!Idle
<1> QED
  BY <1>3, <1>4 DEF MembersTypes

\* A step of the job: what it has read is of its type, and so is what it is to
\* do.
LEMMA JobTypes ==
  ASSUME MembersTypes, membersJob' \in Running,
         UNCHANGED <<membersExists, membersQueue, arrived, edit,
                     membersSetting,
                     deleted, steady>>,
         membersJob'.pc \in {"check", "read", "write", "count", "forget"}
           => membersJob'.target \in MembersParams.Segs,
         membersJob'.pc = "config" /\ membersJob'.op # "auto"
           => membersJob'.target \in MembersParams.Segs,
         membersLists' \in [MembersParams.Segs -> Members!Lists],
         config' \in Members!Config,
         home' \in [MembersParams.Leads ->
                      MembersParams.Segs \cup {MembersParams.NoSeg}],
         got' \in [MembersParams.Segs -> Nat],
         torn' \subseteq MembersParams.Leads
  PROVE  MembersTypes'
BY DEF MembersTypes, JobTargets, Members!TypeOK, Running

\* A step of the job that writes nothing.
LEMMA JobOnly ==
  ASSUME MembersTypes, membersJob' \in Running,
         UNCHANGED <<membersExists, membersLists, config, membersQueue,
                     arrived,
                     edit, membersSetting, deleted, home, got, steady>>,
         torn' \subseteq MembersParams.Leads,
         membersJob'.pc \in {"check", "read", "write", "count", "forget"}
           => membersJob'.target \in MembersParams.Segs,
         membersJob'.pc = "config" /\ membersJob'.op # "auto"
           => membersJob'.target \in MembersParams.Segs
  PROVE  MembersTypes'
<1>1. /\ membersLists \in [MembersParams.Segs -> Members!Lists]
      /\ config \in Members!Config
      /\ home \in [MembersParams.Leads ->
                     MembersParams.Segs \cup {MembersParams.NoSeg}]
      /\ got \in [MembersParams.Segs -> Nat]
  BY DEF MembersTypes, Members!TypeOK
<1> QED
  BY <1>1, JobTypes

LEMMA RunningFields ==
  ASSUME MembersTypes
  PROVE  /\ membersJob \in Running
         /\ membersJob.pc \in {"idle", "config", "choose", "check", "read",
                               "write", "count", "forget"}
         /\ membersJob.target \in MembersParams.Segs \cup {MembersParams.NoSeg}
         /\ membersJob.leads \in SUBSET MembersParams.Leads
         /\ membersJob.todo \in SUBSET MembersParams.Segs
         /\ membersJob.snap \in [MembersParams.Segs -> Members!Lists]
         /\ membersJob.config \in Members!Config
         /\ Members!Idle \in Running /\ Members!Idle.pc = "idle"
<1>1. membersJob \in Running
  BY DEF MembersTypes, Members!TypeOK, Running
<1> QED
  BY <1>1, AtRest DEF Running

\* The steps before anything is written.
LEMMA ReadTypes ==
  ASSUME MembersTypes,
         \/ Members!ReadConfig \/ Members!ChooseSegment \/ Members!CheckTarget
         \/ Members!ReadSiblings
  PROVE  MembersTypes'
<1>0. membersExists \subseteq MembersParams.Segs /\ config \in Members!Config
        /\ membersLists \in [MembersParams.Segs -> Members!Lists]
        /\ torn \subseteq MembersParams.Leads
  BY DEF MembersTypes, Members!TypeOK
<1>1. UNCHANGED <<membersExists, membersLists, config, membersQueue, arrived,
                  edit, membersSetting, deleted, home, got, torn, steady>>
  BY DEF Members!ReadConfig, Members!ChooseSegment, Members!CheckTarget,
     Members!ReadSiblings
<1>2. SUFFICES
        /\ membersJob' \in Running
        /\ membersJob'.pc \in {"check", "read", "write", "count", "forget"}
             => membersJob'.target \in MembersParams.Segs
        /\ membersJob'.pc = "config" /\ membersJob'.op # "auto"
             => membersJob'.target \in MembersParams.Segs
  BY <1>0, <1>1, JobOnly
<1>3. CASE membersJob' = Members!Idle
  BY <1>3, RunningFields
<1>4. CASE Members!ReadConfig /\ membersJob' # Members!Idle
  <2> DEFINE p == IF membersJob.op = "auto" THEN "choose" ELSE "forget"
             j == [membersJob EXCEPT !.config = config, !.pc = p]
  <2>1. membersJob.pc = "config" /\ membersJob' = j
    BY <1>4 DEF Members!ReadConfig
  <2>2. p \in {"choose", "forget"} /\ (membersJob.op # "auto" <=> p = "forget")
    OBVIOUS
  <2> HIDE DEF p
  <2>3. j \in Running /\ j.pc = p /\ j.target = membersJob.target
    BY <1>0, <2>2, RunningFields DEF Running
  <2>4. membersJob.op # "auto" => membersJob.target \in MembersParams.Segs
    BY <2>1 DEF MembersTypes, JobTargets
  <2> HIDE DEF j
  <2> QED
    BY <2>1, <2>2, <2>3, <2>4
<1>5. CASE Members!ChooseSegment /\ membersJob' # Members!Idle
  <2>1. PICK t \in membersJob.config.rules \cap membersExists :
          membersJob' = [membersJob EXCEPT !.target = t, !.pc = "check"]
    BY <1>5 DEF Members!ChooseSegment
  <2>2. t \in MembersParams.Segs
    BY <1>0, <2>1
  <2> QED
    BY <2>1, <2>2, RunningFields DEF Running
<1>6. CASE Members!CheckTarget /\ membersJob' # Members!Idle
  <2>1. membersJob.target \in MembersParams.Segs
    BY <1>6 DEF Members!CheckTarget, MembersTypes, JobTargets
  <2>2. PICK p \in {"read", "count"} :
               membersJob' = [membersJob EXCEPT !.pc = p]
    BY <1>6 DEF Members!CheckTarget
  <2> QED
    BY <2>1, <2>2, RunningFields DEF Running
<1>7. CASE Members!ReadSiblings
  <2> DEFINE j == [membersJob EXCEPT !.snap = membersLists,
                     !.todo = membersExists, !.pc = "write"]
  <2>1. membersJob.target \in MembersParams.Segs /\ membersJob' = j
    BY <1>7 DEF Members!ReadSiblings, MembersTypes, JobTargets
  <2>2. j \in Running /\ j.pc = "write" /\ j.target = membersJob.target
    BY <1>0, RunningFields DEF Running
  <2> HIDE DEF j
  <2> QED
    BY <2>1, <2>2
<1> QED
  BY <1>3, <1>4, <1>5, <1>6, <1>7

\* The job at the head of the chain begins.
LEMMA StartTypes ==
  ASSUME MembersTypes, Members!StartJob
  PROVE  MembersTypes'
<1> DEFINE h == Head(membersQueue)
           p == IF h.op = "assign" THEN "check" ELSE "config"
           j == [Members!Idle EXCEPT !.op = h.op, !.target = h.target,
                   !.leads = h.leads, !.pc = p]
<1>1. /\ membersQueue # <<>> /\ membersJob' = j
      /\ membersQueue' = Tail(membersQueue)
      /\ UNCHANGED <<membersExists, membersLists, config, arrived, edit,
                     membersSetting, deleted, home, got, torn, steady>>
  BY DEF Members!StartJob
<1>2. /\ h \in Waiting /\ h = membersQueue[1]
      /\ Len(membersQueue) \in Nat /\ 1 \in 1..Len(membersQueue)
      /\ membersQueue' \in Seq(Waiting)
      /\ \A i \in 1..Len(membersQueue') :
           i + 1 \in 1..Len(membersQueue)
             /\ membersQueue'[i] = membersQueue[i + 1]
  BY <1>1, InQueue DEF MembersTypes
<1>3. h.op # "auto" => h.target \in MembersParams.Segs
  BY <1>2 DEF MembersTypes, JobTargets
<1> HIDE DEF h
<1>4. p \in {"check", "config"} /\ (p = "check" => h.op = "assign")
  OBVIOUS
<1> HIDE DEF p
<1>5. j \in Running /\ j.pc = p /\ j.op = h.op /\ j.target = h.target
  BY <1>2, <1>4, RunningFields DEF Waiting, Running
<1> HIDE DEF j
<1>6. Members!TypeOK'
  BY <1>1, <1>2, <1>5 DEF MembersTypes, Members!TypeOK, Running, Waiting
<1>7. \A i \in 1..Len(membersQueue') :
        membersQueue'[i].op # "auto"
          => membersQueue'[i].target \in MembersParams.Segs
  BY <1>2 DEF MembersTypes, JobTargets
<1>8. JobTargets'
  BY <1>1, <1>3, <1>4, <1>5, <1>7 DEF JobTargets
<1> QED
  BY <1>6, <1>8 DEF MembersTypes

\* What the job writes.
LEMMA WriteTypes ==
  ASSUME MembersTypes,
         \/ \E s \in MembersParams.Segs :
              Members!WriteSegment(s) \/ Members!WriteDeleted(s)
         \/ Members!EndAssign \/ Members!CountLead \/ Members!ForgetSegment
  PROVE  MembersTypes'
<1>0. /\ config \in Members!Config /\ torn \subseteq MembersParams.Leads
      /\ membersLists \in [MembersParams.Segs -> Members!Lists]
      /\ home \in [MembersParams.Leads ->
                     MembersParams.Segs \cup {MembersParams.NoSeg}]
      /\ got \in [MembersParams.Segs -> Nat]
  BY DEF MembersTypes, Members!TypeOK
<1>t. membersJob.pc \in {"write", "count", "forget"}
        => membersJob.target \in MembersParams.Segs
  BY DEF MembersTypes, JobTargets
<1>1. ASSUME NEW s \in MembersParams.Segs, Members!WriteSegment(s)
      PROVE  MembersTypes'
  <2>1. /\ membersJob.pc = "write"
        /\ membersLists' = [membersLists EXCEPT ![s] = Members!Assigned(s)]
        /\ membersJob' = [membersJob EXCEPT !.todo = membersJob.todo \ {s}]
        /\ home' = [l \in MembersParams.Leads |->
                      IF s = membersJob.target /\ l \in membersJob.leads
                      THEN s ELSE home[l]]
        /\ UNCHANGED <<membersExists, config, membersQueue, arrived, edit,
                       membersSetting, deleted, got, torn, steady>>
    BY <1>1 DEF Members!WriteSegment
  <2>2. Members!Assigned(s) \in Members!Lists
    <3>1. membersJob.snap[s] \in Members!Lists
      BY RunningFields
    <3>2. /\ membersJob.snap[s].incl \in SUBSET MembersParams.Leads
          /\ membersJob.snap[s].excl \in SUBSET MembersParams.Leads
          /\ membersJob.leads \in SUBSET MembersParams.Leads
      BY <3>1, RunningFields DEF Members!Lists
    <3> QED
      BY <3>2 DEF Members!Assigned, Members!Lists
  <2>3. membersLists' \in [MembersParams.Segs -> Members!Lists]
    BY <1>0, <2>1, <2>2
  <2>4. /\ membersJob' \in Running /\ membersJob'.pc = "write"
        /\ membersJob'.target \in MembersParams.Segs
    BY <1>t, <2>1, RunningFields DEF Running
  <2>5. home' \in [MembersParams.Leads ->
                     MembersParams.Segs \cup {MembersParams.NoSeg}]
    BY <1>0, <2>1
  <2> QED
    BY <1>0, <2>1, <2>3, <2>4, <2>5, JobTypes
<1>2. ASSUME NEW s \in MembersParams.Segs, Members!WriteDeleted(s)
      PROVE  MembersTypes'
  <2>1. /\ membersJob' = Members!Idle /\ torn' = torn \cup membersJob.leads
        /\ UNCHANGED <<membersExists, membersLists, config, membersQueue,
                       arrived, edit, membersSetting, deleted, home, got,
                       steady>>
    BY <1>2 DEF Members!WriteDeleted
  <2>2. torn' \subseteq MembersParams.Leads
    BY <1>0, <2>1, RunningFields
  <2> QED
    BY <2>1, <2>2, RunningFields, JobOnly
<1>3. CASE Members!EndAssign
  <2>1. /\ membersJob.pc = "write"
        /\ torn' = torn \ membersJob.leads
        /\ \/ membersJob' = [membersJob EXCEPT !.pc = "count"]
              /\ got' = [got EXCEPT ![membersJob.target] = @ + 1]
           \/ membersJob' = Members!Idle /\ got' = got
        /\ UNCHANGED <<membersExists, membersLists, config, membersQueue,
                       arrived, edit, membersSetting, deleted, home, steady>>
    BY <1>3 DEF Members!EndAssign
  <2>2. /\ membersJob' \in Running /\ membersJob'.pc \in {"idle", "count"}
        /\ membersJob'.pc = "count" => membersJob'.target = membersJob.target
    BY <2>1, RunningFields DEF Running
  <2>3. got' \in [MembersParams.Segs -> Nat]
    BY <1>0, <2>1
  <2> QED
    BY <1>0, <1>t, <2>1, <2>2, <2>3, JobTypes
<1>4. CASE Members!CountLead \/ Members!ForgetSegment
  <2>1. /\ membersJob.target \in MembersParams.Segs
        /\ membersJob' = Members!Idle
        /\ \/ config' = [membersJob.config EXCEPT
                           !.counts[membersJob.target] = @ + 1]
           \/ config' = [membersJob.config EXCEPT
                           !.rules = @ \ {membersJob.target},
                           !.counts[membersJob.target] = 0]
        /\ UNCHANGED <<membersExists, membersLists, membersQueue, arrived,
                       edit,
                       membersSetting, deleted, home, got, torn, steady>>
    BY <1>t, <1>4 DEF Members!CountLead, Members!ForgetSegment
  <2>2. config' \in Members!Config
    <3> DEFINE c == membersJob.config
    <3>1. c \in Members!Config
      BY RunningFields
    <3>2. /\ c.counts \in [MembersParams.Segs -> Nat]
          /\ c.rules \in SUBSET MembersParams.Segs
          /\ [c.counts EXCEPT ![membersJob.target] = @ + 1]
               \in [MembersParams.Segs -> Nat]
          /\ [c.counts EXCEPT ![membersJob.target] = 0]
               \in [MembersParams.Segs -> Nat]
          /\ c.rules \ {membersJob.target} \in SUBSET MembersParams.Segs
      BY <2>1, <3>1 DEF Members!Config
    <3>3. \/ config' = [c EXCEPT !.counts =
                          [c.counts EXCEPT ![membersJob.target] = @ + 1]]
          \/ config' = [c EXCEPT !.rules = c.rules \ {membersJob.target},
                          !.counts =
                            [c.counts EXCEPT ![membersJob.target] = 0]]
      BY <2>1, <3>1 DEF Members!Config
    <3> HIDE DEF c
    <3> QED
      BY <3>1, <3>2, <3>3 DEF Members!Config
  <2> QED
    BY <1>0, <2>1, <2>2, RunningFields, JobTypes
<1> QED
  BY <1>1, <1>2, <1>3, <1>4

LEMMA JoinTypes ==
  ASSUME MembersTypes,
         \/ \E l \in MembersParams.Leads : Members!Arrive(l)
         \/ \E t \in MembersParams.Segs, L \in SUBSET MembersParams.Leads :
              Members!Assign(t, L)
         \/ \E s \in MembersParams.Segs : Members!QueueCleanup(s)
  PROVE  MembersTypes'
<1>1. PICK w \in Waiting : /\ w.op # "auto" => w.target \in MembersParams.Segs
                           /\ membersQueue' = Append(membersQueue, w)
  <2>1. ASSUME NEW l \in MembersParams.Leads, Members!Arrive(l)
        PROVE  Members!Job("auto", MembersParams.NoSeg, {l}) \in Waiting
    BY DEF Members!Job, Waiting
  <2>2. ASSUME NEW t \in MembersParams.Segs,
               NEW L \in SUBSET MembersParams.Leads,
               NEW op \in {"assign", "cleanup"}
        PROVE  Members!Job(op, t, L) \in Waiting
                 /\ Members!Job(op, t, L).target \in MembersParams.Segs
    BY DEF Members!Job, Waiting
  <2>3. {} \in SUBSET MembersParams.Leads
    OBVIOUS
  <2> QED
    BY <2>1, <2>2, <2>3
       DEF Members!Arrive, Members!Assign, Members!QueueCleanup, Members!Job
<1>2. /\ UNCHANGED <<membersExists, membersLists, config, membersJob, edit,
                     membersSetting, home, got, torn, steady>>
      /\ arrived' \subseteq MembersParams.Leads
      /\ deleted' \subseteq MembersParams.Segs
  BY DEF Members!Arrive, Members!Assign, Members!QueueCleanup, MembersTypes,
     Members!TypeOK
<1>3. /\ membersQueue' \in Seq(Waiting) /\ Len(membersQueue) \in Nat
      /\ membersQueue'[Len(membersQueue) + 1] = w
      /\ \A i \in 1..Len(membersQueue) : membersQueue'[i] = membersQueue[i]
      /\ \A i \in 1..Len(membersQueue') :
           i \in 1..Len(membersQueue) \/ i = Len(membersQueue) + 1
  BY <1>1, JoinsQueue DEF MembersTypes
<1>4. Members!TypeOK'
  BY <1>2, <1>3 DEF MembersTypes, Members!TypeOK, Waiting
<1>5. JobTargets'
  BY <1>1, <1>2, <1>3 DEF MembersTypes, JobTargets
<1> QED
  BY <1>4, <1>5 DEF MembersTypes

\* What the dashboard can change.
DashboardTyped ==
  /\ membersExists \subseteq MembersParams.Segs
  /\ deleted \subseteq MembersParams.Segs
  /\ membersLists \in [MembersParams.Segs -> Members!Lists]
  /\ config \in Members!Config
  /\ edit \in [seg : MembersParams.Segs \cup {MembersParams.NoSeg},
               without : SUBSET MembersParams.Leads, snap : Members!Lists]
  /\ membersSetting \in [open : BOOLEAN, counts : [MembersParams.Segs -> Nat]]
  /\ home \in [MembersParams.Leads ->
                 MembersParams.Segs \cup {MembersParams.NoSeg}]
  /\ steady \in BOOLEAN

LEMMA DashboardSteps ==
  ASSUME DashboardTyped,
         \/ \E s \in MembersParams.Segs : Members!DeleteSegment(s)
         \/ \E s \in MembersParams.Segs, L \in SUBSET MembersParams.Leads :
              Members!EditRead(s, L)
         \/ Members!EditWrite \/ Members!SettingRead
         \/ \E a \in BOOLEAN, R \in SUBSET MembersParams.Segs :
              Members!SettingWrite(a, R)
         \/ Members!SettingStop
  PROVE  DashboardTyped'
<1>0. /\ config \in Members!Config
      /\ config.counts \in [MembersParams.Segs -> Nat]
      /\ edit.seg \in MembersParams.Segs \cup {MembersParams.NoSeg}
      /\ edit.without \in SUBSET MembersParams.Leads
      /\ edit.snap \in Members!Lists
      /\ edit.snap.incl \in SUBSET MembersParams.Leads
      /\ edit.snap.excl \in SUBSET MembersParams.Leads
      /\ membersSetting.counts \in [MembersParams.Segs -> Nat]
  BY DEF DashboardTyped, Members!Config, Members!Lists
<1>1. ASSUME NEW s \in MembersParams.Segs, Members!DeleteSegment(s)
      PROVE  DashboardTyped'
  BY <1>1 DEF DashboardTyped, Members!DeleteSegment
<1>2. ASSUME NEW s \in MembersParams.Segs,
             NEW L \in SUBSET MembersParams.Leads,
             Members!EditRead(s, L)
      PROVE  DashboardTyped'
  BY <1>2 DEF DashboardTyped, Members!EditRead
<1>3. Members!NoEdit
        \in [seg : MembersParams.Segs \cup {MembersParams.NoSeg},
             without : SUBSET MembersParams.Leads, snap : Members!Lists]
  BY DEF Members!NoEdit, Members!Lists
<1>4. CASE Members!EditWrite
  <2>1. /\ edit' = Members!NoEdit
        /\ UNCHANGED <<membersExists, config, deleted, membersSetting, steady>>
    BY <1>4 DEF Members!EditWrite
  <2> DEFINE w == [incl |-> edit.snap.incl \ edit.without,
                   excl |-> edit.snap.excl \cup edit.without]
  <2>2. w \in Members!Lists
    BY <1>0 DEF Members!Lists
  <2>3. /\ membersLists'
             \in {membersLists, [membersLists EXCEPT ![edit.seg] = w]}
        /\ \/ home' = home
           \/ home' = [l \in MembersParams.Leads |->
                IF l \in edit.without /\ home[l] = edit.seg
                THEN MembersParams.NoSeg ELSE home[l]]
    BY <1>4 DEF Members!EditWrite
  <2> HIDE DEF w
  <2>4. membersLists' \in [MembersParams.Segs -> Members!Lists]
    BY <2>2, <2>3 DEF DashboardTyped
  <2>5. home' \in [MembersParams.Leads ->
                     MembersParams.Segs \cup {MembersParams.NoSeg}]
    BY <2>3 DEF DashboardTyped
  <2> QED
    BY <1>3, <2>1, <2>4, <2>5 DEF DashboardTyped
<1>5. CASE Members!SettingRead
  BY <1>0, <1>5 DEF DashboardTyped, Members!SettingRead
<1>6. Members!NoSetting
        \in [open : BOOLEAN, counts : [MembersParams.Segs -> Nat]]
        /\ Members!Fresh \in Members!Config
  BY AtRest DEF Members!NoSetting
<1>7. ASSUME NEW a \in BOOLEAN, NEW R \in SUBSET MembersParams.Segs,
             Members!SettingWrite(a, R)
      PROVE  DashboardTyped'
  <2>1. [active |-> a, rules |-> R, counts |-> membersSetting.counts]
          \in Members!Config
    BY <1>0 DEF Members!Config
  <2>2. steady' \in BOOLEAN
    BY <1>7 DEF DashboardTyped, Members!SettingWrite
  <2> QED
    BY <1>6, <1>7, <2>1, <2>2 DEF DashboardTyped, Members!SettingWrite
<1>8. CASE Members!SettingStop
  BY <1>6, <1>8 DEF DashboardTyped, Members!SettingStop
<1> QED
  BY <1>1, <1>2, <1>4, <1>5, <1>7, <1>8

\* The dashboard's edits and settings, and deleting a segment.
LEMMA DashboardTypes ==
  ASSUME MembersTypes,
         \/ \E s \in MembersParams.Segs : Members!DeleteSegment(s)
         \/ \E s \in MembersParams.Segs, L \in SUBSET MembersParams.Leads :
              Members!EditRead(s, L)
         \/ Members!EditWrite \/ Members!SettingRead
         \/ \E a \in BOOLEAN, R \in SUBSET MembersParams.Segs :
              Members!SettingWrite(a, R)
         \/ Members!SettingStop
  PROVE  MembersTypes'
<1>1. DashboardTyped
  BY DEF MembersTypes, Members!TypeOK, DashboardTyped
<1>2. DashboardTyped'
  BY <1>1, DashboardSteps
<1>3. UNCHANGED <<membersQueue, membersJob, arrived, got, torn>>
  BY DEF Members!DeleteSegment, Members!EditRead, Members!EditWrite,
     Members!SettingRead, Members!SettingWrite, Members!SettingStop
<1> QED
  BY <1>2, <1>3 DEF MembersTypes, JobTargets, Members!TypeOK, DashboardTyped

\* A job that throws, and a restart.
LEMMA CutTypes ==
  ASSUME MembersTypes, Members!JobFails \/ Members!Restart
  PROVE  MembersTypes'
<1>1. CASE Members!JobFails
  <2>1. /\ membersJob' = Members!Idle /\ torn' = torn \cup membersJob.leads
        /\ UNCHANGED <<membersExists, membersLists, config, membersQueue,
                       arrived, edit, membersSetting, deleted, home, got,
                       steady>>
    BY <1>1 DEF Members!JobFails
  <2>2. torn' \subseteq MembersParams.Leads
    BY <2>1, RunningFields DEF MembersTypes, Members!TypeOK
  <2> QED
    BY <2>1, <2>2, RunningFields, JobOnly
<1>2. CASE Members!Restart
  <2>1. /\ membersJob' = Members!Idle /\ torn' = torn \cup membersJob.leads
        /\ membersQueue' = <<>> /\ deleted' = {}
        /\ edit' = Members!NoEdit /\ membersSetting' = Members!NoSetting
        /\ UNCHANGED <<membersExists, membersLists, config, arrived, home, got,
                       steady>>
    BY <1>2 DEF Members!Restart
  <2>2. /\ edit' \in [seg : MembersParams.Segs \cup {MembersParams.NoSeg},
                      without : SUBSET MembersParams.Leads,
                      snap : Members!Lists]
        /\ membersSetting'
             \in [open : BOOLEAN, counts : [MembersParams.Segs -> Nat]]
    BY <2>1 DEF Members!NoEdit, Members!NoSetting, Members!Lists
  <2>3. torn' \subseteq MembersParams.Leads
    BY <2>1, RunningFields DEF MembersTypes, Members!TypeOK
  <2>4. membersQueue' \in Seq(Waiting) /\ Len(membersQueue') = 0
    BY <2>1
  <2>5. Members!TypeOK'
    BY <2>1, <2>2, <2>3, <2>4, RunningFields
       DEF MembersTypes, Members!TypeOK, Waiting, Running
  <2>6. JobTargets'
    BY <2>1, <2>4, RunningFields DEF JobTargets
  <2> QED
    BY <2>5, <2>6 DEF MembersTypes
<1> QED
  BY <1>1, <1>2

LEMMA MembersTypesStep ==
  ASSUME MembersTypes, [Members!Next]_(Members!vars)
  PROVE  MembersTypes'
<1>1. CASE Members!JobStep
  BY <1>1, StartTypes, ReadTypes, WriteTypes DEF Members!JobStep
<1>2. CASE Members!EditStep
  BY <1>2, DashboardTypes DEF Members!EditStep
<1>3. CASE UNCHANGED Members!vars
  BY <1>3 DEF Members!vars, MembersTypes, Members!TypeOK, JobTargets
<1> QED
  BY <1>1, <1>2, <1>3, JoinTypes, DashboardTypes, CutTypes DEF Members!Next

-----------------------------------------------------------------------------
\* The audience of a campaign (segment-compiler.ts:27-192,
\* campaign-runner.service.ts:366-742).

RowShape == [status : Audience!Status, country : Audience!Texts,
             pushes : Audience!Pushes]

AudienceTypes ==
  /\ audienceRows \in [Audience!Lead -> RowShape]
  /\ criteria \in [AudienceParams.Segs -> Audience!Criteria]
  /\ asked \in [AudienceParams.Segs -> Audience!Criteria]
  /\ audienceEdits \in 0..AudienceParams.MaxEdits
  /\ stayed \in [AudienceParams.Segs -> SUBSET Audience!Lead]

LEMMA AudienceTypesInit ==
  ASSUME Audience!AudienceAssumption, Audience!Init
  PROVE  AudienceTypes
<1>1. audienceRows \in [Audience!Lead -> RowShape]
  <2>1. ASSUME NEW l \in Audience!Lead
        PROVE  [status |-> "active", country |-> AudienceParams.Country[l],
                pushes |-> 0] \in RowShape
    BY DEF Audience!AudienceAssumption, RowShape, Audience!Status,
       Audience!Pushes
  <2> QED
    BY <2>1 DEF Audience!Init
<1>2. criteria \in [AudienceParams.Segs -> Audience!Criteria]
        /\ asked = criteria
  BY DEF Audience!Init, Audience!Criteria
<1>3. audienceEdits \in 0..AudienceParams.MaxEdits
  <2>1. audienceEdits = 0 /\ AudienceParams.MaxEdits \in Nat
    BY DEF Audience!Init, Audience!AudienceAssumption
  <2> QED
    BY <2>1
<1>4. stayed \in [AudienceParams.Segs -> SUBSET Audience!Lead]
  BY DEF Audience!Init
<1> QED
  BY <1>1, <1>2, <1>3, <1>4 DEF AudienceTypes

\* An edit counts, and a target keeps at most the leads it had.
LEMMA EditTypes ==
  ASSUME Audience!AudienceAssumption, AudienceTypes, Audience!Edited,
         audienceRows' \in [Audience!Lead -> RowShape],
         criteria' \in [AudienceParams.Segs -> Audience!Criteria]
  PROVE  AudienceTypes'
<1>1. /\ audienceEdits < AudienceParams.MaxEdits
      /\ audienceEdits' = audienceEdits + 1 /\ asked' = asked
      /\ stayed' = [s \in AudienceParams.Segs |->
                    stayed[s] \cap Audience!Members(asked[s])']
  BY DEF Audience!Edited
<1>2. AudienceParams.MaxEdits \in Nat
  BY DEF Audience!AudienceAssumption
<1>3. audienceEdits' \in 0..AudienceParams.MaxEdits
  BY <1>1, <1>2 DEF AudienceTypes
<1>4. stayed' \in [AudienceParams.Segs -> SUBSET Audience!Lead]
  <2>1. ASSUME NEW s \in AudienceParams.Segs
        PROVE  stayed[s] \cap Audience!Members(asked[s])'
                 \in SUBSET Audience!Lead
    BY DEF AudienceTypes
  <2> QED
    BY <1>1, <2>1
<1> QED
  BY <1>1, <1>3, <1>4 DEF AudienceTypes

LEMMA MoveTypes ==
  ASSUME Audience!AudienceAssumption, AudienceTypes,
         NEW s \in AudienceParams.Segs, NEW L \in SUBSET Audience!Lead,
         Audience!Move(s, L)
  PROVE  AudienceTypes'
<1>1. ASSUME NEW k \in Audience!Criteria
      PROVE  /\ [k EXCEPT !.manual_include = @ \cup L,
                 !.manual_exclude = @ \ L]
                  \in Audience!Criteria
             /\ [k EXCEPT !.manual_include = @ \ L,
                 !.manual_exclude = @ \cup L]
                  \in Audience!Criteria
  BY DEF Audience!Criteria
<1>2. criteria' \in [AudienceParams.Segs -> Audience!Criteria]
  BY <1>1 DEF AudienceTypes, Audience!Move
<1>3. audienceRows' = audienceRows /\ Audience!Edited
  BY DEF Audience!Move
<1> QED
  BY <1>2, <1>3, EditTypes DEF AudienceTypes

LEMMA AudienceTypesStep ==
  ASSUME Audience!AudienceAssumption, AudienceTypes,
         [Audience!Next]_(Audience!vars)
  PROVE  AudienceTypes'
<1>1. ASSUME NEW s \in AudienceParams.Segs,
             NEW C \in SUBSET AudienceParams.Conditions, NEW b \in BOOLEAN,
             Audience!SaveCriteria(s, C, b)
      PROVE  AudienceTypes'
  <2>1. [criteria[s] EXCEPT !.all = C, !.all_active = b] \in Audience!Criteria
    <3>1. criteria[s] \in Audience!Criteria
      BY DEF AudienceTypes
    <3> QED
      BY <3>1 DEF Audience!Criteria
  <2>2. /\ criteria' = [criteria EXCEPT ![s].all = C, ![s].all_active = b]
        /\ audienceRows' = audienceRows /\ Audience!Edited
    BY <1>1 DEF Audience!SaveCriteria
  <2>3. criteria' \in [AudienceParams.Segs -> Audience!Criteria]
    BY <2>1, <2>2 DEF AudienceTypes
  <2> QED
    BY <2>2, <2>3, EditTypes DEF AudienceTypes
<1>2. ASSUME NEW s \in AudienceParams.Segs, NEW l \in Audience!Lead,
             Audience!AddMember(s, l)
      PROVE  AudienceTypes'
  <2>1. {l} \in SUBSET Audience!Lead
    OBVIOUS
  <2> QED
    BY <1>2, <2>1, MoveTypes DEF Audience!AddMember
<1>3. ASSUME NEW s \in AudienceParams.Segs, NEW f \in AudienceParams.Filters,
             Audience!AssignFiltered(s, f)
      PROVE  AudienceTypes'
  <2>1. Audience!Filtered(f) \in SUBSET Audience!Lead
    BY DEF Audience!Filtered
  <2> QED
    BY <1>3, <2>1, MoveTypes DEF Audience!AssignFiltered
<1>4. ASSUME NEW s \in AudienceParams.Segs, NEW l \in Audience!Lead,
             Audience!RemoveMember(s, l)
      PROVE  AudienceTypes'
  <2> DEFINE k == [criteria[s] EXCEPT
                     !.manual_include = criteria[s].manual_include \ {l},
                     !.manual_exclude = criteria[s].manual_exclude \cup {l}]
  <2>1. k \in Audience!Criteria
    <3>1. criteria[s] \in Audience!Criteria
      BY DEF AudienceTypes
    <3>2. /\ criteria[s].manual_include \ {l} \in SUBSET Audience!Lead
          /\ criteria[s].manual_exclude \cup {l} \in SUBSET Audience!Lead
      BY <3>1 DEF Audience!Criteria
    <3> QED
      BY <3>1, <3>2 DEF Audience!Criteria
  <2>2. /\ criteria' = [criteria EXCEPT ![s] = k]
        /\ audienceRows' = audienceRows /\ Audience!Edited
    BY <1>4 DEF Audience!RemoveMember, AudienceTypes
  <2> HIDE DEF k
  <2>3. criteria' \in [AudienceParams.Segs -> Audience!Criteria]
    BY <2>1, <2>2 DEF AudienceTypes
  <2> QED
    BY <2>2, <2>3, EditTypes DEF AudienceTypes
<1>5. ASSUME NEW l \in Audience!Lead,
             Audience!Leave(l) \/ Audience!Return(l) \/ Audience!Pushed(l)
      PROVE  AudienceTypes'
  <2>1. \/ \E st \in {"unsubscribed", "erased"} :
             audienceRows' = [audienceRows EXCEPT ![l].status = st]
        \/ \E c \in Audience!Texts :
             audienceRows' = [audienceRows EXCEPT ![l].status = "active",
                                                  ![l].country = c]
        \/ audienceRows' = [audienceRows EXCEPT ![l].pushes = 1]
    BY <1>5 DEF Audience!Leave, Audience!Return, Audience!Pushed
  <2>2. /\ \A st \in {"unsubscribed", "erased"} :
             [audienceRows[l] EXCEPT !.status = st] \in RowShape
        /\ \A c \in Audience!Texts :
             [audienceRows[l] EXCEPT !.status = "active", !.country = c]
               \in RowShape
        /\ [audienceRows[l] EXCEPT !.pushes = 1] \in RowShape
    <3>1. audienceRows[l] \in RowShape
      BY DEF AudienceTypes
    <3>2. /\ \A st \in {"active", "unsubscribed", "erased"} :
               st \in Audience!Status
          /\ 1 \in Audience!Pushes
      BY DEF Audience!Status, Audience!Pushes
    <3>3. \A st \in Audience!Status :
            [audienceRows[l] EXCEPT !.status = st] \in RowShape
      BY <3>1 DEF RowShape
    <3>4. \A st \in Audience!Status, c \in Audience!Texts :
            [audienceRows[l] EXCEPT !.status = st, !.country = c] \in RowShape
      BY <3>1 DEF RowShape
    <3>5. [audienceRows[l] EXCEPT !.pushes = 1] \in RowShape
      BY <3>1, <3>2 DEF RowShape
    <3> QED
      BY <3>2, <3>3, <3>4, <3>5
  <2>3. audienceRows' \in [Audience!Lead -> RowShape]
    BY <2>1, <2>2 DEF AudienceTypes
  <2>4. criteria' = criteria /\ Audience!Edited
    BY <1>5 DEF Audience!Leave, Audience!Return, Audience!Pushed
  <2> QED
    BY <2>3, <2>4, EditTypes DEF AudienceTypes
<1>6. ASSUME NEW T, NEW m, Audience!Resolve(T, m)
      PROVE  AudienceTypes'
  <2>1. /\ asked' = criteria
        /\ UNCHANGED <<audienceRows, criteria, audienceEdits>>
        /\ stayed' = [s \in AudienceParams.Segs |-> Audience!Audience(s)]
    BY <1>6 DEF Audience!Resolve
  <2>2. \A s : Audience!Audience(s) \in SUBSET Audience!Lead
    BY DEF Audience!Audience, Audience!Members
  <2>3. stayed' \in [AudienceParams.Segs -> SUBSET Audience!Lead]
    BY <2>1, <2>2
  <2> QED
    BY <2>1, <2>3 DEF AudienceTypes
<1>7. CASE Audience!LoadSegment \/ Audience!Order \/ UNCHANGED Audience!vars
  BY <1>7
     DEF AudienceTypes, Audience!LoadSegment, Audience!Order, Audience!vars
<1> QED
  BY <1>1, <1>2, <1>3, <1>4, <1>5, <1>6, <1>7 DEF Audience!Next

LEMMA AudienceTypesHold ==
  ASSUME OrderInv, AudienceTypes
  PROVE  Audience!TypeOK
<1>1. audienceOrder = Null \/ audienceOrder \in Seq(Audience!Lead)
  BY DEF OrderInv, Made
<1> QED
  BY <1>1 DEF OrderInv, Read, AudienceTypes, RowShape, Audience!TypeOK

-----------------------------------------------------------------------------
\* Drip steps (automations.service.ts:22-186).

\* A batch is no larger than BATCH; the jobs that have fallen due are finitely
\* many.
TickTypes ==
  /\ dripsActive \in BOOLEAN
  /\ cancels \subseteq DripsParams.Leads
  /\ leftInTick \subseteq DripsParams.Leads
  /\ dripsPc \in {"idle", "next", "claim", "check", "push", "sentSend",
                  "goneSend", "failSend", "goneLead", "sentJob", "failJob",
                  "rescue"}
  /\ IsFiniteSet(due) /\ IsFiniteSet(batch)
  /\ Cardinality(batch) <= DripsParams.BatchSize

LEMMA DripsCardinality == \A S : Drips!Cardinality(S) = Cardinality(S)
BY DEF Drips!Cardinality, Cardinality

LEMMA TickTypesInit == Drips!AutomationsAssumption /\ Drips!Init => TickTypes
BY FS_EmptySet DEF Drips!AutomationsAssumption, Drips!Init, TickTypes

LEMMA TickTypesStep ==
  ASSUME Drips!AutomationsAssumption, DripInv, TickTypes,
         [Drips!Next]_(Drips!vars)
  PROVE  TickTypes'
<1>0. DripsParams.BatchSize \in Nat \ {0}
  BY DEF Drips!AutomationsAssumption
<1>1. ASSUME UNCHANGED <<due, batch, dripsPc>>,
             dripsActive' \in BOOLEAN,
             cancels' \subseteq DripsParams.Leads,
             leftInTick' \subseteq DripsParams.Leads
      PROVE  TickTypes'
  BY <1>1 DEF TickTypes
<1>2. ASSUME NEW r \in DripsParams.Requests,
             \/ \E l \in DripsParams.Leads : Drips!SubscribeLookup(r, l)
             \/ Drips!SubscribeUpsert(r) \/ Drips!Enqueue(r)
      PROVE  TickTypes'
  BY <1>1, <1>2
     DEF Drips!SubscribeLookup, Drips!SubscribeUpsert, Drips!Enqueue,
     Drips!tickVars, TickTypes
<1>3. ASSUME NEW l \in DripsParams.Leads,
             Drips!Unsubscribe(l) \/ Drips!Cancel(l)
      PROVE  TickTypes'
  BY <1>1, <1>3
     DEF Drips!Unsubscribe, Drips!Cancel, Drips!tickVars, TickTypes
<1>4. CASE Drips!Toggle
  BY <1>1, <1>4 DEF Drips!Toggle, Drips!tickVars, TickTypes
<1>5. ASSUME NEW j \in Drips!Jobs, Drips!FallDue(j) PROVE TickTypes'
  <2>1. IsFiniteSet(due')
    BY <1>5, FS_AddElement DEF Drips!FallDue, TickTypes
  <2> QED
    BY <1>5, <2>1 DEF Drips!FallDue, Drips!tickVars, TickTypes
<1>6. CASE Drips!TickRead
  <2>1. PICK B \in SUBSET Drips!Ready : Drips!Taken(B) /\ batch' = B
    BY <1>6 DEF Drips!TickRead
  <2>2. IsFiniteSet(Drips!Ready) /\ IsFiniteSet(B)
    BY <2>1, FS_Subset DEF Drips!Ready, TickTypes
  <2>3. Cardinality(Drips!Ready) \in Nat
    BY <2>2, FS_CardinalityType
  <2>4. Cardinality(B) <= DripsParams.BatchSize
    BY <1>0, <2>1, <2>3, DripsCardinality DEF Drips!Taken
  <2> QED
    BY <1>6, <2>1, <2>2, <2>4 DEF Drips!TickRead, TickTypes
<1>7. CASE Drips!NextJob
  <2>1. batch' \subseteq batch /\ dripsPc' \in {"idle", "claim"}
    BY <1>7 DEF Drips!NextJob
  <2>2. IsFiniteSet(batch') /\ Cardinality(batch') <= Cardinality(batch)
    BY <2>1, FS_Subset DEF TickTypes
  <2>3. Cardinality(batch) \in Nat /\ Cardinality(batch') \in Nat
    BY <2>2, FS_CardinalityType DEF TickTypes
  <2>4. Cardinality(batch') <= DripsParams.BatchSize
    BY <1>0, <2>2, <2>3 DEF TickTypes
  <2> QED
    BY <1>7, <2>1, <2>2, <2>4 DEF Drips!NextJob, TickTypes
<1>8. ASSUME NEW j \in Drips!Jobs,
             Drips!JobStep(j) \/ Drips!JobFault(j)
      PROVE  TickTypes'
  <2>1. UNCHANGED <<dripsActive, cancels, leftInTick, due, batch>>
    BY <1>8
       DEF Drips!JobStep, Drips!JobFault, Drips!Claim, Drips!CreateSend,
       Drips!PushDelivered, Drips!PushFails, Drips!RecordSend,
       Drips!RecordGone, Drips!RecordJob, Drips!Rescue
  <2>2. dripsPc'
          \in {"check", "next", "push", "sentSend", "goneSend", "failSend",
               "sentJob", "goneLead", "failJob", "rescue"}
    <3>1. CASE Drips!RecordSend(j)
      BY <3>1 DEF Drips!RecordSend
    <3>2. CASE Drips!JobFault(j)
      BY <3>2 DEF Drips!JobFault
    <3>3. CASE Drips!Claim(j) \/ Drips!CreateSend(j) \/ Drips!PushDelivered(j)
                 \/ Drips!PushFails(j) \/ Drips!RecordGone(j)
                 \/ Drips!RecordJob(j) \/ Drips!Rescue(j)
      BY <3>3
         DEF Drips!Claim, Drips!CreateSend, Drips!PushDelivered,
         Drips!PushFails, Drips!RecordGone, Drips!RecordJob, Drips!Rescue
    <3> QED
      BY <1>8, <3>1, <3>2, <3>3 DEF Drips!JobStep
  <2> QED
    BY <2>1, <2>2 DEF TickTypes
<1>9. CASE Drips!Crash
  BY <1>0, <1>9, FS_EmptySet DEF Drips!Crash, TickTypes
<1>10. CASE UNCHANGED Drips!vars
  BY <1>10 DEF Drips!vars, Drips!tickVars, TickTypes
<1> QED
  BY <1>2, <1>3, <1>4, <1>5, <1>6, <1>7, <1>8, <1>9, <1>10
     DEF Drips!Next, Drips!TickStep

LEMMA DripsTyped == DripInv /\ TickTypes => Drips!TypeOK
<1> SUFFICES ASSUME DripInv, TickTypes PROVE Drips!TypeOK
  OBVIOUS
<1>1. current \subseteq Drips!Jobs /\ Drips!Cardinality(current) <= 1
  <2>1. CASE current = {}
    BY <2>1, FS_EmptySet, DripsCardinality
  <2>2. ASSUME NEW j \in Drips!Jobs, current = {j}
        PROVE  current \subseteq Drips!Jobs /\ Drips!Cardinality(current) <= 1
    <3>1. Cardinality({j}) = 1
      BY FS_Singleton
    <3> QED
      BY <2>2, <3>1, DripsCardinality
  <2> QED
    BY <2>1, <2>2 DEF DripInv, DripTypes
<1>2. Drips!Cardinality(batch) <= DripsParams.BatchSize
  BY DripsCardinality DEF TickTypes
<1> QED
  BY <1>1, <1>2
     DEF DripInv, DripTypes, Statuses, SnapshotTrue, TickTypes, Drips!TypeOK

-----------------------------------------------------------------------------
\* Fingerprints that come from many addresses (public.service.ts:160-185).

\* A sequence without repeats has as many members as entries.
LEMMA EntriesCounted ==
  ASSUME NEW S, NEW q \in Seq(S), \A i, j \in 1..Len(q) : q[i] = q[j] => i = j
  PROVE  Cardinality({q[i] : i \in 1..Len(q)}) = Len(q)
<1> DEFINE I == 1..Len(q)
           T == {q[i] : i \in I}
           f == [i \in I |-> q[i]]
<1>0. Len(q) \in Nat
  OBVIOUS
<1>1. IsFiniteSet(I) /\ Cardinality(I) = Len(q)
  <2>1. IsFiniteSet(I)
          /\ Cardinality(I) = IF 1 > Len(q) THEN 0 ELSE Len(q) - 1 + 1
    BY <1>0, FS_Interval
  <2> QED
    BY <1>0, <2>1
<1>2. f \in Bijection(I, T)
  <2>1. f \in [I -> T] /\ \A t \in T : \E i \in I : f[i] = t
    OBVIOUS
  <2>2. \A i, j \in I : f[i] = f[j] => i = j
    OBVIOUS
  <2> HIDE DEF I, T, f
  <2> QED
    BY <2>1, <2>2, Zenon DEF Bijection, Injection, Surjection, IsInjective
<1>3. ExistsBijection(I, T)
  BY <1>2 DEF ExistsBijection
<1> HIDE DEF I, T
<1>4. Cardinality(T) = Cardinality(I)
  BY <1>1, <1>3, FS_Bijection
<1> QED
  BY <1>1, <1>4 DEF T, I

\* The map lists each fingerprint once.
FarmTypes ==
  /\ farmClock \in Farm!Times
  /\ ips \in [FarmParams.Prints ->
                [FarmParams.Addresses -> Farm!Times \cup {Farm!Never}]]
  /\ last \in [FarmParams.Prints ->
                 [FarmParams.Addresses -> Farm!Times \cup {Farm!Never}]]
  /\ verdict \in [fp : FarmParams.Prints, farm : BOOLEAN, at : Farm!Times]
  /\ \A i, j \in 1..Len(farmOrder) : farmOrder[i] = farmOrder[j] => i = j

LEMMA FarmTypesInit == Farm!FingerprintAssumption /\ Farm!Init => FarmTypes
<1> SUFFICES ASSUME Farm!FingerprintAssumption, Farm!Init PROVE FarmTypes
  OBVIOUS
<1>1. 0 \in Farm!Times
  BY DEF Farm!Times, Farm!FingerprintAssumption
<1>2. ips \in [FarmParams.Prints ->
                 [FarmParams.Addresses -> Farm!Times \cup {Farm!Never}]]
        /\ last = ips
  BY DEF Farm!Init, Farm!NoneSeen
<1>3. farmOrder = <<>> /\ Len(farmOrder) = 0
  BY DEF Farm!Init
<1>4. verdict \in [fp : FarmParams.Prints, farm : BOOLEAN, at : Farm!Times]
  BY <1>1 DEF Farm!Init
<1>5. farmClock = 0
  BY DEF Farm!Init
<1> QED
  BY <1>1, <1>2, <1>3, <1>4, <1>5 DEF FarmTypes

LEMMA FarmTypesStep ==
  ASSUME Farm!FingerprintAssumption, FarmInv, FarmTypes,
         [Farm!Next]_(Farm!vars)
  PROVE  FarmTypes'
<1>1. CASE Farm!Tick
  BY <1>1 DEF Farm!Tick, FarmTypes, Farm!Times, Farm!FingerprintAssumption
<1>2. ASSUME NEW fp \in FarmParams.Prints, NEW a \in FarmParams.Addresses,
             Farm!Record(fp, a)
      PROVE  FarmTypes'
  <2> DEFINE Seen == [FarmParams.Addresses -> Farm!Times \cup {Farm!Never}]
             full == fp \notin Farm!Tracked
                       /\ Len(farmOrder) >= FarmParams.MaxEntries
             old == IF full
                      THEN [ips EXCEPT ![Head(farmOrder)] = Farm!NoneSeen]
                    ELSE ips
             now == [old[fp] EXCEPT ![a] = farmClock]
  <2>1. old \in [FarmParams.Prints -> Seen]
    BY DEF FarmTypes, Farm!NoneSeen
  <2>2. now \in Seen
    BY <2>1 DEF FarmTypes
  <2>3. Farm!Expire(now) \in Seen
    <3> HIDE DEF now
    <3> QED
      BY <2>2 DEF Farm!Expire
  <2>4. ips' = [old EXCEPT ![fp] = Farm!Expire(now)]
          /\ last' = [last EXCEPT ![fp][a] = farmClock]
    BY <1>2 DEF Farm!Record
  <2>5. ips' \in [FarmParams.Prints -> Seen]
          /\ last' \in [FarmParams.Prints -> Seen]
    <3> HIDE DEF now, old
    <3> QED
      BY <2>1, <2>3, <2>4 DEF FarmTypes
  <2>6. verdict' \in [fp : FarmParams.Prints, farm : BOOLEAN, at : Farm!Times]
    BY <1>2 DEF Farm!Record, FarmTypes
  <2>7. \A i, j \in 1..Len(farmOrder') :
          farmOrder'[i] = farmOrder'[j] => i = j
    <3>1. farmOrder \in Seq(FarmParams.Prints) /\ Len(farmOrder) \in Nat
      BY DEF FarmInv
    <3>2. \A i, j \in 1..Len(farmOrder) : farmOrder[i] = farmOrder[j] => i = j
      BY DEF FarmTypes
    <3>3. CASE fp \in Farm!Tracked
      BY <1>2, <3>2, <3>3 DEF Farm!Record
    <3>4. CASE fp \notin Farm!Tracked
      <4> DEFINE q == IF full THEN Tail(farmOrder) ELSE farmOrder
      <4>1. farmOrder' = Append(q, fp)
        BY <1>2, <3>4 DEF Farm!Record
      <4>2. PICK n \in {0, 1} :
              /\ Len(q) = Len(farmOrder) - n /\ Len(q) \in Nat
              /\ q \in Seq(FarmParams.Prints)
              /\ \A i \in 1..Len(q) : q[i] = farmOrder[i + n]
        <5>1. CASE full
          <6>1. Len(farmOrder) > 0
            BY <3>1, <5>1 DEF Farm!FingerprintAssumption
          <6>2. /\ Tail(farmOrder) \in Seq(FarmParams.Prints)
                /\ Len(Tail(farmOrder)) = Len(farmOrder) - 1
                /\ \A i \in 1..Len(Tail(farmOrder)) :
                     Tail(farmOrder)[i] = farmOrder[i + 1]
            BY <3>1, <6>1
          <6>3. q = Tail(farmOrder)
            BY <5>1
          <6> HIDE DEF q
          <6> QED
            BY <3>1, <6>1, <6>2, <6>3
        <5>2. CASE ~full
          BY <3>1, <5>2
        <5> QED
          BY <5>1, <5>2
      <4> HIDE DEF q
      <4>3. \A i \in 1..Len(q) : i + n \in 1..Len(farmOrder)
        BY <3>1, <4>2
      <4>4. \A i, j \in 1..Len(q) : q[i] = q[j] => i = j
        BY <3>2, <4>2, <4>3
      <4>5. \A i \in 1..Len(q) : q[i] # fp
        BY <3>4, <4>2, <4>3 DEF Farm!Tracked
      <4>6. /\ Len(farmOrder') = Len(q) + 1
            /\ farmOrder'[Len(q) + 1] = fp
            /\ \A i \in 1..Len(q) : farmOrder'[i] = q[i]
        BY <4>1, <4>2, EntryAppended
      <4>7. \A i \in 1..Len(farmOrder') : i \in 1..Len(q) \/ i = Len(q) + 1
        BY <4>2, <4>6
      <4> QED
        BY <4>4, <4>5, <4>6, <4>7
    <3> QED
      BY <3>3, <3>4
  <2> QED
    BY <1>2, <2>5, <2>6, <2>7 DEF Farm!Record, FarmTypes
<1>3. CASE UNCHANGED Farm!vars
  BY <1>3 DEF Farm!vars, FarmTypes
<1> QED
  BY <1>1, <1>2, <1>3 DEF Farm!Next

LEMMA FarmTyped == FarmInv /\ FarmTypes => Farm!TypeOK
<1> SUFFICES ASSUME FarmInv, FarmTypes PROVE Farm!TypeOK
  OBVIOUS
<1>1. Len(farmOrder) = Farm!Cardinality(Farm!Tracked)
  BY EntriesCounted, FarmCardinality DEF FarmInv, FarmTypes, Farm!Tracked
<1> QED
  BY <1>1 DEF FarmInv, FarmTypes, Farm!TypeOK

-----------------------------------------------------------------------------
\* Clicks, page views and sales that are counted (public.service.ts:41-414).

\* Requests under way, and those that may yet count a click for a lead.
Busy == {c \in IntakeParams.Calls : call[c] # Intake!Idle}
Uncounted == {c \in Busy : call[c].at # "campaign"}

\* What is counted and what may be counted yet has been asked for.
Paid(n, S) == n + Cardinality(S) <= calls

IntakeBounds ==
  /\ calls \in 0..IntakeParams.MaxCalls /\ faults \in 0..IntakeParams.MaxFaults
  /\ \A b \in IntakeParams.Browsers : Paid(welcomed[b], Busy)
  /\ \A p \in IntakeParams.Paths : Paid(views[p], Busy)
  /\ revenue \in [IntakeParams.Sends \cup {"direct"} -> Nat]
  /\ \A s \in IntakeParams.Sends \cup {"direct"} : Paid(revenue[s], Busy)
  /\ Paid(campClicks, Busy) /\ Paid(leadClicks, Uncounted)
  /\ clicked \subseteq IntakeParams.Sends
  /\ \A c \in IntakeParams.Calls :
       /\ call[c].op = "click" => call[c].arg \in IntakeParams.Sends
       /\ call[c].op = "sale"
            => call[c].arg \in IntakeParams.Sends \cup {"direct"}
  /\ \A w \in {"welcome", "lead", "campaign"} :
       lost[w] <= faults * Cardinality(IntakeParams.Calls)

LEMMA BusyFinite ==
  ASSUME Intake!IntakeAssumption
  PROVE  /\ IsFiniteSet(Busy) /\ Cardinality(Busy) \in Nat
         /\ IsFiniteSet(Uncounted) /\ Cardinality(Uncounted) \in Nat
         /\ Cardinality(IntakeParams.Calls) \in Nat
<1>1. Busy \in SUBSET IntakeParams.Calls
        /\ Uncounted \in SUBSET IntakeParams.Calls
  BY DEF Busy, Uncounted
<1> QED
  BY <1>1, SomeCalls

\* What a fault takes is no more than the requests there are.
LEMMA OneFault ==
  ASSUME NEW f \in Nat, NEW k \in Nat, NEW n \in Nat,
         NEW a \in Nat, n <= f * k, a <= k
  PROVE  n + a <= (f + 1) * k
OBVIOUS

LEMMA FaultsBound ==
  ASSUME NEW f \in Nat, NEW m \in Nat, NEW k \in Nat, f <= m
  PROVE  f * k <= m * k
OBVIOUS

LEMMA IntakeBoundsInit ==
  ASSUME Intake!IntakeAssumption, Intake!Init
  PROVE  IntakeBounds
<1>1. Busy = {} /\ Uncounted = {}
  BY DEF Intake!Init, Busy, Uncounted
<1>2. Cardinality({}) = 0
  BY FS_EmptySet
<1>3. /\ calls = 0 /\ faults = 0 /\ leadClicks = 0 /\ campClicks = 0
      /\ clicked = {}
      /\ revenue \in [IntakeParams.Sends \cup {"direct"} -> Nat]
      /\ \A b \in IntakeParams.Browsers : welcomed[b] = 0
      /\ \A p \in IntakeParams.Paths : views[p] = 0
      /\ \A s \in IntakeParams.Sends \cup {"direct"} : revenue[s] = 0
      /\ \A c \in IntakeParams.Calls : call[c].op = "idle"
      /\ \A w \in {"welcome", "lead", "campaign"} : lost[w] = 0
  BY DEF Intake!Init, Intake!Idle
<1>4. IntakeParams.MaxCalls \in Nat /\ IntakeParams.MaxFaults \in Nat
  BY DEF Intake!IntakeAssumption
<1>5. Cardinality(IntakeParams.Calls) \in Nat
  BY BusyFinite
<1>6. \A w \in {"welcome", "lead", "campaign"} :
        lost[w] <= faults * Cardinality(IntakeParams.Calls)
  BY <1>3, <1>5
<1> QED
  BY <1>1, <1>2, <1>3, <1>4, <1>6 DEF IntakeBounds, Paid

\* A step in which no request arrives leaves no more to be counted, and one
\* less for a request that ends.
LEMMA Settled ==
  ASSUME Intake!IntakeAssumption, IntakeBounds, calls' = calls,
         Busy' \subseteq Busy, Uncounted' \subseteq Uncounted
  PROVE  /\ \A n \in Nat : Paid(n, Busy) => n + Cardinality(Busy') <= calls'
         /\ \A n \in Nat :
              Paid(n, Uncounted) => n + Cardinality(Uncounted') <= calls'
         /\ \A n \in Nat :
              Paid(n, Busy) /\ Busy # Busy'
                => (n + 1) + Cardinality(Busy') <= calls'
         /\ \A n \in Nat :
              Paid(n, Uncounted) /\ Uncounted # Uncounted'
                => (n + 1) + Cardinality(Uncounted') <= calls'
<1>1. ASSUME NEW A, NEW B, IsFiniteSet(A), B \subseteq A
      PROVE  /\ Cardinality(A) \in Nat /\ Cardinality(B) \in Nat
             /\ Cardinality(B) <= Cardinality(A)
             /\ A # B => Cardinality(B) < Cardinality(A)
  BY <1>1, FS_Subset, FS_CardinalityType
<1>2. IsFiniteSet(Busy) /\ IsFiniteSet(Uncounted) /\ calls \in Nat
  BY BusyFinite DEF IntakeBounds, Intake!IntakeAssumption
<1>3. /\ Cardinality(Busy) \in Nat /\ Cardinality(Busy') \in Nat
      /\ Cardinality(Busy') <= Cardinality(Busy)
      /\ Busy # Busy' => Cardinality(Busy') < Cardinality(Busy)
  BY <1>1, <1>2
<1>4. /\ Cardinality(Uncounted) \in Nat /\ Cardinality(Uncounted') \in Nat
      /\ Cardinality(Uncounted') <= Cardinality(Uncounted)
      /\ Uncounted # Uncounted'
           => Cardinality(Uncounted') < Cardinality(Uncounted)
  BY <1>1, <1>2
<1> QED
  BY <1>2, <1>3, <1>4 DEF Paid

\* A request that goes on, or ends.
LEMMA CallMoves ==
  ASSUME NEW c \in IntakeParams.Calls, NEW x, IntakeTyped, IntakeBounds,
         call' = [call EXCEPT ![c] = x], call[c] # Intake!Idle,
         \/ x = Intake!Idle
         \/ /\ x.op = call[c].op /\ x.arg = call[c].arg
            /\ call[c].at # "campaign"
  PROVE  /\ Busy' \subseteq Busy /\ Uncounted' \subseteq Uncounted
         /\ x = Intake!Idle => Busy # Busy'
         /\ \A d \in IntakeParams.Calls :
              /\ call'[d].op = "click" => call'[d].arg \in IntakeParams.Sends
              /\ call'[d].op = "sale"
                   => call'[d].arg \in IntakeParams.Sends \cup {"direct"}
<1>1. /\ call \in [IntakeParams.Calls -> CallShape]
      /\ call'[c] = x
      /\ \A d \in IntakeParams.Calls \ {c} : call'[d] = call[d]
  BY DEF IntakeTyped
<1>2. Busy' \subseteq Busy /\ (x = Intake!Idle => Busy # Busy')
  BY <1>1 DEF Busy
<1>3. Uncounted' \subseteq Uncounted
  BY <1>1, <1>2 DEF Busy, Uncounted
<1>4. x = Intake!Idle => x.op = "idle"
  BY IdleShape
<1> QED
  BY <1>1, <1>2, <1>3, <1>4 DEF IntakeBounds

\* A step that counts nothing.
LEMMA CallQuiet ==
  ASSUME Intake!IntakeAssumption, IntakeInv, IntakeBounds,
         NEW c \in IntakeParams.Calls,
         \/ Intake!FindLead(c) \/ Intake!Upsert(c) \/ Intake!Unsubscribe(c)
         \/ Intake!FindPage(c) \/ Intake!CountPages(c) \/ Intake!Flip(c)
         \/ Intake!CreatePage(c) /\ views[call[c].arg] # 0
  PROVE  IntakeBounds'
<1>1. /\ call \in [IntakeParams.Calls -> CallShape] /\ call[c] \in CallShape
      /\ call[c].op # "idle" /\ call[c].at # "campaign"
  BY DEF IntakeInv, IntakeTyped, Intake!FindLead, Intake!Upsert,
     Intake!Unsubscribe, Intake!FindPage, Intake!CountPages, Intake!Flip,
     Intake!CreatePage, Intake!In
<1>2. PICK x : /\ call' = [call EXCEPT ![c] = x]
               /\ \/ x = Intake!Idle
                  \/ x.op = call[c].op /\ x.arg = call[c].arg
  <2>1. ASSUME NEW step, Intake!Goto(c, step)
        PROVE  \E x : /\ call' = [call EXCEPT ![c] = x]
                      /\ x.op = call[c].op /\ x.arg = call[c].arg
    <3> DEFINE x == [call[c] EXCEPT !.at = step]
    <3>1. x.op = call[c].op /\ x.arg = call[c].arg
      BY <1>1 DEF CallShape
    <3>2. call' = [call EXCEPT ![c] = x]
      BY <1>1, <2>1 DEF Intake!Goto
    <3> QED
      BY <3>1, <3>2
  <2>2. CASE Intake!FindLead(c)
    <3> DEFINE x == [call[c] EXCEPT !.at = "upsert",
                                    !.found = sub[call[c].arg] # "none"]
    <3>1. x.op = call[c].op /\ x.arg = call[c].arg
      BY <1>1 DEF CallShape
    <3>2. call' = [call EXCEPT ![c] = x]
      BY <1>1, <2>2 DEF Intake!FindLead
    <3> QED
      BY <3>1, <3>2
  <2>3. Intake!FindLead(c) \/ (\E step : Intake!Goto(c, step))
          \/ Intake!Answer(c)
    BY DEF Intake!Upsert, Intake!Unsubscribe, Intake!FindPage,
       Intake!CountPages, Intake!Flip, Intake!CreatePage
  <2> QED
    BY <2>1, <2>2, <2>3 DEF Intake!Answer
<1>3. call[c] # Intake!Idle
  BY <1>1, IdleShape
<1>4. /\ Busy' \subseteq Busy /\ Uncounted' \subseteq Uncounted
      /\ \A d \in IntakeParams.Calls :
           /\ call'[d].op = "click" => call'[d].arg \in IntakeParams.Sends
           /\ call'[d].op = "sale"
                => call'[d].arg \in IntakeParams.Sends \cup {"direct"}
  BY <1>1, <1>2, <1>3, CallMoves DEF IntakeInv
<1>5. /\ UNCHANGED <<welcomed, views, leadClicks, campClicks, revenue, lost,
                     calls, faults>>
      /\ clicked' \subseteq IntakeParams.Sends
  <2>1. CASE Intake!Flip(c)
    <3>1. call[c].arg \in IntakeParams.Sends
      BY <2>1 DEF Intake!Flip, Intake!In, IntakeBounds
    <3> QED
      BY <2>1, <3>1 DEF Intake!Flip, IntakeBounds
  <2>2. CASE ~Intake!Flip(c)
    BY <2>2
       DEF IntakeBounds, Intake!FindLead, Intake!Upsert, Intake!Unsubscribe,
       Intake!FindPage, Intake!CountPages, Intake!CreatePage, Intake!rows
  <2> QED
    BY <2>1, <2>2
<1>6. /\ \A b \in IntakeParams.Browsers : welcomed[b] \in Nat
      /\ \A p \in IntakeParams.Paths : views[p] \in Nat
      /\ \A s \in IntakeParams.Sends \cup {"direct"} : revenue[s] \in Nat
      /\ leadClicks \in Nat /\ campClicks \in Nat
  BY DEF IntakeInv, IntakeTyped, IntakeBounds
<1>7. /\ \A n \in Nat : Paid(n, Busy) => n + Cardinality(Busy') <= calls'
      /\ \A n \in Nat :
           Paid(n, Uncounted) => n + Cardinality(Uncounted') <= calls'
  BY <1>4, <1>5, Settled
<1> QED
  BY <1>4, <1>5, <1>6, <1>7 DEF IntakeBounds, Paid

\* A request that has counted ends.
LEMMA CallCounts ==
  ASSUME Intake!IntakeAssumption, IntakeInv, IntakeBounds,
         NEW c \in IntakeParams.Calls,
         \/ Intake!Welcome(c) \/ Intake!AddView(c)
         \/ Intake!CreatePage(c) /\ views[call[c].arg] = 0
         \/ Intake!CountCampaign(c) \/ Intake!Sale(c)
  PROVE  IntakeBounds'
<1>1. /\ call[c] # Intake!Idle /\ call' = [call EXCEPT ![c] = Intake!Idle]
      /\ UNCHANGED <<clicked, leadClicks, lost, calls, faults>>
  <2>1. call[c].op # "idle"
    BY DEF Intake!Welcome, Intake!AddView, Intake!CreatePage,
       Intake!CountCampaign, Intake!Sale, Intake!In
  <2>2. Intake!Answer(c)
          /\ UNCHANGED <<clicked, leadClicks, lost, calls, faults>>
    BY DEF Intake!Welcome, Intake!AddView, Intake!CreatePage, Intake!CountView,
       Intake!CountCampaign, Intake!Sale
  <2> QED
    BY <2>1, <2>2, IdleShape DEF Intake!Answer
<1>2. /\ Busy' \subseteq Busy /\ Uncounted' \subseteq Uncounted /\ Busy # Busy'
      /\ \A d \in IntakeParams.Calls :
           /\ call'[d].op = "click" => call'[d].arg \in IntakeParams.Sends
           /\ call'[d].op = "sale"
                => call'[d].arg \in IntakeParams.Sends \cup {"direct"}
  BY <1>1, CallMoves DEF IntakeInv
<1>3. /\ \A n \in Nat : Paid(n, Busy) => n + Cardinality(Busy') <= calls'
      /\ \A n \in Nat :
           Paid(n, Uncounted) => n + Cardinality(Uncounted') <= calls'
      /\ \A n \in Nat :
           Paid(n, Busy) => (n + 1) + Cardinality(Busy') <= calls'
  BY <1>1, <1>2, Settled
<1>4. /\ \A b \in IntakeParams.Browsers :
           welcomed'[b] \in {welcomed[b], welcomed[b] + 1}
      /\ \A p \in IntakeParams.Paths : views'[p] \in {views[p], views[p] + 1}
      /\ \A s \in IntakeParams.Sends \cup {"direct"} :
           revenue'[s] \in {revenue[s], revenue[s] + 1}
      /\ revenue' \in [IntakeParams.Sends \cup {"direct"} -> Nat]
      /\ campClicks' \in {campClicks, campClicks + 1}
  <2>0. /\ welcomed \in [IntakeParams.Browsers -> Nat]
        /\ views \in [IntakeParams.Paths -> Nat]
        /\ revenue \in [IntakeParams.Sends \cup {"direct"} -> Nat]
        /\ campClicks \in Nat
    BY DEF IntakeInv, IntakeTyped, IntakeBounds
  <2>1. CASE Intake!Welcome(c)
    BY <2>0, <2>1 DEF Intake!Welcome
  <2>2. CASE Intake!CountView(c)
    BY <2>0, <2>2 DEF Intake!CountView
  <2>3. CASE Intake!CountCampaign(c)
    BY <2>0, <2>3 DEF Intake!CountCampaign
  <2>4. CASE Intake!Sale(c)
    <3>1. call[c].arg \in IntakeParams.Sends \cup {"direct"}
      BY <2>4 DEF Intake!Sale, Intake!In, IntakeBounds
    <3> QED
      BY <2>0, <2>4, <3>1 DEF Intake!Sale
  <2> QED
    BY <2>1, <2>2, <2>3, <2>4 DEF Intake!AddView, Intake!CreatePage
<1>5. /\ \A b \in IntakeParams.Browsers : welcomed[b] \in Nat
      /\ \A p \in IntakeParams.Paths : views[p] \in Nat
      /\ \A s \in IntakeParams.Sends \cup {"direct"} : revenue[s] \in Nat
      /\ leadClicks \in Nat /\ campClicks \in Nat
  BY DEF IntakeInv, IntakeTyped, IntakeBounds
<1>6. /\ \A b \in IntakeParams.Browsers :
           welcomed'[b] + Cardinality(Busy') <= calls'
      /\ \A p \in IntakeParams.Paths : views'[p] + Cardinality(Busy') <= calls'
      /\ \A s \in IntakeParams.Sends \cup {"direct"} :
           revenue'[s] + Cardinality(Busy') <= calls'
      /\ campClicks' + Cardinality(Busy') <= calls'
      /\ leadClicks' + Cardinality(Uncounted') <= calls'
  <2>1. ASSUME NEW n \in Nat, NEW m \in {n, n + 1}, Paid(n, Busy)
        PROVE  m + Cardinality(Busy') <= calls'
    BY <1>3, <2>1
  <2> QED
    BY <1>1, <1>3, <1>4, <1>5, <2>1 DEF IntakeBounds
<1> QED
  BY <1>1, <1>2, <1>4, <1>6 DEF IntakeBounds, Paid

\* A tap is counted for its lead, and its request goes on.
LEMMA LeadCounts ==
  ASSUME Intake!IntakeAssumption, IntakeInv, IntakeBounds,
         NEW c \in IntakeParams.Calls, Intake!CountLead(c)
  PROVE  IntakeBounds'
<1> DEFINE x == [call[c] EXCEPT !.at = "campaign"]
<1>1. /\ call \in [IntakeParams.Calls -> CallShape] /\ call[c] \in CallShape
      /\ call[c].op = "click" /\ call[c].at = "lead"
      /\ call' = [call EXCEPT ![c] = x]
      /\ leadClicks' = leadClicks + 1
      /\ UNCHANGED <<welcomed, views, clicked, campClicks, revenue, lost,
                     calls,
                     faults>>
  BY DEF IntakeInv, IntakeTyped, Intake!CountLead, Intake!In, Intake!Goto
<1>2. /\ x.op = call[c].op /\ x.arg = call[c].arg /\ x.at = "campaign"
      /\ call'[c] = x /\ call[c] # Intake!Idle
  BY <1>1, IdleShape DEF CallShape
<1>3. /\ Busy' \subseteq Busy /\ Uncounted' \subseteq Uncounted
      /\ \A d \in IntakeParams.Calls :
           /\ call'[d].op = "click" => call'[d].arg \in IntakeParams.Sends
           /\ call'[d].op = "sale"
                => call'[d].arg \in IntakeParams.Sends \cup {"direct"}
  BY <1>1, <1>2, CallMoves DEF IntakeInv
<1>4. c \in Uncounted /\ c \notin Uncounted'
  BY <1>1, <1>2 DEF Uncounted, Busy
<1>5. Uncounted # Uncounted'
  BY <1>4
<1>6. /\ \A n \in Nat : Paid(n, Busy) => n + Cardinality(Busy') <= calls'
      /\ \A n \in Nat :
           Paid(n, Uncounted) => (n + 1) + Cardinality(Uncounted') <= calls'
  BY <1>1, <1>3, <1>5, Settled
<1>7. /\ \A b \in IntakeParams.Browsers : welcomed[b] \in Nat
      /\ \A p \in IntakeParams.Paths : views[p] \in Nat
      /\ \A s \in IntakeParams.Sends \cup {"direct"} : revenue[s] \in Nat
      /\ leadClicks \in Nat /\ campClicks \in Nat
  BY DEF IntakeInv, IntakeTyped, IntakeBounds
<1> QED
  BY <1>1, <1>3, <1>6, <1>7 DEF IntakeBounds, Paid

\* A request comes in.
LEMMA CallArrives ==
  ASSUME Intake!IntakeAssumption, IntakeInv, IntakeBounds,
         NEW c \in IntakeParams.Calls, Intake!Request(c)
  PROVE  IntakeBounds'
<1>1. PICK x : /\ call' = [call EXCEPT ![c] = x]
               /\ x.op = "click" => x.arg \in IntakeParams.Sends
               /\ x.op = "sale" => x.arg \in IntakeParams.Sends \cup {"direct"}
  <2>1. ASSUME NEW op, NEW arg, NEW step, NEW passes,
               Intake!Arrive(c, op, arg, step, passes),
               /\ op = "click" => arg \in IntakeParams.Sends
               /\ op = "sale" => arg \in IntakeParams.Sends \cup {"direct"}
        PROVE  \E x : /\ call' = [call EXCEPT ![c] = x]
                      /\ x.op = "click" => x.arg \in IntakeParams.Sends
                      /\ x.op = "sale"
                           => x.arg \in IntakeParams.Sends \cup {"direct"}
    <3> DEFINE r == [op |-> op, arg |-> arg, at |-> step, found |-> FALSE]
    <3>1. call' = [call EXCEPT ![c] = r]
      BY <2>1 DEF Intake!Arrive
    <3>2. r.op = op /\ r.arg = arg
      OBVIOUS
    <3> QED
      BY <2>1, <3>1, <3>2
  <2>2. \/ \E o, arg : \/ Intake!Arrive(c, "subscribe", arg, "find", o)
                       \/ Intake!Arrive(c, "unsubscribe", arg, "set", o)
                       \/ Intake!Arrive(c, "view", arg, "find", o)
        \/ \E s \in IntakeParams.Sends :
             Intake!Arrive(c, "click", s, "flip", TRUE)
        \/ \E s \in IntakeParams.Sends \cup {"direct"} :
             Intake!Arrive(c, "sale", s, "create", TRUE)
    BY Zenon DEF Intake!Request
  <2> QED
    BY <2>1, <2>2
<1>2. /\ calls < IntakeParams.MaxCalls /\ calls' = calls + 1
      /\ UNCHANGED <<welcomed, views, clicked, leadClicks, campClicks, revenue,
                     lost, faults>>
  BY DEF Intake!Request, Intake!Arrive, Intake!rows
<1>3. /\ call \in [IntakeParams.Calls -> CallShape]
      /\ call'[c] = x
      /\ \A d \in IntakeParams.Calls \ {c} : call'[d] = call[d]
  BY <1>1 DEF IntakeInv, IntakeTyped
<1>4. Busy' \subseteq Busy \cup {c} /\ Uncounted' \subseteq Uncounted \cup {c}
  BY <1>3 DEF Busy, Uncounted
<1>5. ASSUME NEW A, NEW B, IsFiniteSet(A), B \subseteq A \cup {c}
      PROVE  /\ Cardinality(A) \in Nat /\ Cardinality(B) \in Nat
             /\ Cardinality(B) <= Cardinality(A) + 1
  <2>1. IsFiniteSet(A \cup {c})
          /\ Cardinality(A \cup {c}) <= Cardinality(A) + 1
    <3>1. CASE c \in A
      <4>1. A \cup {c} = A
        BY <3>1
      <4>2. Cardinality(A) \in Nat
        BY <1>5, FS_CardinalityType
      <4> QED
        BY <1>5, <4>1, <4>2
    <3>2. CASE c \notin A
      BY <1>5, <3>2, Joins
    <3> QED
      BY <3>1, <3>2
  <2>2. /\ Cardinality(A) \in Nat /\ Cardinality(B) \in Nat
        /\ Cardinality(A \cup {c}) \in Nat
        /\ Cardinality(B) <= Cardinality(A \cup {c})
    BY <1>5, <2>1, FS_Subset, FS_CardinalityType
  <2> QED
    BY <2>1, <2>2
<1>6. /\ Cardinality(Busy) \in Nat /\ Cardinality(Busy') \in Nat
      /\ Cardinality(Busy') <= Cardinality(Busy) + 1
      /\ Cardinality(Uncounted) \in Nat /\ Cardinality(Uncounted') \in Nat
      /\ Cardinality(Uncounted') <= Cardinality(Uncounted) + 1
  BY <1>4, <1>5, BusyFinite
<1>7. calls \in Nat /\ IntakeParams.MaxCalls \in Nat
  BY DEF IntakeBounds, Intake!IntakeAssumption
<1>8. /\ \A n \in Nat : Paid(n, Busy) => n + Cardinality(Busy') <= calls'
      /\ \A n \in Nat :
           Paid(n, Uncounted) => n + Cardinality(Uncounted') <= calls'
  BY <1>2, <1>6, <1>7 DEF Paid
<1>9. /\ \A b \in IntakeParams.Browsers : welcomed[b] \in Nat
      /\ \A p \in IntakeParams.Paths : views[p] \in Nat
      /\ \A s \in IntakeParams.Sends \cup {"direct"} : revenue[s] \in Nat
      /\ leadClicks \in Nat /\ campClicks \in Nat
  BY DEF IntakeInv, IntakeTyped, IntakeBounds
<1>10. \A d \in IntakeParams.Calls :
         /\ call'[d].op = "click" => call'[d].arg \in IntakeParams.Sends
         /\ call'[d].op = "sale"
              => call'[d].arg \in IntakeParams.Sends \cup {"direct"}
  BY <1>1, <1>3 DEF IntakeBounds
<1>11. calls' \in 0..IntakeParams.MaxCalls
  BY <1>2, <1>7 DEF IntakeBounds
<1> QED
  BY <1>2, <1>8, <1>9, <1>10, <1>11 DEF IntakeBounds, Paid

\* Requests are cut off: each of them can lose one of each count.
LEMMA CallsAreLost ==
  ASSUME Intake!IntakeAssumption, IntakeInv, IntakeBounds,
         \/ Intake!Restart
         \/ \E c \in IntakeParams.Calls : Intake!Fault(c)
  PROVE  IntakeBounds'
<1>1. PICK D \in SUBSET IntakeParams.Calls :
        /\ lost' = Intake!Losses(D)
        /\ \A d \in IntakeParams.Calls : call'[d] \in {call[d], Intake!Idle}
  <2>1. CASE Intake!Restart
    BY <2>1 DEF Intake!Restart
  <2>2. ASSUME NEW c \in IntakeParams.Calls, Intake!Fault(c)
        PROVE  /\ lost' = Intake!Losses({c})
               /\ \A d \in IntakeParams.Calls :
                    call'[d] \in {call[d], Intake!Idle}
    BY <2>2 DEF Intake!Fault, Intake!Answer, IntakeInv, IntakeTyped
  <2> QED
    BY <2>1, <2>2
<1>2. /\ faults < IntakeParams.MaxFaults /\ faults' = faults + 1
      /\ UNCHANGED <<welcomed, views, clicked, leadClicks, campClicks, revenue,
                     calls>>
  BY DEF Intake!Restart, Intake!Fault, Intake!rows
<1>3. Busy' \subseteq Busy /\ Uncounted' \subseteq Uncounted
  BY <1>1 DEF Busy, Uncounted
<1>4. /\ \A n \in Nat : Paid(n, Busy) => n + Cardinality(Busy') <= calls'
      /\ \A n \in Nat :
           Paid(n, Uncounted) => n + Cardinality(Uncounted') <= calls'
  BY <1>2, <1>3, Settled
<1>5. /\ \A b \in IntakeParams.Browsers : welcomed[b] \in Nat
      /\ \A p \in IntakeParams.Paths : views[p] \in Nat
      /\ \A s \in IntakeParams.Sends \cup {"direct"} : revenue[s] \in Nat
      /\ leadClicks \in Nat /\ campClicks \in Nat
  BY DEF IntakeInv, IntakeTyped, IntakeBounds
<1>6. \A d \in IntakeParams.Calls :
        /\ call'[d].op = "click" => call'[d].arg \in IntakeParams.Sends
        /\ call'[d].op = "sale"
             => call'[d].arg \in IntakeParams.Sends \cup {"direct"}
  <2>1. Intake!Idle.op = "idle"
    BY DEF Intake!Idle
  <2> QED
    BY <1>1, <2>1 DEF IntakeBounds
<1>7. faults \in Nat /\ IntakeParams.MaxFaults \in Nat
  BY DEF IntakeBounds, Intake!IntakeAssumption
<1>8. \A w \in {"welcome", "lead", "campaign"} :
        lost'[w] <= faults' * Cardinality(IntakeParams.Calls)
  <2>1. ASSUME NEW w \in {"welcome", "lead", "campaign"}
        PROVE  \E A \in SUBSET IntakeParams.Calls :
                 lost'[w] = lost[w] + Cardinality(A)
    <3>1. /\ lost \in [{"welcome", "lead", "campaign"} -> Nat]
          /\ \A A : Intake!Cardinality(A) = Cardinality(A)
      BY IntakeSets DEF IntakeInv, IntakeTyped
    <3>2. /\ lost'["welcome"] = lost["welcome"]
               + Cardinality(D \cap Intake!UnderWay("subscribe", {"welcome"}))
          /\ lost'["lead"] = lost["lead"]
               + Cardinality(D \cap Intake!UnderWay("click", {"lead"}))
          /\ lost'["campaign"] = lost["campaign"]
               + Cardinality(
                   D \cap Intake!UnderWay("click", {"lead", "campaign"}))
      BY <1>1, <3>1 DEF Intake!Losses
    <3>3. \A B : D \cap B \in SUBSET IntakeParams.Calls
      OBVIOUS
    <3> QED
      BY <2>1, <3>2, <3>3
  <2>2. ASSUME NEW w \in {"welcome", "lead", "campaign"}
        PROVE  lost'[w] <= faults' * Cardinality(IntakeParams.Calls)
    <3>1. PICK A \in SUBSET IntakeParams.Calls :
            lost'[w] = lost[w] + Cardinality(A)
      BY <2>1, <2>2
    <3>2. /\ Cardinality(A) \in Nat /\ Cardinality(IntakeParams.Calls) \in Nat
          /\ Cardinality(A) <= Cardinality(IntakeParams.Calls)
      BY SomeCalls
    <3>3. /\ lost[w] \in Nat
          /\ lost[w] <= faults * Cardinality(IntakeParams.Calls)
      BY <2>2 DEF IntakeInv, IntakeTyped, IntakeBounds
    <3>4. lost[w] + Cardinality(A)
            <= (faults + 1) * Cardinality(IntakeParams.Calls)
      BY <1>7, <3>2, <3>3, OneFault
    <3> QED
      BY <1>2, <3>1, <3>4
  <2> QED
    BY <2>2
<1>9. faults' \in 0..IntakeParams.MaxFaults
  BY <1>2, <1>7 DEF IntakeBounds
<1> QED
  BY <1>2, <1>4, <1>5, <1>6, <1>8, <1>9 DEF IntakeBounds, Paid

LEMMA IntakeBoundsStep ==
  ASSUME Intake!IntakeAssumption, IntakeInv, IntakeBounds,
         [Intake!Next]_(Intake!vars)
  PROVE  IntakeBounds'
<1>1. ASSUME NEW c \in IntakeParams.Calls,
             \/ Intake!Request(c) \/ Intake!FindLead(c) \/ Intake!Upsert(c)
             \/ Intake!Welcome(c) \/ Intake!Unsubscribe(c)
             \/ Intake!FindPage(c)
             \/ Intake!AddView(c) \/ Intake!CountPages(c)
             \/ Intake!CreatePage(c)
             \/ Intake!Flip(c) \/ Intake!CountLead(c)
             \/ Intake!CountCampaign(c)
             \/ Intake!Sale(c)
      PROVE  IntakeBounds'
  BY <1>1, CallArrives, CallQuiet, CallCounts, LeadCounts
<1>2. CASE UNCHANGED Intake!vars
  BY <1>2 DEF Intake!vars, IntakeBounds, Paid, Busy, Uncounted
<1> QED
  BY <1>1, <1>2, CallsAreLost DEF Intake!Next

LEMMA IntakeTypesHold ==
  ASSUME Intake!IntakeAssumption, IntakeInv, IntakeBounds
  PROVE  Intake!TypeOK
<1>1. /\ calls \in 0..IntakeParams.MaxCalls
      /\ faults \in 0..IntakeParams.MaxFaults
      /\ IntakeParams.MaxCalls \in Nat /\ IntakeParams.MaxFaults \in Nat
      /\ Cardinality(Busy) \in Nat /\ Cardinality(Uncounted) \in Nat
      /\ Cardinality(IntakeParams.Calls) \in Nat
      /\ Intake!Cardinality(IntakeParams.Calls)
           = Cardinality(IntakeParams.Calls)
  BY BusyFinite, IntakeSets DEF IntakeBounds, Intake!IntakeAssumption
<1>2. /\ \A n \in Nat : Paid(n, Busy) => n \in 0..IntakeParams.MaxCalls
      /\ \A n \in Nat : Paid(n, Uncounted) => n \in 0..IntakeParams.MaxCalls
  BY <1>1 DEF Paid
<1>3. welcomed \in [IntakeParams.Browsers -> 0..IntakeParams.MaxCalls]
  BY <1>2 DEF IntakeInv, IntakeTyped, IntakeBounds
<1>4. /\ views \in [IntakeParams.Paths -> 0..IntakeParams.MaxCalls]
      /\ intakeTold = views
  BY <1>2 DEF IntakeInv, IntakeTyped, IntakeBounds, PagesKept
<1>5. revenue
        \in [IntakeParams.Sends \cup {"direct"} -> 0..IntakeParams.MaxCalls]
  BY <1>2 DEF IntakeBounds
<1>6. leadClicks \in 0..IntakeParams.MaxCalls
        /\ campClicks \in 0..IntakeParams.MaxCalls
  BY <1>2 DEF IntakeInv, IntakeTyped, IntakeBounds
<1>7. lost \in [{"welcome", "lead", "campaign"} ->
                 0..IntakeParams.MaxFaults
                   * Intake!Cardinality(IntakeParams.Calls)]
  <2>1. faults * Cardinality(IntakeParams.Calls)
          <= IntakeParams.MaxFaults * Cardinality(IntakeParams.Calls)
    BY <1>1, FaultsBound
  <2>2. /\ faults * Cardinality(IntakeParams.Calls) \in Nat
        /\ IntakeParams.MaxFaults * Cardinality(IntakeParams.Calls) \in Nat
    BY <1>1
  <2>3. \A w \in {"welcome", "lead", "campaign"} :
          lost[w] \in Nat
            /\ lost[w] <= faults * Cardinality(IntakeParams.Calls)
    BY DEF IntakeInv, IntakeTyped, IntakeBounds
  <2>4. \A w \in {"welcome", "lead", "campaign"} :
          lost[w]
            \in 0..IntakeParams.MaxFaults * Cardinality(IntakeParams.Calls)
    BY <2>1, <2>2, <2>3
  <2> QED
    BY <1>1, <2>4 DEF IntakeInv, IntakeTyped
<1> QED
  BY <1>1, <1>3, <1>4, <1>5, <1>6, <1>7
     DEF Intake!TypeOK, IntakeInv, IntakeTyped, IntakeBounds, CallShape

-----------------------------------------------------------------------------
\* The snippet in a browser (pushvault.ts:11-1181).

\* What the browser and the server keep.
BrowserTypes ==
  /\ cfg \in ScriptParams.Owners /\ choice \in {"none", "no", "subscribed"}
  /\ seen \in BOOLEAN /\ pushSub \in BOOLEAN
  /\ permission \in {"default", "granted", "denied"}
  /\ scriptLead \in {"none", "active", "unsubscribed"}
  /\ loads \in 0..ScriptParams.MaxLoads

LEMMA BrowserInit == Script!OptInAssumption /\ Script!Init => BrowserTypes
<1>1. Script!OptInAssumption => 0 \in 0..ScriptParams.MaxLoads
  BY DEF Script!OptInAssumption
<1> QED
  BY <1>1 DEF Script!Init, BrowserTypes

LEMMA BrowserStep ==
  ASSUME Script!OptInAssumption, BrowserTypes, [Script!Next]_(Script!vars)
  PROVE  BrowserTypes'
<1>1. ASSUME cfg' = cfg, choice' \in {choice, "none", "no", "subscribed"},
             seen' \in BOOLEAN, pushSub' \in BOOLEAN,
             permission' \in {permission, "default", "granted", "denied"},
             scriptLead' \in {scriptLead, "active", "unsubscribed"},
             loads' \in 0..ScriptParams.MaxLoads
      PROVE  BrowserTypes'
  BY <1>1 DEF BrowserTypes
<1>2. CASE UNCHANGED <<cfg, choice, seen, permission, pushSub, scriptLead,
                       loads>>
  BY <1>2 DEF BrowserTypes
<1>3. ASSUME NEW t \in ScriptParams.Tabs, Script!Load(t) PROVE BrowserTypes'
  <2>1. loads' \in 0..ScriptParams.MaxLoads
    BY <1>3 DEF Script!Load, BrowserTypes, Script!OptInAssumption
  <2> QED
    BY <1>3, <2>1
       DEF Script!Load, Script!storage, Script!browser, BrowserTypes
<1>4. ASSUME NEW t \in ScriptParams.Tabs,
             NEW found \in BOOLEAN, NEW match \in BOOLEAN,
             Script!Configured(t, found, match)
      PROVE  BrowserTypes'
  <2>1. seen' \in BOOLEAN
    BY <1>4 DEF Script!Configured, BrowserTypes
  <2> QED
    BY <1>4, <2>1 DEF Script!Configured, Script!browser, BrowserTypes
<1>5. ASSUME NEW t \in ScriptParams.Tabs,
             \/ Script!Close(t) \/ Script!Trigger(t) \/ Script!Human(t)
             \/ Script!FarmAnswer(t) \/ Script!FarmTimer(t)
             \/ Script!TurnstileAnswer(t) \/ Script!TurnstileTimer(t)
             \/ Script!Reask(t) \/ Script!ApiSubscribe(t)
      PROVE  BrowserTypes'
  <2>1. UNCHANGED <<cfg, Script!storage, Script!browser, loads>>
    BY <1>5
       DEF Script!Close, Script!Trigger, Script!Human, Script!FarmAnswer,
       Script!FarmTimer, Script!TurnstileAnswer, Script!TurnstileTimer,
       Script!Settle, Script!Reask, Script!ApiSubscribe
  <2> QED
    BY <1>2, <2>1 DEF Script!storage, Script!browser
<1>6. ASSUME NEW t \in ScriptParams.Tabs, NEW p \in Script!Prompts,
             Script!No(t, p) \/ Script!AutoClose(t, p) \/ Script!Yes(t, p)
      PROVE  BrowserTypes'
  <2>1. choice' \in {choice, "no"}
          /\ UNCHANGED <<cfg, seen, Script!browser, loads>>
    BY <1>6
       DEF Script!No, Script!AutoClose, Script!Yes, Script!Refuse,
       Script!storage
  <2> QED
    BY <1>1, <2>1 DEF Script!browser, BrowserTypes
<1>7. ASSUME NEW t \in ScriptParams.Tabs,
             Script!Asked(t) \/ Script!Worker(t) \/ Script!Post(t)
               \/ Script!Accepted(t) \/ Script!Leave(t)
      PROVE  BrowserTypes'
  <2>1. CASE Script!Asked(t)
    <3>1. permission' \in {permission, "default", "granted", "denied"}
            /\ choice' \in {choice, "no"}
      BY <2>1 DEF Script!Asked
    <3> QED
      BY <2>1, <3>1 DEF Script!Asked, BrowserTypes
  <2>2. CASE Script!Worker(t)
    <3>1. pushSub' \in BOOLEAN
      BY <2>2 DEF Script!Worker, BrowserTypes
    <3> QED
      BY <2>2, <3>1 DEF Script!Worker, Script!storage, BrowserTypes
  <2>3. CASE Script!Post(t)
    <3>1. scriptLead' \in {scriptLead, "active"}
      BY <2>3 DEF Script!Post
    <3> QED
      BY <2>3, <3>1 DEF Script!Post, Script!storage, BrowserTypes
  <2>4. CASE Script!Accepted(t)
    BY <2>4 DEF Script!Accepted, Script!browser, BrowserTypes
  <2>5. CASE Script!Leave(t)
    <3>1. /\ scriptLead' \in {scriptLead, "unsubscribed"}
          /\ pushSub' \in {pushSub, FALSE} /\ choice' \in {choice, "none"}
      BY <2>5 DEF Script!Leave
    <3> QED
      BY <2>5, <3>1 DEF Script!Leave, BrowserTypes
  <2> QED
    BY <1>7, <2>1, <2>2, <2>3, <2>4, <2>5
<1>8. CASE UNCHANGED Script!vars
  BY <1>2, <1>8 DEF Script!vars
<1> QED
  BY <1>3, <1>4, <1>5, <1>6, <1>7, <1>8 DEF Script!Next

LEMMA ScriptTyped == ScriptInv /\ BrowserTypes => Script!TypeOK
BY DEF ScriptInv, BrowserTypes, Script!TypeOK

-----------------------------------------------------------------------------
\* The task pool (task-pool.ts:6-60).

PoolTypes ==
  /\ poolClock \in 0..PoolParams.MaxClock
  /\ interval \in PoolParams.Intervals
  /\ slots \in Seq([at : Nat, pace : PoolParams.Intervals])
  /\ changes \in 0..PoolParams.MaxChanges

LEMMA PoolTypesInit == Pool!PoolAssumption /\ Pool!Init => PoolTypes
BY DEF Pool!PoolAssumption, Pool!Init, PoolTypes

LEMMA PoolTypesStep ==
  ASSUME Pool!PoolAssumption, PoolInv, PoolTypes, [Pool!Next]_(Pool!vars)
  PROVE  PoolTypes'
<1>1. CASE Pool!Tick
  BY <1>1 DEF Pool!Tick, PoolTypes, Pool!PoolAssumption
<1>2. ASSUME NEW i \in PoolParams.Intervals, Pool!SetPerMinute(i)
      PROVE  PoolTypes'
  BY <1>2 DEF Pool!SetPerMinute, PoolTypes, Pool!PoolAssumption
<1>3. ASSUME NEW t \in PoolParams.Tasks,
             Pool!Add(t) \/ Pool!Wake(t) \/ Pool!End(t)
      PROVE  PoolTypes'
  BY <1>3 DEF Pool!Add, Pool!Wake, Pool!End, PoolTypes
<1>4. ASSUME NEW t \in PoolParams.Tasks, Pool!Wait(t) PROVE PoolTypes'
  <2>1. Pool!Reserved \in Nat
    BY DEF Pool!Reserved, PoolInv, Timed
  <2>2. [at |-> Pool!Reserved, pace |-> interval]
          \in [at : Nat, pace : PoolParams.Intervals]
    BY <2>1 DEF PoolTypes
  <2>3. slots' = slots
          \/ slots' = Append(slots, [at |-> Pool!Reserved, pace |-> interval])
    BY <1>4 DEF Pool!Wait
  <2>4. slots' \in Seq([at : Nat, pace : PoolParams.Intervals])
    <3> DEFINE Slot == [at : Nat, pace : PoolParams.Intervals]
    <3>1. slots \in Seq(Slot)
      BY DEF PoolTypes
    <3>2. [at |-> Pool!Reserved, pace |-> interval] \in Slot
      BY <2>2
    <3> HIDE DEF Slot
    <3>3. slots' \in Seq(Slot)
      BY <2>3, <3>1, <3>2, AppendProperties
    <3> QED
      BY <3>3 DEF Slot
  <2> QED
    BY <1>4, <2>4 DEF Pool!Wait, PoolTypes
<1>5. CASE UNCHANGED Pool!vars
  BY <1>5 DEF Pool!vars, PoolTypes
<1> QED
  BY <1>1, <1>2, <1>3, <1>4, <1>5 DEF Pool!Next

LEMMA PoolTyped == PoolInv /\ PoolTypes => Pool!TypeOK
BY DEF PoolInv, Line, Orderly, Timed, PoolTypes, Pool!TypeOK

-----------------------------------------------------------------------------
\* The host updater (updates.service.ts:160-188, host-updater.sh:21-44).

LEMMA UpdateTypesInit ==
  ASSUME Update!UpdaterAssumption, Update!Init
  PROVE  Update!TypeOK
<1>1. 0 \in Update!Commits /\ 0 \in 0..UpdateParams.MaxApplies
        /\ 0 \in 0..UpdateParams.MaxKills
  BY DEF Update!UpdaterAssumption, Update!Commits
<1>2. "idle" \in Update!States
  BY DEF Update!States
<1> QED
  BY <1>1, <1>2 DEF Update!Init, Update!TypeOK

LEMMA UpdateTypesStep ==
  ASSUME Update!UpdaterAssumption, Update!TypeOK, [Update!Next]_(Update!vars)
  PROVE  Update!TypeOK'
<1>1. CASE Update!Commit
  BY <1>1
     DEF Update!TypeOK, Update!Commit, Update!hostVars, Update!pageVars,
     Update!UpdaterAssumption, Update!Commits
<1>2. ASSUME NEW p \in UpdateParams.Pages,
             Update!Click(p) \/ Update!Page(p) \/ Update!Poll(p)
      PROVE  Update!TypeOK'
  <2>1. "requested" \in Update!States
    BY DEF Update!States, Update!Busy
  <2>2. CASE Update!Click(p)
    BY <2>2
       DEF Update!TypeOK, Update!Click, Update!hostVars,
           Update!UpdaterAssumption
  <2>3. CASE Update!WriteStatus(p)
    BY <2>1, <2>3 DEF Update!TypeOK, Update!WriteStatus, Update!hostVars
  <2>4. CASE Update!WriteRequest(p)
    BY <2>1, <2>4 DEF Update!TypeOK, Update!WriteRequest, Update!hostVars
  <2>5. CASE Update!Poll(p)
    BY <2>5 DEF Update!TypeOK, Update!Poll, Update!hostVars
  <2> QED
    BY <1>2, <2>2, <2>3, <2>4, <2>5 DEF Update!Page
<1>3. ASSUME NEW s \in UpdateParams.Scripts,
             NEW q \in {"off", "seen"} \cup Update!Holding,
             updatePc' = [updatePc EXCEPT ![s] = q],
             lock' \in BOOLEAN, broken' \in BOOLEAN,
             updateRequest' \in BOOLEAN, updateStatus' \in Update!States,
             fetched' \in [UpdateParams.Scripts -> Update!Commits],
             deployed' \in Update!Commits,
             kills' \in 0..UpdateParams.MaxKills,
             UNCHANGED <<latest, Update!pageVars>>
      PROVE  Update!TypeOK'
  BY <1>3 DEF Update!TypeOK, Update!pageVars
<1>4. /\ {"off", "seen", "locked", "pull", "reset", "build", "final"}
           = {"off", "seen"} \cup Update!Holding
      /\ {"pulling", "building", "done", "failed"} \subseteq Update!States
  BY DEF Update!Holding, Update!States, Update!Busy
<1>5. ASSUME NEW s \in UpdateParams.Scripts,
             Update!Cron(s) \/ Update!TakeLock(s) \/ Update!Remove(s)
               \/ Update!GitFails(s) \/ Update!Exit(s)
      PROVE  Update!TypeOK'
  BY <1>3, <1>4, <1>5
     DEF Update!TypeOK, Update!Cron, Update!TakeLock, Update!Remove,
     Update!GitFails, Update!Exit
<1>6. ASSUME NEW s \in UpdateParams.Scripts, Update!Kill(s)
      PROVE  Update!TypeOK'
  <2>1. kills' \in 0..UpdateParams.MaxKills
    BY <1>6 DEF Update!TypeOK, Update!Kill, Update!UpdaterAssumption
  <2> QED
    BY <1>3, <1>4, <1>6, <2>1 DEF Update!TypeOK, Update!Kill
<1>7. ASSUME NEW s \in UpdateParams.Scripts,
             Update!Pulling(s) \/ Update!Reset(s) \/ Update!Build(s)
      PROVE  Update!TypeOK'
  <2>1. CASE Update!Pulling(s)
    BY <1>3, <1>4, <2>1 DEF Update!TypeOK, Update!Pulling
  <2>2. CASE Update!Reset(s)
    BY <1>3, <1>4, <2>2 DEF Update!TypeOK, Update!Reset
  <2>3. CASE Update!Build(s)
    BY <1>3, <1>4, <2>3, Zenon DEF Update!TypeOK, Update!Build
  <2> QED
    BY <1>7, <2>1, <2>2, <2>3
<1>8. CASE UNCHANGED Update!vars
  BY <1>8 DEF Update!vars, Update!TypeOK, Update!hostVars, Update!pageVars
<1> QED
  BY <1>1, <1>2, <1>5, <1>6, <1>7, <1>8 DEF Update!Next, Update!Run

-----------------------------------------------------------------------------
\* The designer of a campaign (CampaignDetail.tsx:24-1000,
\* campaigns.controller.ts:170-404).

\* No text is newer than the latest edit.
TextOK(v, n) ==
  /\ v.form.text <= n /\ v.flow.form.text <= n
  /\ \A c \in v.loaded : c.content.text <= n

\* The presses that are still to save.
StillToSave(v) == v.flow.stage \in {"patch", "patching"}
Unsaved == {p \in ConsoleParams.Pages : StillToSave(page[p])}

TextsKept ==
  /\ consoleRow.content.text <= consoleEdits
  /\ \A p \in ConsoleParams.Pages : TextOK(page[p], consoleEdits)
  /\ \A x \in ConsoleParams.Pages \cup {"timer"} :
       launch[x].form.text <= consoleEdits

\* Every save was a press, and what a launch has read was saved.
SavesPaid ==
  /\ IsFiniteSet(Unsaved)
  /\ consoleRow.saves + Cardinality(Unsaved) <= presses
  /\ \A x \in ConsoleParams.Pages \cup {"timer"} :
       launch[x].saves <= consoleRow.saves
  /\ took \in [from : {"draft", "paused"}, must : BOOLEAN, need : Nat,
               saves : Nat, same : BOOLEAN]
  /\ took.need <= consoleRow.saves /\ took.saves <= consoleRow.saves

CountsKept ==
  /\ consoleEdits \in 0..ConsoleParams.MaxEdits
  /\ presses \in 0..ConsoleParams.MaxPresses
  /\ losses \in 0..ConsoleParams.MaxLosses

ConsoleBounds == TextsKept /\ SavesPaid /\ CountsKept

\* A set with one more element.
LEMMA OneMoreElement ==
  ASSUME NEW A, NEW c, IsFiniteSet(A)
  PROVE  /\ IsFiniteSet(A \cup {c}) /\ Cardinality(A) \in Nat
         /\ Cardinality(A \cup {c}) \in Nat
         /\ Cardinality(A \cup {c}) <= Cardinality(A) + 1
<1>1. Cardinality(A) \in Nat
  BY FS_CardinalityType
<1>2. CASE c \in A
  <2>1. A \cup {c} = A
    BY <1>2
  <2>2. Cardinality(A) <= Cardinality(A) + 1
    BY <1>1
  <2> QED
    BY <1>1, <2>1, <2>2
<1>3. CASE c \notin A
  BY <1>1, <1>3, Joins
<1> QED
  BY <1>2, <1>3

LEMMA ConsoleBoundsInit ==
  ASSUME Console!ConsoleAssumption, Console!Init
  PROVE  ConsoleBounds
<1>1. /\ consoleRow.content.text = 0 /\ consoleRow.saves = 0
      /\ consoleEdits = 0 /\ presses = 0 /\ losses = 0
      /\ took = [from |-> "draft", must |-> FALSE, need |-> 0, saves |-> 0,
                 same |-> TRUE]
  BY DEF Console!Init
<1>2. ASSUME NEW p \in ConsoleParams.Pages
      PROVE  page[p].form.text = 0 /\ page[p].loaded = {}
               /\ page[p].flow = Console!NoFlow
  BY <1>1 DEF Console!Init
<1>3. /\ Console!NoFlow.form.text = 0 /\ Console!NoFlow.stage = "idle"
      /\ Console!NoLaunch.form.text = 0 /\ Console!NoLaunch.saves = 0
  BY DEF Console!NoFlow, Console!NoLaunch, Console!Blank
<1>4. \A x \in ConsoleParams.Pages \cup {"timer"} :
        launch[x] = Console!NoLaunch
  BY DEF Console!Init
<1>5. Unsaved = {}
  BY <1>2, <1>3 DEF Unsaved, StillToSave
<1>6. IsFiniteSet({}) /\ Cardinality({}) = 0
  BY FS_EmptySet
<1>7. TextsKept
  BY <1>1, <1>2, <1>3, <1>4 DEF TextsKept, TextOK
<1>8. SavesPaid
  BY <1>1, <1>3, <1>4, <1>5, <1>6 DEF SavesPaid
<1>9. CountsKept
  BY <1>1 DEF CountsKept, Console!ConsoleAssumption
<1> QED
  BY <1>7, <1>8, <1>9 DEF ConsoleBounds

\* The texts of a page whose press goes on.
LEMMA FlowTexts ==
  ASSUME NEW v \in PageShape, NEW n \in Nat, TextOK(v, n),
         NEW g \in Pressed, g.form.text <= n
  PROVE  LET w == [v EXCEPT !.flow = g]
         IN  /\ TextOK(w, n) /\ TextOK(Console!Asking(w), n)
             /\ w.flow = g /\ Console!Asking(w).flow = g
<1> DEFINE w == [v EXCEPT !.flow = g]
<1>1. /\ w \in PageShape /\ w.form = v.form /\ w.loaded = v.loaded
      /\ w.flow = g
  BY DEF PageShape
<1> HIDE DEF w
<1>2. /\ Console!Asking(w).form = w.form /\ Console!Asking(w).flow = w.flow
      /\ Console!Asking(w).loaded = w.loaded
  BY <1>1 DEF Console!Asking, PageShape
<1>3. TextOK(w, n) /\ TextOK(Console!Asking(w), n)
  BY <1>1, <1>2 DEF TextOK
<1> QED
  BY <1>1, <1>2, <1>3 DEF w

LEMMA StageTexts ==
  ASSUME NEW v \in PageShape, NEW n \in Nat, TextOK(v, n),
         NEW s \in {"patch", "patching", "patched", "confirm", "post",
                    "posting", "posted"}
  PROVE  LET w == [v EXCEPT !.flow.stage = s]
         IN  /\ TextOK(w, n) /\ TextOK(Console!Asking(w), n)
             /\ w.flow.stage = s /\ Console!Asking(w).flow.stage = s
<1> DEFINE g == [v.flow EXCEPT !.stage = s]
<1>1. v.flow \in Pressed /\ v.flow.form.text <= n
  BY DEF PageShape, TextOK
<1>2. /\ [v EXCEPT !.flow.stage = s] = [v EXCEPT !.flow = g]
      /\ g \in Pressed /\ g.form = v.flow.form /\ g.stage = s
  BY <1>1 DEF Pressed, PageShape
<1> HIDE DEF g
<1>3. /\ TextOK([v EXCEPT !.flow = g], n)
      /\ TextOK(Console!Asking([v EXCEPT !.flow = g]), n)
      /\ [v EXCEPT !.flow = g].flow = g
      /\ Console!Asking([v EXCEPT !.flow = g]).flow = g
  BY <1>1, <1>2, FlowTexts
<1> QED
  BY <1>2, <1>3

LEMMA NoFlowTexts ==
  ASSUME Console!ConsoleAssumption, NEW v \in PageShape, NEW n \in Nat,
         TextOK(v, n)
  PROVE  LET w == [v EXCEPT !.flow = Console!NoFlow]
         IN  /\ TextOK(w, n) /\ TextOK(Console!Asking(w), n)
             /\ w.flow.stage = "idle" /\ Console!Asking(w).flow.stage = "idle"
<1>1. Console!NoFlow \in Pressed /\ Console!NoFlow.stage = "idle"
  BY NoFlowOK
<1>2. Console!NoFlow.form.text = 0
  BY DEF Console!NoFlow, Console!Blank
<1>3. Console!NoFlow.form.text <= n
  BY <1>2
<1> QED
  BY <1>1, <1>3, FlowTexts

\* A step of one page.
LEMMA PageTexts ==
  ASSUME ConsoleInv, ConsoleBounds, NEW p \in ConsoleParams.Pages, NEW w,
         Console!Show(p, w), TextOK(w, consoleEdits'),
         consoleEdits' \in Nat, consoleEdits <= consoleEdits'
  PROVE  /\ \A q \in ConsoleParams.Pages : TextOK(page'[q], consoleEdits')
         /\ (StillToSave(w) => StillToSave(page[p]))
              => Unsaved' \subseteq Unsaved
         /\ Unsaved' \subseteq Unsaved \cup {p}
         /\ StillToSave(page[p]) /\ ~StillToSave(w) => Unsaved' = Unsaved \ {p}
<1>1. /\ page'[p] = w
      /\ \A q \in ConsoleParams.Pages \ {p} : page'[q] = page[q]
  BY DEF ConsoleInv, Console!Show
<1>2. ASSUME NEW q \in ConsoleParams.Pages
      PROVE  TextOK(page[q], consoleEdits')
  <2>1. TextOK(page[q], consoleEdits) /\ page[q] \in PageShape
          /\ consoleEdits \in Nat
    BY DEF ConsoleInv, ConsoleBounds, TextsKept
  <2>2. /\ page[q].form.text \in Nat /\ page[q].flow.form.text \in Nat
        /\ \A c \in page[q].loaded : c.content.text \in Nat
    BY <2>1, PageFields DEF Written
  <2> QED
    BY <2>1, <2>2 DEF TextOK
<1>3. \A q \in ConsoleParams.Pages : TextOK(page'[q], consoleEdits')
  BY <1>1, <1>2
<1> QED
  BY <1>1, <1>3 DEF Unsaved

\* The launches under way, and what the blast took over.
LEMMA LaunchesKept ==
  ASSUME ConsoleInv, ConsoleBounds, UNCHANGED <<launch, took>>,
         consoleEdits' \in Nat, consoleEdits <= consoleEdits',
         consoleRow'.saves \in Nat, consoleRow.saves <= consoleRow'.saves
  PROVE  /\ \A x \in ConsoleParams.Pages \cup {"timer"} :
              /\ launch'[x].form.text <= consoleEdits'
              /\ launch'[x].saves <= consoleRow'.saves
         /\ took' \in [from : {"draft", "paused"}, must : BOOLEAN, need : Nat,
                       saves : Nat, same : BOOLEAN]
         /\ took'.need <= consoleRow'.saves /\ took'.saves <= consoleRow'.saves
<1>1. consoleEdits \in Nat /\ consoleRow.saves \in Nat
  BY DEF ConsoleInv
<1>2. ASSUME NEW x \in ConsoleParams.Pages \cup {"timer"}
      PROVE  launch[x].form.text \in Nat /\ launch[x].saves \in Nat
  <2>1. launch[x] \in LaunchShape
    BY DEF ConsoleInv
  <2> QED
    BY <2>1 DEF LaunchShape, Written
<1>3. took \in [from : {"draft", "paused"}, must : BOOLEAN, need : Nat,
                saves : Nat, same : BOOLEAN]
  BY DEF ConsoleBounds, SavesPaid
<1>4. took.need \in Nat /\ took.saves \in Nat
  BY <1>3
<1> QED
  BY <1>1, <1>2, <1>3, <1>4 DEF ConsoleBounds, TextsKept, SavesPaid

\* A step of one page that starts no save.
LEMMA PageBounds ==
  ASSUME ConsoleInv, ConsoleBounds, CountsKept', NEW p \in ConsoleParams.Pages,
         UNCHANGED <<consoleRow, launch, took>>,
         consoleEdits <= consoleEdits', presses <= presses',
         NEW w, Console!Show(p, w), TextOK(w, consoleEdits'),
         StillToSave(w) => StillToSave(page[p])
  PROVE  ConsoleBounds'
<1>1. /\ consoleEdits \in Nat /\ consoleEdits' \in Nat
      /\ presses \in Nat /\ presses' \in Nat
      /\ consoleRow.saves \in Nat /\ consoleRow.content \in Written
      /\ consoleRow.content.text \in Nat
  BY DEF ConsoleInv, ConsoleBounds, CountsKept, Written
<1>2. /\ \A q \in ConsoleParams.Pages : TextOK(page'[q], consoleEdits')
      /\ Unsaved' \subseteq Unsaved
  BY <1>1, PageTexts
<1>3. /\ IsFiniteSet(Unsaved) /\ IsFiniteSet(Unsaved')
      /\ Cardinality(Unsaved) \in Nat /\ Cardinality(Unsaved') \in Nat
      /\ Cardinality(Unsaved') <= Cardinality(Unsaved)
  BY <1>2, FS_Subset, FS_CardinalityType DEF ConsoleBounds, SavesPaid
<1>4. consoleRow'.content.text <= consoleEdits'
  BY <1>1 DEF ConsoleBounds, TextsKept
<1>5. TextsKept'
  BY <1>1, <1>2, <1>4, LaunchesKept DEF TextsKept
<1>6. consoleRow'.saves + Cardinality(Unsaved') <= presses'
  BY <1>1, <1>3 DEF ConsoleBounds, SavesPaid
<1>7. SavesPaid'
  BY <1>1, <1>3, <1>6, LaunchesKept DEF SavesPaid
<1> QED
  BY <1>5, <1>7 DEF ConsoleBounds

\* What a page shows, loads or edits.
LEMMA ViewBounds ==
  ASSUME Console!ConsoleAssumption, ConsoleInv, ConsoleBounds,
         NEW p \in ConsoleParams.Pages,
         \/ Console!View(p)
         \/ \E chosen \in ConsoleParams.Leads : Console!Edit(p, chosen)
  PROVE  ConsoleBounds'
<1>0. /\ page[p] \in PageShape /\ TextOK(page[p], consoleEdits)
      /\ consoleEdits \in Nat /\ presses \in Nat
      /\ UNCHANGED <<consoleRow, launch, took, presses>>
  <2>1. page[p] \in PageShape /\ TextOK(page[p], consoleEdits)
          /\ consoleEdits \in Nat /\ presses \in Nat
    BY DEF ConsoleInv, ConsoleBounds, TextsKept, CountsKept
  <2>2. UNCHANGED <<consoleRow, launch, took, presses>>
    BY DEF Console!View, Console!Edit, Console!Counted, Console!LoadRead,
       Console!Loaded, Console!Poll, Console!Dropped, Console!counts
  <2> QED
    BY <2>1, <2>2
<1>1. CountsKept' /\ consoleEdits <= consoleEdits'
  <2>1. /\ \/ consoleEdits' = consoleEdits
           \/ /\ consoleEdits < ConsoleParams.MaxEdits
              /\ consoleEdits' = consoleEdits + 1
        /\ \/ losses' = losses
           \/ losses < ConsoleParams.MaxLosses /\ losses' = losses + 1
    BY DEF Console!View, Console!Edit, Console!Counted, Console!LoadRead,
       Console!Loaded, Console!Poll, Console!Dropped, Console!counts
  <2>2. ConsoleParams.MaxEdits \in Nat /\ ConsoleParams.MaxLosses \in Nat
    BY DEF Console!ConsoleAssumption
  <2> QED
    BY <1>0, <2>1, <2>2 DEF ConsoleBounds, CountsKept
<1>2. SUFFICES \E w : /\ Console!Show(p, w) /\ TextOK(w, consoleEdits')
                      /\ w.flow = page[p].flow
  <2>1. PICK w : /\ Console!Show(p, w) /\ TextOK(w, consoleEdits')
                 /\ w.flow = page[p].flow
    BY <1>2
  <2>2. StillToSave(w) => StillToSave(page[p]) /\ presses <= presses'
    BY <1>0, <2>1 DEF StillToSave
  <2>3. presses <= presses'
    BY <1>0
  <2> QED
    BY <1>0, <1>1, <2>1, <2>2, <2>3, PageBounds
<1>3. /\ page[p].form \in Written /\ page[p].form.text \in Nat
      /\ page[p].flow.form.text \in Nat
      /\ \A c \in page[p].loaded : c.content.text \in Nat
  BY <1>0, PageFields DEF Written
<1>4. ASSUME NEW chosen \in ConsoleParams.Leads, Console!Edit(p, chosen)
      PROVE  \E w : /\ Console!Show(p, w) /\ TextOK(w, consoleEdits')
                    /\ w.flow = page[p].flow
  <2> DEFINE n == consoleEdits + 1
             v == [page[p] EXCEPT !.form = [text |-> n, leads |-> chosen]]
  <2>1. /\ consoleEdits' = n /\ n \in Nat /\ consoleEdits <= n
        /\ \/ Console!Show(p, v)
           \/ Console!Show(p, Console!Recount(v, chosen))
    BY <1>0, <1>4 DEF Console!Edit
  <2> HIDE DEF n
  <2>2. /\ v \in PageShape /\ v.form = [text |-> n, leads |-> chosen]
        /\ v.flow = page[p].flow /\ v.loaded = page[p].loaded
    BY <1>0, <2>1 DEF PageShape, Written
  <2> HIDE DEF v
  <2>3. /\ Console!Recount(v, chosen).form = v.form
        /\ Console!Recount(v, chosen).flow = v.flow
        /\ Console!Recount(v, chosen).loaded = v.loaded
    BY <2>2 DEF Console!Recount, PageShape
  <2>4. TextOK(v, n) /\ TextOK(Console!Recount(v, chosen), n)
    BY <1>0, <1>3, <2>1, <2>2, <2>3 DEF TextOK
  <2> QED
    BY <2>1, <2>2, <2>3, <2>4
<1>5. ASSUME Console!Counted(p)
      PROVE  \E w : /\ Console!Show(p, w) /\ TextOK(w, consoleEdits')
                    /\ w.flow = page[p].flow
  <2>1. PICK c \in page[p].counting :
          Console!Show(p, [page[p] EXCEPT !.counting = @ \ {c},
                                  !.audience = IF c.stale THEN @ ELSE c.leads])
    BY <1>5 DEF Console!Counted
  <2> DEFINE w == [page[p] EXCEPT !.counting = @ \ {c},
                                  !.audience = IF c.stale THEN @ ELSE c.leads]
  <2>2. /\ w.form = page[p].form /\ w.flow = page[p].flow
        /\ w.loaded = page[p].loaded
    BY <1>0 DEF PageShape
  <2>3. consoleEdits' = consoleEdits
    BY <1>5 DEF Console!Counted, Console!counts
  <2> HIDE DEF w
  <2>4. TextOK(w, consoleEdits')
    BY <1>0, <2>2, <2>3 DEF TextOK
  <2> QED
    BY <2>1, <2>2, <2>4 DEF w
<1>6. ASSUME Console!LoadRead(p)
      PROVE  \E w : /\ Console!Show(p, w) /\ TextOK(w, consoleEdits')
                    /\ w.flow = page[p].flow
  <2> DEFINE answers == IF consoleRow.status = "gone" THEN page[p].loaded
                        ELSE page[p].loaded
                               \cup {[status |-> consoleRow.status,
                                 content |-> consoleRow.content]}
             w == [page[p] EXCEPT !.loads = FALSE, !.loaded = answers]
  <2>1. Console!Show(p, w) /\ consoleEdits' = consoleEdits
    BY <1>6 DEF Console!LoadRead, Console!counts
  <2>2. \A c \in answers : c.content.text <= consoleEdits
    BY <1>0 DEF TextOK, ConsoleBounds, TextsKept
  <2> HIDE DEF answers
  <2>3. w.form = page[p].form /\ w.flow = page[p].flow /\ w.loaded = answers
    BY <1>0 DEF PageShape
  <2> HIDE DEF w
  <2>4. TextOK(w, consoleEdits')
    BY <1>0, <2>1, <2>2, <2>3 DEF TextOK
  <2> QED
    BY <2>1, <2>3, <2>4
<1>7. ASSUME Console!Loaded(p)
      PROVE  \E w : /\ Console!Show(p, w) /\ TextOK(w, consoleEdits')
                    /\ w.flow = page[p].flow
  <2>1. PICK c \in page[p].loaded :
          Console!Show(p, Console!Recount(
            [page[p] EXCEPT !.loaded = @ \ {c},
                            !.known = c.status,
                            !.form = c.content],
            c.content.leads))
    BY <1>7 DEF Console!Loaded
  <2>2. c.status \in Console!Statuses /\ c.content \in Written
          /\ c.content.text <= consoleEdits
    BY <1>0, PageFields DEF TextOK
  <2> DEFINE v == [page[p] EXCEPT !.loaded = @ \ {c}, !.known = c.status,
                                  !.form = c.content]
             w == Console!Recount(v, c.content.leads)
  <2>3. /\ v \in PageShape /\ v.form = c.content /\ v.flow = page[p].flow
        /\ v.loaded = page[p].loaded \ {c}
    BY <1>0, <2>2 DEF PageShape
  <2> HIDE DEF v
  <2>4. w.form = v.form /\ w.flow = v.flow /\ w.loaded = v.loaded
    BY <2>3 DEF Console!Recount, PageShape
  <2>5. consoleEdits' = consoleEdits
    BY <1>7 DEF Console!Loaded, Console!counts
  <2> HIDE DEF w
  <2>6. TextOK(w, consoleEdits')
    BY <1>0, <2>2, <2>3, <2>4, <2>5 DEF TextOK
  <2> QED
    BY <2>1, <2>3, <2>4, <2>6 DEF v, w
<1>8. ASSUME \/ Console!Poll(p)
             \/ Console!Dropped(p)
      PROVE  \E w : /\ Console!Show(p, w) /\ TextOK(w, consoleEdits')
                    /\ w.flow = page[p].flow
  <2>1. PICK l \in BOOLEAN, left \in SUBSET page[p].loaded :
          \/ Console!Show(p, [page[p] EXCEPT !.loads = l])
          \/ Console!Show(p, [page[p] EXCEPT !.loaded = left])
    <3>1. CASE \E c \in page[p].loaded :
                 Console!Show(p, [page[p] EXCEPT !.loaded = @ \ {c}])
      <4>1. PICK c \in page[p].loaded :
                 Console!Show(p, [page[p] EXCEPT !.loaded = @ \ {c}])
        BY <3>1
      <4>2. Console!Show(p, [page[p] EXCEPT !.loaded = page[p].loaded \ {c}])
              /\ page[p].loaded \ {c} \in SUBSET page[p].loaded
        BY <4>1
      <4> QED
        BY <4>2
    <3>2. CASE \/ Console!Show(p, [page[p] EXCEPT !.loads = TRUE])
               \/ Console!Show(p, [page[p] EXCEPT !.loads = FALSE])
      BY <3>2
    <3> QED
      BY <1>8, <3>1, <3>2 DEF Console!Poll, Console!Asking, Console!Dropped
  <2>2. consoleEdits' = consoleEdits
    BY <1>8 DEF Console!Poll, Console!Dropped, Console!counts
  <2>3. ASSUME NEW w \in {[page[p] EXCEPT !.loads = l],
                          [page[p] EXCEPT !.loaded = left]}
        PROVE  TextOK(w, consoleEdits') /\ w.flow = page[p].flow
    <3>1. /\ w.form = page[p].form /\ w.flow = page[p].flow
          /\ w.loaded \in SUBSET page[p].loaded
      BY <1>0, <2>3 DEF PageShape
    <3> QED
      BY <1>0, <2>2, <3>1 DEF TextOK
  <2> QED
    BY <2>1, <2>3
<1> QED
  BY <1>4, <1>5, <1>6, <1>7, <1>8 DEF Console!View

\* The buttons that neither write the campaign nor start a launch.
LEMMA ButtonBounds ==
  ASSUME Console!ConsoleAssumption, ConsoleInv, ConsoleBounds,
         NEW p \in ConsoleParams.Pages,
         UNCHANGED <<consoleRow, launch>>,
         \/ Console!PatchRead(p) \/ Console!PatchWrite(p)
         \/ Console!PatchAnswer(p) \/ Console!PatchLost(p)
         \/ \E yes \in BOOLEAN : Console!Confirm(p, yes)
         \/ Console!PostRead(p) \/ Console!PostAnswer(p)
  PROVE  ConsoleBounds'
<1> DEFINE v == page[p]
<1>0. /\ v \in PageShape /\ TextOK(v, consoleEdits)
      /\ consoleEdits \in Nat /\ presses \in Nat
  BY DEF ConsoleInv, ConsoleBounds, TextsKept, CountsKept
<1>1. /\ took' = took /\ consoleEdits' = consoleEdits /\ presses' = presses
      /\ \/ losses' = losses
         \/ losses < ConsoleParams.MaxLosses /\ losses' = losses + 1
  BY DEF Console!PatchRead, Console!PatchWrite, Console!PatchAnswer,
     Console!PatchLost, Console!Confirm, Console!PostRead, Console!PostAnswer,
     Console!counts
<1>2. CountsKept' /\ consoleEdits <= consoleEdits' /\ presses <= presses'
  BY <1>0, <1>1 DEF ConsoleBounds, CountsKept, Console!ConsoleAssumption
<1>3. \/ Console!Show(p, [v EXCEPT !.flow = Console!NoFlow])
      \/ Console!Show(p, Console!Asking([v EXCEPT !.flow = Console!NoFlow]))
      \/ Console!Show(p, [v EXCEPT !.flow.stage = "patching"])
           /\ v.flow.stage = "patch"
      \/ Console!Show(p, [v EXCEPT !.flow.stage = "post"])
      \/ Console!Show(p, Console!Asking([v EXCEPT !.flow.stage = "confirm"]))
      \/ Console!Show(p, Console!Asking([v EXCEPT !.flow.stage = "post"]))
      \/ Console!Show(p, [v EXCEPT !.flow.stage = "posting"])
  <2>1. CASE Console!PatchWrite(p)
    <3>1. consoleRow.saves \in Nat
            /\ consoleRow \in [status : Console!Statuses, content : Written,
                               saves : Nat]
      BY DEF ConsoleInv
    <3>2. consoleRow.status = "gone"
      <4> SUFFICES ASSUME consoleRow.status # "gone" PROVE FALSE
        OBVIOUS
      <4>1. consoleRow' = [consoleRow EXCEPT !.content = page[p].flow.form,
                                             !.saves = consoleRow.saves + 1]
        BY <2>1 DEF Console!PatchWrite
      <4>2. consoleRow'.saves = consoleRow.saves + 1
        BY <3>1, <4>1
      <4> QED
        BY <3>1, <4>2
    <3> QED
      BY <2>1, <3>2 DEF Console!PatchWrite, Console!Fail
  <2>2. CASE ~Console!PatchWrite(p)
    BY <2>2 DEF Console!PatchRead, Console!PatchAnswer, Console!PatchLost,
       Console!Confirm, Console!PostRead, Console!PostAnswer, Console!To,
       Console!Fail, Console!Finish, Console!At
  <2> QED
    BY <2>1, <2>2
<1>4. PICK w : /\ Console!Show(p, w) /\ TextOK(w, consoleEdits)
               /\ StillToSave(w) => StillToSave(v)
  <2>1. LET w == [v EXCEPT !.flow = Console!NoFlow]
        IN  /\ TextOK(w, consoleEdits)
            /\ TextOK(Console!Asking(w), consoleEdits)
            /\ ~StillToSave(w) /\ ~StillToSave(Console!Asking(w))
    BY <1>0, NoFlowTexts DEF StillToSave
  <2>3. LET w == [v EXCEPT !.flow.stage = "patching"]
        IN  /\ TextOK(w, consoleEdits)
            /\ v.flow.stage = "patch" => StillToSave(v)
    BY <1>0, StageTexts DEF StillToSave
  <2>4. LET w == [v EXCEPT !.flow.stage = "post"]
        IN  /\ TextOK(w, consoleEdits)
            /\ TextOK(Console!Asking(w), consoleEdits)
            /\ ~StillToSave(w) /\ ~StillToSave(Console!Asking(w))
    BY <1>0, StageTexts DEF StillToSave
  <2>5. LET w == [v EXCEPT !.flow.stage = "confirm"]
        IN  /\ TextOK(Console!Asking(w), consoleEdits)
            /\ ~StillToSave(Console!Asking(w))
    BY <1>0, StageTexts DEF StillToSave
  <2>6. LET w == [v EXCEPT !.flow.stage = "posting"]
        IN  TextOK(w, consoleEdits) /\ ~StillToSave(w)
    BY <1>0, StageTexts DEF StillToSave
  <2> HIDE DEF v
  <2> QED
    BY <1>3, <2>1, <2>3, <2>4, <2>5, <2>6
<1> QED
  BY <1>1, <1>2, <1>4, PageBounds

\* A press with what the form says.
LEMMA PressBounds ==
  ASSUME Console!ConsoleAssumption, ConsoleInv, ConsoleBounds,
         NEW p \in ConsoleParams.Pages, NEW op \in Console!Ops,
         Console!Press(p, op)
  PROVE  ConsoleBounds'
<1> DEFINE first == IF Console!Saves(p, op) THEN "patch"
                    ELSE IF op = "send" THEN "confirm" ELSE "post"
           g == [op |-> op, form |-> page[p].form,
                 audience |-> page[p].audience,
                 saved |-> 0, stage |-> first]
           w == [page[p] EXCEPT !.flow = g]
<1>1. /\ page[p] \in PageShape /\ TextOK(page[p], consoleEdits)
      /\ page[p].form \in Written /\ page[p].form.text \in Nat
      /\ page[p].audience \in ConsoleParams.Leads \cup {"?"}
      /\ consoleEdits \in Nat /\ presses \in Nat
      /\ consoleRow.saves \in Nat /\ consoleRow.content.text \in Nat
  <2>1. page[p] \in PageShape /\ TextOK(page[p], consoleEdits)
    BY DEF ConsoleInv, ConsoleBounds, TextsKept
  <2>2. consoleRow.saves \in Nat /\ consoleRow.content \in Written
          /\ consoleEdits \in Nat /\ presses \in Nat
    BY DEF ConsoleInv, ConsoleBounds, CountsKept
  <2> QED
    BY <2>1, <2>2, PageFields DEF Written
<1>2. /\ Console!Show(p, w) /\ presses < ConsoleParams.MaxPresses
      /\ presses' = presses + 1
      /\ UNCHANGED <<consoleRow, launch, took, consoleEdits, losses>>
  BY DEF Console!Press
<1>3. first \in {"patch", "confirm", "post"}
  OBVIOUS
<1> HIDE DEF first
<1>4. g \in Pressed /\ g.form.text <= consoleEdits
  BY <1>1, <1>3 DEF Pressed, TextOK
<1> HIDE DEF g
<1>5. TextOK(w, consoleEdits)
  BY <1>1, <1>4, FlowTexts
<1> HIDE DEF w
<1>6. /\ \A q \in ConsoleParams.Pages : TextOK(page'[q], consoleEdits')
      /\ Unsaved' \subseteq Unsaved \cup {p}
  BY <1>1, <1>2, <1>5, PageTexts
<1>7. /\ IsFiniteSet(Unsaved') /\ Cardinality(Unsaved) \in Nat
      /\ Cardinality(Unsaved') \in Nat
      /\ Cardinality(Unsaved') <= Cardinality(Unsaved) + 1
  <2>1. IsFiniteSet(Unsaved) /\ Cardinality(Unsaved) \in Nat
    BY FS_CardinalityType DEF ConsoleBounds, SavesPaid
  <2>2. IsFiniteSet(Unsaved \cup {p})
          /\ Cardinality(Unsaved \cup {p}) <= Cardinality(Unsaved) + 1
    BY <2>1, OneMoreElement
  <2>3. /\ IsFiniteSet(Unsaved') /\ Cardinality(Unsaved') \in Nat
        /\ Cardinality(Unsaved \cup {p}) \in Nat
        /\ Cardinality(Unsaved') <= Cardinality(Unsaved \cup {p})
    BY <1>6, <2>2, FS_Subset, FS_CardinalityType
  <2> QED
    BY <2>1, <2>2, <2>3
<1>8. /\ \A x \in ConsoleParams.Pages \cup {"timer"} :
           /\ launch'[x].form.text <= consoleEdits'
           /\ launch'[x].saves <= consoleRow'.saves
      /\ took' \in [from : {"draft", "paused"}, must : BOOLEAN, need : Nat,
                    saves : Nat, same : BOOLEAN]
      /\ took'.need <= consoleRow'.saves /\ took'.saves <= consoleRow'.saves
  <2>1. consoleEdits <= consoleEdits' /\ consoleRow.saves <= consoleRow'.saves
    BY <1>1, <1>2
  <2> QED
    BY <1>1, <1>2, <2>1, LaunchesKept
<1>9. TextsKept'
  BY <1>2, <1>6, <1>8 DEF TextsKept, ConsoleBounds
<1>10. SavesPaid'
  <2>1. consoleRow'.saves + Cardinality(Unsaved') <= presses'
    BY <1>1, <1>2, <1>7 DEF ConsoleBounds, SavesPaid
  <2> QED
    BY <1>7, <1>8, <2>1 DEF SavesPaid
<1>11. CountsKept'
  BY <1>1, <1>2 DEF ConsoleBounds, CountsKept, Console!ConsoleAssumption
<1> QED
  BY <1>9, <1>10, <1>11 DEF ConsoleBounds

\* The form is written: one press less that is still to save.
LEMMA SaveBounds ==
  ASSUME Console!ConsoleAssumption, ConsoleInv, ConsoleBounds,
         NEW p \in ConsoleParams.Pages, Console!PatchWrite(p),
         consoleRow.status # "gone"
  PROVE  ConsoleBounds'
<1> DEFINE f == page[p].flow
           n == consoleRow.saves + 1
           g == [f EXCEPT !.stage = "patched", !.saved = n]
           w == [page[p] EXCEPT !.flow.stage = "patched", !.flow.saved = n]
<1>1. /\ page[p] \in PageShape /\ TextOK(page[p], consoleEdits)
      /\ f \in Pressed /\ f.form \in Written /\ f.form.text <= consoleEdits
      /\ consoleEdits \in Nat /\ presses \in Nat /\ consoleRow.saves \in Nat
      /\ consoleRow
           \in [status : Console!Statuses, content : Written, saves : Nat]
  <2>1. page[p] \in PageShape /\ TextOK(page[p], consoleEdits)
    BY DEF ConsoleInv, ConsoleBounds, TextsKept
  <2>2. /\ consoleEdits \in Nat /\ presses \in Nat /\ consoleRow.saves \in Nat
        /\ consoleRow
             \in [status : Console!Statuses, content : Written, saves : Nat]
    BY DEF ConsoleInv, ConsoleBounds, CountsKept
  <2> QED
    BY <2>1, <2>2, PageFields DEF TextOK
<1>2. /\ consoleRow' = [consoleRow EXCEPT !.content = f.form, !.saves = n]
      /\ Console!Show(p, w) /\ f.stage = "patching"
      /\ UNCHANGED <<launch, took, consoleEdits, presses, losses>>
  BY DEF Console!PatchWrite, Console!At, Console!counts
<1>3. /\ consoleRow'.saves = n /\ consoleRow'.content = f.form /\ n \in Nat
      /\ consoleRow.saves <= n
  BY <1>1, <1>2
<1> HIDE DEF n
<1>4. g \in Pressed /\ g.form = f.form /\ g.stage = "patched"
  BY <1>1, <1>3 DEF Pressed
<1>5. w = [page[p] EXCEPT !.flow = g]
  BY <1>1 DEF PageShape, Pressed
<1> HIDE DEF g, w
<1>6. TextOK(w, consoleEdits) /\ w.flow = g
  BY <1>1, <1>4, <1>5, FlowTexts
<1>7. StillToSave(page[p]) /\ ~StillToSave(w)
  BY <1>2, <1>4, <1>6 DEF StillToSave
<1>8. /\ \A q \in ConsoleParams.Pages : TextOK(page'[q], consoleEdits')
      /\ Unsaved' = Unsaved \ {p}
  BY <1>1, <1>2, <1>6, <1>7, PageTexts
<1>9. /\ IsFiniteSet(Unsaved') /\ Cardinality(Unsaved') \in Nat
      /\ Cardinality(Unsaved) = Cardinality(Unsaved') + 1
  <2>1. IsFiniteSet(Unsaved) /\ p \in Unsaved
    BY <1>7 DEF ConsoleBounds, SavesPaid, Unsaved
  <2> QED
    BY <1>8, <2>1, Drops
<1>10. /\ \A x \in ConsoleParams.Pages \cup {"timer"} :
           /\ launch'[x].form.text <= consoleEdits'
           /\ launch'[x].saves <= consoleRow'.saves
      /\ took' \in [from : {"draft", "paused"}, must : BOOLEAN, need : Nat,
                    saves : Nat, same : BOOLEAN]
      /\ took'.need <= consoleRow'.saves /\ took'.saves <= consoleRow'.saves
  BY <1>1, <1>2, <1>3, LaunchesKept
<1>11. TextsKept'
  BY <1>1, <1>2, <1>3, <1>8, <1>10 DEF TextsKept
<1>12. SavesPaid'
  <2>1. consoleRow'.saves + Cardinality(Unsaved') <= presses'
    BY <1>1, <1>2, <1>3, <1>9 DEF ConsoleBounds, SavesPaid, n
  <2> QED
    BY <1>9, <1>10, <2>1 DEF SavesPaid
<1>13. CountsKept'
  BY <1>2 DEF ConsoleBounds, CountsKept
<1> QED
  BY <1>11, <1>12, <1>13 DEF ConsoleBounds

\* A step that neither saves nor presses.
LEMMA LaunchBounds ==
  ASSUME ConsoleInv, ConsoleBounds,
         UNCHANGED <<consoleEdits, presses, losses>>,
         consoleRow'.saves = consoleRow.saves,
         consoleRow'.content = consoleRow.content,
         \A q \in ConsoleParams.Pages : TextOK(page'[q], consoleEdits),
         Unsaved' \subseteq Unsaved,
         \A x \in ConsoleParams.Pages \cup {"timer"} :
           /\ launch'[x].form.text <= consoleEdits
           /\ launch'[x].saves <= consoleRow.saves,
         took' \in [from : {"draft", "paused"}, must : BOOLEAN, need : Nat,
                    saves : Nat, same : BOOLEAN],
         took'.need <= consoleRow.saves, took'.saves <= consoleRow.saves
  PROVE  ConsoleBounds'
<1>1. /\ IsFiniteSet(Unsaved) /\ IsFiniteSet(Unsaved')
      /\ Cardinality(Unsaved) \in Nat /\ Cardinality(Unsaved') \in Nat
      /\ Cardinality(Unsaved') <= Cardinality(Unsaved)
  BY FS_Subset, FS_CardinalityType DEF ConsoleBounds, SavesPaid
<1>2. TextsKept'
  BY DEF ConsoleBounds, TextsKept
<1>3. SavesPaid'
  <2>1. consoleRow.saves \in Nat /\ presses \in Nat
    BY DEF ConsoleInv, ConsoleBounds, CountsKept
  <2>2. consoleRow'.saves + Cardinality(Unsaved') <= presses'
    BY <1>1, <2>1 DEF ConsoleBounds, SavesPaid
  <2> QED
    BY <1>1, <2>2 DEF SavesPaid
<1>4. CountsKept'
  BY DEF ConsoleBounds, CountsKept
<1> QED
  BY <1>2, <1>3, <1>4 DEF ConsoleBounds

\* The runner reads the campaign, claims it and is done; the timer fires.
LEMMA ServerBounds ==
  ASSUME Console!ConsoleAssumption, ConsoleInv, ConsoleBounds, Console!Server
  PROVE  ConsoleBounds'
<1>0. /\ consoleRow
           \in [status : Console!Statuses, content : Written, saves : Nat]
      /\ consoleRow.saves \in Nat /\ consoleEdits \in Nat
      /\ launch \in [ConsoleParams.Pages \cup {"timer"} -> LaunchShape]
      /\ \A q \in ConsoleParams.Pages : TextOK(page[q], consoleEdits)
      /\ \A x \in ConsoleParams.Pages \cup {"timer"} :
           /\ launch[x].form.text <= consoleEdits
           /\ launch[x].saves <= consoleRow.saves
           /\ launch[x].need <= consoleRow.saves
      /\ took \in [from : {"draft", "paused"}, must : BOOLEAN, need : Nat,
                   saves : Nat, same : BOOLEAN]
      /\ took.need <= consoleRow.saves /\ took.saves <= consoleRow.saves
  BY DEF ConsoleInv, LaunchOK, ConsoleBounds, TextsKept, SavesPaid
<1>1. /\ UNCHANGED <<page, consoleEdits, presses, losses>>
      /\ \A q \in ConsoleParams.Pages : TextOK(page'[q], consoleEdits)
      /\ Unsaved' \subseteq Unsaved
  <2>1. UNCHANGED <<page, consoleEdits, presses, losses>>
    BY DEF Console!Server, Console!Timer, Console!BlastDone,
       Console!LaunchRead, Console!LaunchClaim, Console!counts
  <2> QED
    BY <1>0, <2>1 DEF Unsaved
<1>2. /\ consoleRow'.saves = consoleRow.saves
      /\ consoleRow'.content = consoleRow.content
  <2>1. consoleRow' = consoleRow
          \/ \E s : consoleRow' = [consoleRow EXCEPT !.status = s]
    BY DEF Console!Server, Console!Timer, Console!BlastDone,
       Console!LaunchRead, Console!LaunchClaim, Console!Status
  <2> QED
    BY <1>0, <2>1
<1>3. /\ Console!NoLaunch \in LaunchShape /\ Console!NoLaunch.form.text = 0
      /\ Console!NoLaunch.saves = 0
  <2>1. Console!NoLaunch.form.text = 0 /\ Console!NoLaunch.saves = 0
    BY DEF Console!NoLaunch, Console!Blank
  <2> QED
    BY <2>1, NoFlowOK
<1>4. \A x \in ConsoleParams.Pages \cup {"timer"} :
        /\ launch'[x].form.text <= consoleEdits
        /\ launch'[x].saves <= consoleRow.saves
  <2>1. SUFFICES ASSUME NEW y \in ConsoleParams.Pages \cup {"timer"}, NEW l,
                        launch' = [launch EXCEPT ![y] = l],
                        l.form.text \in {0, launch[y].form.text},
                        l.saves \in {0, launch[y].saves, consoleRow.saves}
                 PROVE  \A x \in ConsoleParams.Pages \cup {"timer"} :
                          /\ launch'[x].form.text <= consoleEdits
                          /\ launch'[x].saves <= consoleRow.saves
    <3>1. CASE launch' = launch
      BY <1>0, <3>1
    <3>2. CASE Console!Timer
      <4> DEFINE l == [Console!NoLaunch EXCEPT !.stage = "asked"]
      <4>1. launch' = [launch EXCEPT !["timer"] = l]
        BY <3>2 DEF Console!Timer
      <4>2. l.form.text = 0 /\ l.saves = 0
        BY <1>3 DEF LaunchShape
      <4> HIDE DEF l
      <4> QED
        BY <2>1, <4>1, <4>2
    <3>3. ASSUME NEW x \in ConsoleParams.Pages \cup {"timer"},
                 Console!LaunchRead(x) \/ Console!LaunchClaim(x)
          PROVE  \E l : /\ launch' = [launch EXCEPT ![x] = l]
                        /\ l.form.text \in {0, launch[x].form.text}
                        /\ l.saves \in {0, launch[x].saves, consoleRow.saves}
      <4> DEFINE r == [launch[x] EXCEPT !.stage = "read",
                         !.saves = consoleRow.saves,
                         !.same = consoleRow.content = launch[x].form]
      <4>1. launch[x] \in LaunchShape
        BY <1>0
      <4>2. r.form = launch[x].form /\ r.saves = consoleRow.saves
        BY <4>1 DEF LaunchShape
      <4>3. \/ launch' = [launch EXCEPT ![x] = r]
            \/ launch' = [launch EXCEPT ![x] = Console!NoLaunch]
        BY <1>0, <3>3 DEF Console!LaunchRead, Console!LaunchClaim
      <4> HIDE DEF r
      <4> QED
        BY <1>3, <4>2, <4>3
    <3>4. DOMAIN launch = ConsoleParams.Pages \cup {"timer"}
      BY <1>0
    <3> QED
      BY <2>1, <3>1, <3>2, <3>3, <3>4 DEF Console!Server, Console!BlastDone
  <2>2. /\ launch'[y] = l
        /\ \A x \in (ConsoleParams.Pages \cup {"timer"}) \ {y} :
             launch'[x] = launch[x]
    BY <1>0, <2>1
  <2>3. l.form.text <= consoleEdits /\ l.saves <= consoleRow.saves
    BY <1>0, <2>1
  <2> QED
    BY <1>0, <2>2, <2>3
<1>5. /\ took' \in [from : {"draft", "paused"}, must : BOOLEAN, need : Nat,
                    saves : Nat, same : BOOLEAN]
      /\ took'.need <= consoleRow.saves /\ took'.saves <= consoleRow.saves
  <2>1. ASSUME NEW x \in ConsoleParams.Pages \cup {"timer"}
        PROVE  LET t == [from |-> launch[x].from, must |-> launch[x].must,
                         need |-> launch[x].need, saves |-> launch[x].saves,
                         same |-> launch[x].same]
               IN  /\ t \in [from : {"draft", "paused"}, must : BOOLEAN,
                             need : Nat, saves : Nat, same : BOOLEAN]
                   /\ t.need <= consoleRow.saves /\ t.saves <= consoleRow.saves
    <3>1. launch[x] \in LaunchShape
      BY <1>0
    <3>2. /\ launch[x].from \in {"draft", "paused"}
          /\ launch[x].must \in BOOLEAN
          /\ launch[x].need \in Nat /\ launch[x].saves \in Nat
          /\ launch[x].same \in BOOLEAN
      BY <3>1 DEF LaunchShape
    <3> QED
      BY <1>0, <3>2
  <2>2. \/ took' = took
        \/ \E x \in ConsoleParams.Pages \cup {"timer"} :
             took' = [from |-> launch[x].from, must |-> launch[x].must,
                      need |-> launch[x].need, saves |-> launch[x].saves,
                      same |-> launch[x].same]
    <3>1. DOMAIN launch = ConsoleParams.Pages \cup {"timer"}
      BY <1>0
    <3> QED
      BY <3>1 DEF Console!Server, Console!Timer, Console!BlastDone,
         Console!LaunchRead, Console!LaunchClaim
  <2> QED
    BY <1>0, <2>1, <2>2
<1> QED
  BY <1>1, <1>2, <1>4, <1>5, LaunchBounds

\* A request that starts a launch, or writes the status.
LEMMA PostBounds ==
  ASSUME Console!ConsoleAssumption, ConsoleInv, ConsoleBounds,
         NEW p \in ConsoleParams.Pages, Console!PostWrite(p)
  PROVE  ConsoleBounds'
<1> DEFINE v == page[p]
           f == page[p].flow
<1>0. /\ consoleRow
           \in [status : Console!Statuses, content : Written, saves : Nat]
      /\ consoleRow.saves \in Nat /\ consoleEdits \in Nat
      /\ launch \in [ConsoleParams.Pages \cup {"timer"} -> LaunchShape]
      /\ v \in PageShape /\ TextOK(v, consoleEdits)
      /\ \A x \in ConsoleParams.Pages \cup {"timer"} :
           /\ launch[x].form.text <= consoleEdits
           /\ launch[x].saves <= consoleRow.saves
      /\ took \in [from : {"draft", "paused"}, must : BOOLEAN, need : Nat,
                   saves : Nat, same : BOOLEAN]
      /\ took.need <= consoleRow.saves /\ took.saves <= consoleRow.saves
  BY DEF ConsoleInv, ConsoleBounds, TextsKept, SavesPaid
<1>1. /\ f.op \in {"send", "resume", "schedule", "pause", "cancel", "delete"}
      /\ UNCHANGED <<took, consoleEdits, presses, losses>>
  <2>1. f.stage = "posting"
          /\ UNCHANGED <<took, consoleEdits, presses, losses>>
    BY DEF Console!PostWrite, Console!At, Console!counts
  <2>2. PageOK(v, p, consoleRow.saves)
    BY DEF ConsoleInv
  <2>3. f.op \in Console!Ops /\ f.op # "save"
    BY <2>1, <2>2 DEF PageOK
  <2> QED
    BY <2>1, <2>3 DEF Console!Ops
<1>2. /\ \/ Console!Show(p, [v EXCEPT !.flow.stage = "posted"])
         \/ Console!Show(p, [v EXCEPT !.flow = Console!NoFlow])
      /\ \/ consoleRow' = consoleRow
         \/ \E s : consoleRow' = [consoleRow EXCEPT !.status = s]
      /\ \/ launch' = launch
         \/ launch' = [launch EXCEPT ![p] =
              [Console!NoLaunch EXCEPT !.stage = "asked", !.form = f.form,
                 !.need = f.saved, !.must = Console!Saves(p, f.op),
                 !.from = IF f.op = "send" THEN "draft" ELSE "paused"]]
  BY <1>1 DEF Console!PostWrite, Console!To, Console!Fail, Console!Status
<1>3. /\ consoleRow'.saves = consoleRow.saves
      /\ consoleRow'.content = consoleRow.content
  BY <1>0, <1>2
<1>4. PICK w : /\ Console!Show(p, w) /\ TextOK(w, consoleEdits)
               /\ StillToSave(w) => StillToSave(v)
  <2>1. LET w == [v EXCEPT !.flow = Console!NoFlow]
        IN  TextOK(w, consoleEdits) /\ ~StillToSave(w)
    BY <1>0, NoFlowTexts DEF StillToSave
  <2>2. LET w == [v EXCEPT !.flow.stage = "posted"]
        IN  TextOK(w, consoleEdits) /\ ~StillToSave(w)
    BY <1>0, StageTexts DEF StillToSave
  <2> HIDE DEF v
  <2> QED
    BY <1>2, <2>1, <2>2
<1>5. /\ \A q \in ConsoleParams.Pages : TextOK(page'[q], consoleEdits)
      /\ Unsaved' \subseteq Unsaved
  <2>1. consoleEdits' = consoleEdits /\ consoleEdits <= consoleEdits
    BY <1>0, <1>1
  <2> QED
    BY <1>0, <1>4, <2>1, PageTexts
<1>6. \A x \in ConsoleParams.Pages \cup {"timer"} :
        /\ launch'[x].form.text <= consoleEdits
        /\ launch'[x].saves <= consoleRow.saves
  <2>1. CASE launch' = launch
    BY <1>0, <2>1
  <2> DEFINE l == [Console!NoLaunch EXCEPT !.stage = "asked", !.form = f.form,
                     !.need = f.saved, !.must = Console!Saves(p, f.op),
                     !.from = IF f.op = "send" THEN "draft" ELSE "paused"]
  <2>2. CASE launch' = [launch EXCEPT ![p] = l]
    <3>1. l.form = f.form /\ l.saves = 0
      BY DEF Console!NoLaunch
    <3>2. f.form.text <= consoleEdits
      BY <1>0 DEF TextOK
    <3> HIDE DEF l
    <3>3. /\ launch'[p] = l
          /\ \A x \in (ConsoleParams.Pages \cup {"timer"}) \ {p} :
               launch'[x] = launch[x]
      BY <1>0, <2>2
    <3> QED
      BY <1>0, <3>1, <3>2, <3>3
  <2> QED
    BY <1>2, <2>1, <2>2
<1> QED
  BY <1>0, <1>1, <1>3, <1>5, <1>6, LaunchBounds

LEMMA ConsoleBoundsStep ==
  ASSUME Console!ConsoleAssumption, ConsoleInv, ConsoleBounds,
         [Console!Next]_(Console!vars)
  PROVE  ConsoleBounds'
<1>1. ASSUME NEW p \in ConsoleParams.Pages, Console!Buttons(p)
      PROVE  ConsoleBounds'
  <2>1. CASE Console!PostWrite(p)
    BY <2>1, PostBounds
  <2>2. CASE Console!PatchWrite(p) /\ consoleRow.status # "gone"
    BY <2>2, SaveBounds
  <2>3. ASSUME NEW op \in Console!Ops, Console!Press(p, op)
        PROVE  ConsoleBounds'
    BY <2>3, PressBounds
  <2>4. CASE Console!PatchWrite(p) /\ consoleRow.status = "gone"
    <3>1. UNCHANGED <<consoleRow, launch>>
      BY <2>4 DEF Console!PatchWrite
    <3> QED
      BY <2>4, <3>1, ButtonBounds
  <2>5. ASSUME \/ Console!PatchRead(p) \/ Console!PatchAnswer(p)
               \/ Console!PatchLost(p)
               \/ \E yes \in BOOLEAN : Console!Confirm(p, yes)
               \/ Console!PostRead(p) \/ Console!PostAnswer(p)
        PROVE  ConsoleBounds'
    <3>1. UNCHANGED <<consoleRow, launch>>
      BY <2>5 DEF Console!PatchRead, Console!PatchAnswer, Console!PatchLost,
         Console!Confirm, Console!PostRead, Console!PostAnswer
    <3> QED
      BY <2>5, <3>1, ButtonBounds
  <2> QED
    BY <1>1, <2>1, <2>2, <2>3, <2>4, <2>5 DEF Console!Buttons
<1>2. CASE UNCHANGED Console!vars
  BY <1>2
     DEF Console!vars, ConsoleBounds, TextsKept, SavesPaid, CountsKept, Unsaved
<1> QED
  BY <1>1, <1>2, ViewBounds, ServerBounds DEF Console!Next

LEMMA ConsoleTypesHold ==
  ASSUME Console!ConsoleAssumption, ConsoleInv, ConsoleBounds
  PROVE  Console!TypeOK
<1>1. /\ consoleRow
           \in [status : Console!Statuses, content : Written, saves : Nat]
      /\ consoleRow.saves \in Nat /\ consoleRow.content \in Written
      /\ consoleEdits \in 0..ConsoleParams.MaxEdits
      /\ presses \in 0..ConsoleParams.MaxPresses
      /\ losses \in 0..ConsoleParams.MaxLosses
      /\ ConsoleParams.MaxEdits \in Nat /\ ConsoleParams.MaxPresses \in Nat
  BY DEF ConsoleInv, ConsoleBounds, CountsKept, Console!ConsoleAssumption
<1>2. consoleRow.saves \in 0..ConsoleParams.MaxPresses
  <2>1. Cardinality(Unsaved) \in Nat
          /\ consoleRow.saves + Cardinality(Unsaved) <= presses
    BY FS_CardinalityType DEF ConsoleBounds, SavesPaid
  <2> QED
    BY <1>1, <2>1
<1>3. /\ \A n \in Nat :
           n <= consoleRow.saves => n \in 0..ConsoleParams.MaxPresses
      /\ \A n \in Nat : n <= consoleEdits => n \in 0..ConsoleParams.MaxEdits
  BY <1>1, <1>2
<1>4. \A c \in Written : c.text <= consoleEdits => c \in Console!Content
  BY <1>3 DEF Written, Console!Content
<1>5. consoleRow \in Console!Row
  <2>1. consoleRow.content \in Console!Content
    BY <1>1, <1>4 DEF ConsoleBounds, TextsKept
  <2> QED
    BY <1>1, <1>2, <2>1 DEF Console!Row
<1>6. ASSUME NEW p \in ConsoleParams.Pages
      PROVE  page[p] \in Console!Page
  <2>1. /\ page[p] \in PageShape /\ TextOK(page[p], consoleEdits)
        /\ page[p].flow.saved <= consoleRow.saves
    BY DEF ConsoleInv, PageOK, ConsoleBounds, TextsKept
  <2>2. /\ page[p].form \in Console!Content
        /\ page[p].flow.form \in Console!Content
        /\ page[p].flow.saved \in 0..ConsoleParams.MaxPresses
    BY <1>3, <1>4, <2>1, PageFields DEF TextOK
  <2>3. page[p].flow \in Console!Flow
    <3>1. page[p].flow \in Pressed
      BY <2>1, PageFields
    <3> QED
      BY <2>2, <3>1 DEF Pressed, Console!Flow
  <2>4. page[p].loaded \in SUBSET Console!Seen
    <3>1. ASSUME NEW c \in page[p].loaded
          PROVE  c \in Console!Seen
      <4>1. c \in [status : Console!Statuses, content : Written]
        BY <2>1 DEF PageShape
      <4>2. c.content \in Console!Content
        BY <1>4, <2>1, <4>1 DEF TextOK
      <4> QED
        BY <4>1, <4>2 DEF Console!Seen
    <3> QED
      BY <3>1
  <2> QED
    BY <2>1, <2>2, <2>3, <2>4 DEF PageShape, Console!Page
<1>7. ASSUME NEW x \in ConsoleParams.Pages \cup {"timer"}
      PROVE  launch[x] \in Console!Launch
  <2>1. /\ launch[x] \in LaunchShape /\ launch[x].form.text <= consoleEdits
        /\ launch[x].saves <= consoleRow.saves
        /\ launch[x].need <= consoleRow.saves
    BY DEF ConsoleInv, LaunchOK, ConsoleBounds, TextsKept, SavesPaid
  <2>2. /\ launch[x].form \in Console!Content
        /\ launch[x].saves \in 0..ConsoleParams.MaxPresses
        /\ launch[x].need \in 0..ConsoleParams.MaxPresses
    BY <1>3, <1>4, <2>1 DEF LaunchShape
  <2> QED
    BY <2>1, <2>2 DEF LaunchShape, Console!Launch
<1>8. took \in [from : {"draft", "paused"}, must : BOOLEAN,
                need : 0..ConsoleParams.MaxPresses,
                saves : 0..ConsoleParams.MaxPresses, same : BOOLEAN]
  <2>1. /\ took \in [from : {"draft", "paused"}, must : BOOLEAN, need : Nat,
                     saves : Nat, same : BOOLEAN]
        /\ took.need <= consoleRow.saves /\ took.saves <= consoleRow.saves
    BY DEF ConsoleBounds, SavesPaid
  <2>2. /\ took.need \in 0..ConsoleParams.MaxPresses
        /\ took.saves \in 0..ConsoleParams.MaxPresses
    BY <1>3, <2>1
  <2> QED
    BY <2>1, <2>2
<1>9. /\ page \in [ConsoleParams.Pages -> Console!Page]
      /\ launch \in [ConsoleParams.Pages \cup {"timer"} -> Console!Launch]
  BY <1>6, <1>7 DEF ConsoleInv
<1> QED
  BY <1>1, <1>5, <1>8, <1>9 DEF Console!TypeOK

-----------------------------------------------------------------------------
\* The editor of a property (PropertyDetail.tsx:5-1682,
\* properties.service.ts:75-359).

EditorBounds ==
  /\ \A r \in sent : /\ r.from \in EditorParams.Editors
                     /\ r.sets \subseteq Editor!Fields
  /\ removal \in {"none", "counted", "parts"}
  /\ editorExists \in BOOLEAN /\ parts \in BOOLEAN
  /\ leads \in 0..EditorParams.MaxLeads /\ moves \in 0..EditorParams.MaxMoves

LEMMA EditorLimits ==
  Editor!EditorAssumption
    => EditorParams.MaxMoves \in Nat /\ EditorParams.MaxLeads \in Nat
BY DEF Editor!EditorAssumption

LEMMA EditorBoundsInit ==
  ASSUME Editor!EditorAssumption, Editor!Init
  PROVE  EditorBounds
<1>1. /\ sent = {} /\ removal = "none" /\ editorExists = TRUE /\ parts = TRUE
      /\ leads = 0 /\ moves = 0
  BY DEF Editor!Init
<1> QED
  BY <1>1, EditorLimits DEF EditorBounds

LEMMA EditorBoundsStep ==
  ASSUME Editor!EditorAssumption, EditorBounds, [Editor!Next]_(Editor!vars)
  PROVE  EditorBounds'
<1>1. ASSUME NEW e \in EditorParams.Editors, NEW panel, NEW shown, NEW toggle,
             panel \in Editor!Panels, Editor!Send(e, panel, shown, toggle)
      PROVE  EditorBounds'
  <2> DEFINE r == [from |-> e, panel |-> panel, nth |-> moves,
                   sets |-> Editor!Body(e, panel), form |-> shown,
                   toggle |-> toggle]
  <2>1. r.from = e /\ r.sets = Editor!Body(e, panel)
    OBVIOUS
  <2>2. Editor!Body(e, panel) \subseteq Editor!Fields
    BY <1>1 DEF Editor!Body, Editor!Panels, Editor!Fields
  <2>3. /\ moves < EditorParams.MaxMoves /\ moves' = moves + 1
        /\ sent' = sent \cup {r}
        /\ UNCHANGED <<removal, editorExists, parts, leads>>
    BY <1>1 DEF Editor!Send
  <2> HIDE DEF r
  <2>4. moves' \in 0..EditorParams.MaxMoves
    BY <2>3, EditorLimits DEF EditorBounds
  <2> QED
    BY <2>1, <2>2, <2>3, <2>4 DEF EditorBounds
<1>2. ASSUME NEW e \in EditorParams.Editors,
             \/ \E panel \in Editor!Panels : Editor!Save(e, panel)
             \/ \E p \in EditorParams.Paths : Editor!Toggle(e, p)
      PROVE  EditorBounds'
  <2>1. "toggle" \in Editor!Panels
    BY DEF Editor!Panels
  <2> QED
    BY <1>1, <1>2, <2>1 DEF Editor!Save, Editor!Toggle
<1>3. ASSUME sent' \subseteq sent,
             \/ moves' = moves
             \/ moves < EditorParams.MaxMoves /\ moves' = moves + 1,
             \/ leads' = leads
             \/ leads < EditorParams.MaxLeads /\ leads' = leads + 1,
             removal' \in {"none", "counted", "parts"},
             editorExists' \in BOOLEAN, parts' \in BOOLEAN
      PROVE  EditorBounds'
  <2>1. /\ moves' \in 0..EditorParams.MaxMoves
        /\ leads' \in 0..EditorParams.MaxLeads
    BY <1>3, EditorLimits DEF EditorBounds
  <2> QED
    BY <1>3, <2>1 DEF EditorBounds
<1>4. /\ removal \in {"none", "counted", "parts"}
      /\ editorExists \in BOOLEAN /\ parts \in BOOLEAN
  BY DEF EditorBounds
<1>5. ASSUME NEW e \in EditorParams.Editors,
             \/ \E f \in Editor!Fields, t \in EditorParams.Texts :
                  Editor!Edit(e, f, t)
             \/ \E t \in EditorParams.Texts : Editor!Design(e, t)
             \/ Editor!LoadProperty(e) \/ Editor!LoadPages(e)
             \/ Editor!Verify(e)
      PROVE  EditorBounds'
  <2>1. /\ UNCHANGED <<leads, removal, editorExists, parts>>
        /\ sent' = sent
        /\ \/ moves' = moves
           \/ moves < EditorParams.MaxMoves /\ moves' = moves + 1
    BY <1>5
       DEF Editor!Edit, Editor!Design, Editor!Edited, Editor!LoadProperty,
       Editor!LoadPages, Editor!Verify
  <2> QED
    BY <1>3, <1>4, <2>1
<1>6. ASSUME \/ \E r \in sent : Editor!Update(r)
             \/ \E d \in EditorParams.Domains : Editor!Activate(d)
             \/ \E a \in hosted : Editor!Activated(a)
             \/ Editor!Subscribe \/ Editor!RemoveCount \/ Editor!RemoveParts
             \/ Editor!RemoveRow
      PROVE  EditorBounds'
  <2>1. /\ sent' \subseteq sent
        /\ \/ moves' = moves
           \/ moves < EditorParams.MaxMoves /\ moves' = moves + 1
        /\ \/ leads' = leads
           \/ leads < EditorParams.MaxLeads /\ leads' = leads + 1
    BY <1>6
       DEF Editor!Update, Editor!Activate, Editor!Activated, Editor!Subscribe,
       Editor!RemoveCount, Editor!RemoveParts, Editor!RemoveRow
  <2>2. /\ removal' \in {removal, "none", "counted", "parts"}
        /\ editorExists' \in {editorExists, TRUE, FALSE}
        /\ parts' \in {parts, FALSE}
    <3>1. (leads > 0) \in BOOLEAN
      OBVIOUS
    <3> QED
      BY <1>6, <3>1
         DEF Editor!Update, Editor!Activate, Editor!Activated,
             Editor!Subscribe,
         Editor!RemoveCount, Editor!RemoveParts, Editor!RemoveRow
  <2> QED
    BY <1>3, <1>4, <2>1, <2>2
<1>7. CASE UNCHANGED Editor!vars
  BY <1>7 DEF Editor!vars, EditorBounds
<1> QED
  BY <1>2, <1>5, <1>6, <1>7 DEF Editor!Next

LEMMA EditorTypesHold ==
  ASSUME EditorInv, EditorBounds
  PROVE  Editor!TypeOK
BY DEF EditorInv, EditorBounds, RequestOK, Editor!TypeOK

-----------------------------------------------------------------------------
\* The settings of Google Ads and its campaigns (google-ads.service.ts:54-610).

\* A campaign at Google, or about to be reported, is of a press made before.
AdsTypes ==
  /\ check \in [pc : {"idle", "shared"} \cup Ads!Devices, seen : Ads!Site]
  /\ google \subseteq 1 .. AdsParams.MaxPresses /\ adsTold \subseteq google
  /\ press \in {"idle", "token", "audit"}
  /\ adsUsed \in [moves : Nat, presses : 0 .. AdsParams.MaxPresses]
  /\ press # "idle" => adsUsed.presses >= 1
  /\ press = "audit" => adsUsed.presses \in google

LEMMA AdsTypesInit == Ads!AdsAssumption /\ Ads!Init => AdsTypes
<1> SUFFICES ASSUME Ads!AdsAssumption, Ads!Init PROVE AdsTypes
  OBVIOUS
<1>1. check \in [pc : {"idle", "shared"} \cup Ads!Devices, seen : Ads!Site]
  BY StartedIsSite DEF Ads!Init, Ads!NoCheck
<1>2. adsUsed \in [moves : Nat, presses : 0 .. AdsParams.MaxPresses]
  <2>1. AdsParams.MaxPresses \in Nat
    BY DEF Ads!AdsAssumption
  <2> QED
    BY <2>1 DEF Ads!Init
<1> QED
  BY <1>1, <1>2 DEF Ads!Init, AdsTypes

LEMMA AdsTypesStep ==
  ASSUME Ads!AdsAssumption, AdsInv, AdsTypes, [Ads!Next]_(Ads!vars)
  PROVE  AdsTypes'
<1>0. AdsParams.MaxPresses \in Nat
  BY DEF Ads!AdsAssumption
<1>1. ASSUME UNCHANGED <<check, google, press, adsTold>>,
             adsUsed' = adsUsed
               \/ adsUsed' = [adsUsed EXCEPT !["moves"] = @ + 1]
      PROVE  AdsTypes'
  <2>1. adsUsed' \in [moves : Nat, presses : 0 .. AdsParams.MaxPresses]
          /\ adsUsed'.presses = adsUsed.presses
    BY <1>1 DEF AdsTypes
  <2> QED
    BY <1>1, <2>1 DEF AdsTypes
<1>2. ASSUME NEW u \in AdsParams.Staff,
             \/ \E s \in AdsParams.Secrets : Ads!Type(u, s)
             \/ Ads!GetConfig(u) \/ Ads!SetConfig(u) \/ Ads!WriteConfig(u)
             \/ Ads!Disconnect(u)
      PROVE  AdsTypes'
  BY <1>1, <1>2
     DEF Ads!Type, Ads!GetConfig, Ads!SetConfig, Ads!WriteConfig,
     Ads!Disconnect, Ads!Spend
<1>3. CASE Ads!Change
  BY <1>1, <1>3 DEF Ads!Change, Ads!Spend
<1>4. ASSUME check' \in [pc : {"idle", "shared"} \cup Ads!Devices,
                         seen : Ads!Site],
             UNCHANGED <<google, press, adsTold, adsUsed>>
      PROVE  AdsTypes'
  BY <1>4 DEF AdsTypes
<1>5. CASE Ads!StartCheck \/ Ads!FinishCheck
  BY <1>4, <1>5, StartedIsSite
     DEF Ads!StartCheck, Ads!FinishCheck, Ads!NoCheck, Ads!Devices
<1>6. ASSUME NEW d \in Ads!Devices, Ads!Analyze(d) PROVE AdsTypes'
  <2>1. check'.pc \in {"idle", "shared"} \cup Ads!Devices
    BY <1>6 DEF Ads!Analyze, Ads!Devices
  <2>2. site \in Ads!Site /\ check.seen \in Ads!Site
    BY DEF AdsInv, ReviewInv, Ads!AdsAssumption
  <2>3. [check.seen EXCEPT ![d] = site[d], !.alike = site.alike] \in Ads!Site
    BY <2>2 DEF Ads!Site, Ads!Devices
  <2> QED
    BY <1>4, <1>6, <2>1, <2>3 DEF Ads!Analyze
<1>7. CASE Ads!Press
  <2>1. adsUsed' = [adsUsed EXCEPT !["presses"] = @ + 1]
          /\ adsUsed.presses < AdsParams.MaxPresses
    BY <1>7 DEF Ads!Press, Ads!Spend
  <2>2. adsUsed' \in [moves : Nat, presses : 0 .. AdsParams.MaxPresses]
          /\ adsUsed'.presses >= 1
    BY <1>0, <2>1 DEF AdsTypes
  <2> QED
    BY <1>7, <2>2 DEF Ads!Press, AdsTypes
<1>8. CASE Ads!TokenFails \/ Ads!Audit
  BY <1>8 DEF Ads!TokenFails, Ads!Audit, AdsTypes
<1>9. ASSUME NEW c \in BOOLEAN, NEW a \in BOOLEAN, Ads!Mutate(c, a)
      PROVE  AdsTypes'
  <2>1. adsUsed.presses \in 1 .. AdsParams.MaxPresses
    BY <1>0, <1>9 DEF Ads!Mutate, AdsTypes
  <2> QED
    BY <1>9, <2>1 DEF Ads!Mutate, AdsTypes
<1>10. CASE UNCHANGED Ads!vars
  BY <1>1, <1>10 DEF Ads!vars
<1> QED
  BY <1>2, <1>3, <1>5, <1>6, <1>7, <1>8, <1>9, <1>10 DEF Ads!Next

LEMMA AdsTyped == AdsInv /\ AdsTypes => Ads!TypeOK
BY DEF AdsInv, SecretInv, ReviewInv, AdsTypes, Ads!TypeOK

-----------------------------------------------------------------------------
\* The invariants that hold of the parts, with their types.
PartsInv ==
  /\ part \in Parts
  /\ part = "quota" => QuotaInv
  /\ part = "members" => MembersTypes
  /\ part = "audience" => OrderInv /\ AudienceTypes
  /\ part = "drips" => DripInv /\ TickTypes
  /\ part = "schedule" => ScheduleInv
  /\ part = "rate" => RateInv
  /\ part = "farm" => FarmInv /\ FarmTypes
  /\ part = "host" => HostInv
  /\ part = "intake" => IntakeInv /\ IntakeBounds
  /\ part = "script" => ScriptInv /\ BrowserTypes
  /\ part = "pool" => PoolInv /\ PoolTypes
  /\ part = "update" => Update!TypeOK
  /\ part = "console" => ConsoleInv /\ ConsoleBounds
  /\ part = "rights" => RightsInv
  /\ part = "editor" => EditorInv /\ EditorBounds
  /\ part = "ads" => AdsInv /\ AdsTypes

LEMMA PartsInvInit == Init => PartsInv
<1> SUFFICES ASSUME Init PROVE PartsInv
  OBVIOUS
<1>0. part \in Parts
  BY DEF Init
<1>1. part = "quota" => QuotaInv
  BY PartsAssumption, QuotaInvInit DEF Init
<1>2. part = "members" => MembersTypes
  BY PartsAssumption, MembersTypesInit DEF Init
<1>3. part = "audience" => OrderInv /\ AudienceTypes
  BY PartsAssumption, OrderInit, AudienceTypesInit DEF Init
<1>4. part = "drips" => DripInv /\ TickTypes
  BY PartsAssumption, DripInit, TickTypesInit DEF Init
<1>5. part = "schedule" => ScheduleInv
  BY PartsAssumption, ScheduleInit DEF Init
<1>6. part = "rate" => RateInv
  BY PartsAssumption, RateInvInit DEF Init
<1>7. part = "farm" => FarmInv /\ FarmTypes
  BY PartsAssumption, FarmInit, FarmTypesInit DEF Init
<1>8. part = "host" => HostInv
  BY PartsAssumption, HostInit DEF Init
<1>9. part = "intake" => IntakeInv /\ IntakeBounds
  BY PartsAssumption, IntakeInit, IntakeBoundsInit DEF Init
<1>10. part = "script" => ScriptInv /\ BrowserTypes
  BY PartsAssumption, ScriptInvInit, BrowserInit DEF Init
<1>11. part = "pool" => PoolInv /\ PoolTypes
  BY PartsAssumption, PoolInvInit, PoolTypesInit DEF Init
<1>12. part = "update" => Update!TypeOK
  BY PartsAssumption, UpdateTypesInit DEF Init
<1>13. part = "console" => ConsoleInv /\ ConsoleBounds
  BY PartsAssumption, ConsoleInit, ConsoleBoundsInit DEF Init
<1>14. part = "rights" => RightsInv
  BY PartsAssumption, RightsInit DEF Init
<1>15. part = "editor" => EditorInv /\ EditorBounds
  BY PartsAssumption, EditorInit, EditorBoundsInit DEF Init
<1>16. part = "ads" => AdsInv /\ AdsTypes
  BY PartsAssumption, SecretInit, ReviewInit, AdsTypesInit DEF Init, AdsInv
<1> QED
  BY <1>0, <1>1, <1>2, <1>3, <1>4, <1>5, <1>6, <1>7, <1>8, <1>9, <1>10, <1>11,
     <1>12, <1>13, <1>14, <1>15, <1>16 DEF PartsInv

LEMMA PartsInvStep == PartsInv /\ [Next]_vars => PartsInv'
<1> SUFFICES ASSUME PartsInv, [Next]_vars PROVE PartsInv'
  OBVIOUS
<1>0. part' = part /\ part' \in Parts
  BY PartSteps DEF PartsInv
<1>1. CASE part = "quota"
  <2>1. QuotaInv /\ [Quota!Next]_(Quota!vars)
    BY <1>1, PartSteps DEF PartsInv
  <2>2. QuotaInv'
    BY <2>1, PartsAssumption, QuotaInvStep
  <2> QED
    BY <1>0, <1>1, <2>2 DEF PartsInv
<1>2. CASE part = "members"
  <2>1. MembersTypes /\ [Members!Next]_(Members!vars)
    BY <1>2, PartSteps DEF PartsInv
  <2>2. MembersTypes'
    BY <2>1, PartsAssumption, MembersTypesStep
  <2> QED
    BY <1>0, <1>2, <2>2 DEF PartsInv
<1>3. CASE part = "audience"
  <2>1. OrderInv /\ AudienceTypes /\ [Audience!Next]_(Audience!vars)
    BY <1>3, PartSteps DEF PartsInv
  <2>2. OrderInv' /\ AudienceTypes'
    BY <2>1, PartsAssumption, OrderStep, AudienceTypesStep
  <2> QED
    BY <1>0, <1>3, <2>2 DEF PartsInv
<1>4. CASE part = "drips"
  <2>1. DripInv /\ TickTypes /\ [Drips!Next]_(Drips!vars)
    BY <1>4, PartSteps DEF PartsInv
  <2>2. DripInv' /\ TickTypes'
    BY <2>1, PartsAssumption, DripStep, TickTypesStep
  <2> QED
    BY <1>0, <1>4, <2>2 DEF PartsInv
<1>5. CASE part = "schedule"
  <2>1. ScheduleInv /\ [Schedule!Next]_(Schedule!vars)
    BY <1>5, PartSteps DEF PartsInv
  <2>2. ScheduleInv'
    BY <2>1, PartsAssumption, ScheduleStep
  <2> QED
    BY <1>0, <1>5, <2>2 DEF PartsInv
<1>6. CASE part = "rate"
  <2>1. RateInv /\ [Rate!Next]_(Rate!vars)
    BY <1>6, PartSteps DEF PartsInv
  <2>2. RateInv'
    BY <2>1, PartsAssumption, RateInvStep
  <2> QED
    BY <1>0, <1>6, <2>2 DEF PartsInv
<1>7. CASE part = "farm"
  <2>1. FarmInv /\ FarmTypes /\ [Farm!Next]_(Farm!vars)
    BY <1>7, PartSteps DEF PartsInv
  <2>2. FarmInv' /\ FarmTypes'
    BY <2>1, PartsAssumption, FarmStep, FarmTypesStep
  <2> QED
    BY <1>0, <1>7, <2>2 DEF PartsInv
<1>8. CASE part = "host"
  <2>1. HostInv /\ [Host!Next]_(Host!vars)
    BY <1>8, PartSteps DEF PartsInv
  <2>2. HostInv'
    BY <2>1, PartsAssumption, HostStep
  <2> QED
    BY <1>0, <1>8, <2>2 DEF PartsInv
<1>9. CASE part = "intake"
  <2>1. IntakeInv /\ IntakeBounds /\ [Intake!Next]_(Intake!vars)
    BY <1>9, PartSteps DEF PartsInv
  <2>2. IntakeInv' /\ IntakeBounds'
    BY <2>1, PartsAssumption, IntakeStep, IntakeBoundsStep
  <2> QED
    BY <1>0, <1>9, <2>2 DEF PartsInv
<1>10. CASE part = "script"
  <2>1. ScriptInv /\ BrowserTypes /\ [Script!Next]_(Script!vars)
    BY <1>10, PartSteps DEF PartsInv
  <2>2. ScriptInv' /\ BrowserTypes'
    BY <2>1, PartsAssumption, ScriptInvStep, BrowserStep DEF BrowserTypes
  <2> QED
    BY <1>0, <1>10, <2>2 DEF PartsInv
<1>11. CASE part = "pool"
  <2>1. PoolInv /\ PoolTypes /\ [Pool!Next]_(Pool!vars)
    BY <1>11, PartSteps DEF PartsInv
  <2>2. PoolInv' /\ PoolTypes'
    BY <2>1, PartsAssumption, PoolInvStep, PoolTypesStep
  <2> QED
    BY <1>0, <1>11, <2>2 DEF PartsInv
<1>12. CASE part = "update"
  <2>1. Update!TypeOK /\ [Update!Next]_(Update!vars)
    BY <1>12, PartSteps DEF PartsInv
  <2>2. Update!TypeOK'
    BY <2>1, PartsAssumption, UpdateTypesStep
  <2> QED
    BY <1>0, <1>12, <2>2 DEF PartsInv
<1>13. CASE part = "console"
  <2>1. ConsoleInv /\ ConsoleBounds /\ [Console!Next]_(Console!vars)
    BY <1>13, PartSteps DEF PartsInv
  <2>2. ConsoleInv' /\ ConsoleBounds'
    BY <2>1, PartsAssumption, ConsoleStep, ConsoleBoundsStep
  <2> QED
    BY <1>0, <1>13, <2>2 DEF PartsInv
<1>14. CASE part = "rights"
  <2>1. RightsInv /\ [Rights!Next]_(Rights!vars)
    BY <1>14, PartSteps DEF PartsInv
  <2>2. RightsInv'
    BY <2>1, PartsAssumption, RightsStep
  <2> QED
    BY <1>0, <1>14, <2>2 DEF PartsInv
<1>15. CASE part = "editor"
  <2>1. EditorInv /\ EditorBounds /\ [Editor!Next]_(Editor!vars)
    BY <1>15, PartSteps DEF PartsInv
  <2>2. EditorInv' /\ EditorBounds'
    BY <2>1, PartsAssumption, EditorStep, EditorBoundsStep
  <2> QED
    BY <1>0, <1>15, <2>2 DEF PartsInv
<1>16. CASE part = "ads"
  <2>1. AdsInv /\ AdsTypes /\ [Ads!Next]_(Ads!vars)
    BY <1>16, PartSteps DEF PartsInv
  <2>2. AdsInv' /\ AdsTypes'
    BY <2>1, PartsAssumption, SecretStep, ReviewStep, AdsTypesStep DEF AdsInv
  <2> QED
    BY <1>0, <1>16, <2>2 DEF PartsInv
<1> QED
  BY <1>0, <1>1, <1>2, <1>3, <1>4, <1>5, <1>6, <1>7, <1>8, <1>9, <1>10, <1>11,
     <1>12, <1>13, <1>14, <1>15, <1>16, Zenon DEF PartsInv, Parts

LEMMA PartsInvTypes == PartsInv => PartTypes
<1> SUFFICES ASSUME PartsInv PROVE PartTypes
  OBVIOUS
<1>0. part \in Parts
  BY DEF PartsInv
<1>1. part = "quota" => Quota!TypeOK
  BY DEF PartsInv, QuotaInv, QuotaBase
<1>2. part = "members" => Members!TypeOK
  BY DEF PartsInv, MembersTypes
<1>3. part = "audience" => Audience!TypeOK
  BY PartsAssumption, AudienceTypesHold DEF PartsInv
<1>4. part = "drips" => Drips!TypeOK
  BY PartsAssumption, DripsTyped DEF PartsInv
<1>5. part = "schedule" => Schedule!TypeOK
  BY DEF PartsInv, ScheduleInv
<1>6. part = "rate" => Rate!TypeOK
  BY DEF PartsInv, RateInv
<1>7. part = "farm" => Farm!TypeOK
  BY PartsAssumption, FarmTyped DEF PartsInv
<1>8. part = "host" => Host!TypeOK
  BY DEF PartsInv, HostInv
<1>9. part = "intake" => Intake!TypeOK
  BY PartsAssumption, IntakeTypesHold DEF PartsInv
<1>10. part = "script" => Script!TypeOK
  BY PartsAssumption, ScriptTyped DEF PartsInv
<1>11. part = "pool" => Pool!TypeOK
  BY PartsAssumption, PoolTyped DEF PartsInv
<1>12. part = "update" => Update!TypeOK
  BY DEF PartsInv
<1>13. part = "console" => Console!TypeOK
  BY PartsAssumption, ConsoleTypesHold DEF PartsInv
<1>14. part = "rights" => Rights!TypeOK
  BY DEF PartsInv, RightsInv
<1>15. part = "editor" => Editor!TypeOK
  BY PartsAssumption, EditorTypesHold DEF PartsInv
<1>16. part = "ads" => Ads!TypeOK
  BY PartsAssumption, AdsTyped DEF PartsInv
<1> QED
  BY <1>0, <1>1, <1>2, <1>3, <1>4, <1>5, <1>6, <1>7, <1>8, <1>9, <1>10, <1>11,
     <1>12, <1>13, <1>14, <1>15, <1>16 DEF PartTypes

\* Whatever the sizes, each part keeps to its types, and to the bounds that its
\* counters have from the requests, presses and faults there were
\* (app.module.ts:27-53, where the parts are put together).
THEOREM PartsAreTyped == Spec => []PartTypes
BY PartsInvInit, PartsInvStep, PartsInvTypes, PTL DEF Spec
=============================================================================
