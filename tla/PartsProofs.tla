---------------------------- MODULE PartsProofs -----------------------------
(***************************************************************************)
(* What the parts of the system promise, for every value of their          *)
(* constants: the host cache, the updater on the host, the Google Ads      *)
(* integration, accounts, and the public routes.                           *)
(*                                                                         *)
(* A step of the system is a step of the one part that runs (PartSteps),   *)
(* so a theorem needs an invariant of that part alone.                     *)
(*                                                                         *)
(* Host cache: rows are never older than the date they are kept under, in  *)
(* the cache and on their way to it (DatesBind), so a fresh entry has      *)
(* fresh rows, whichever of several fills came last.                       *)
(*                                                                         *)
(* Updater: mkdir makes the lock and tells who made it in one step, and    *)
(* only a script that made it removes it, so a script beyond the lock is   *)
(* the only one there (UpdateInv); a kill keeps the directory.             *)
(*                                                                         *)
(* Ads: what is stored is kept or replaced by a text that is no mask, and  *)
(* "kept" means what a setConfig() read before its await, so every copy    *)
(* that is under way is no mask either (SecretInv); the stored verdict is  *)
(* the roll-up of what its requests were answered with (ReviewInv).        *)
(*                                                                         *)
(* Accounts: what is stored passed the checks of its handler (Stored), and *)
(* a copy of an account that differs from it, in a token or in a sign-in   *)
(* under way, is not younger than the change (Dated).                      *)
(*                                                                         *)
(* Public routes: a row that is clicked is counted, about to be counted or *)
(* lost (ClicksKept); pages and those about to be created outgrow the cap  *)
(* by the requests under way (PagesKept); a lead that is there has been    *)
(* welcomed, or somebody is about to, or a fault has cut it off (Greeted). *)
(***************************************************************************)
EXTENDS Parts, FiniteSetTheorems, TLAPS

\* A step of the system is a step of the part that runs.
LEMMA PartSteps ==
  ASSUME [Next]_vars
  PROVE  /\ part' = part
         /\ part = "quota" => [Quota!Next]_(Quota!vars)
         /\ part = "members" => [Members!Next]_(Members!vars)
         /\ part = "audience" => [Audience!Next]_(Audience!vars)
         /\ part = "drips" => [Drips!Next]_(Drips!vars)
         /\ part = "schedule" => [Schedule!Next]_(Schedule!vars)
         /\ part = "rate" => [Rate!Next]_(Rate!vars)
         /\ part = "farm" => [Farm!Next]_(Farm!vars)
         /\ part = "host" => [Host!Next]_(Host!vars)
         /\ part = "intake" => [Intake!Next]_(Intake!vars)
         /\ part = "script" => [Script!Next]_(Script!vars)
         /\ part = "pool" => [Pool!Next]_(Pool!vars)
         /\ part = "update" => [Update!Next]_(Update!vars)
         /\ part = "console" => [Console!Next]_(Console!vars)
         /\ part = "rights" => [Rights!Next]_(Rights!vars)
         /\ part = "editor" => [Editor!Next]_(Editor!vars)
         /\ part = "ads" => [Ads!Next]_(Ads!vars)
<1>1. CASE UNCHANGED vars
  <2>0. part' = part
    BY <1>1 DEF vars
  <2>1. UNCHANGED Quota!vars
    BY <1>1 DEF vars, quota, Quota!vars
  <2>2. UNCHANGED Members!vars
    BY <1>1 DEF vars, members, Members!vars
  <2>3. UNCHANGED Audience!vars
    BY <1>1 DEF vars, audience, Audience!vars
  <2>4. UNCHANGED Drips!vars
    BY <1>1 DEF vars, drips, Drips!vars, Drips!subVars, Drips!tickVars
  <2>5. UNCHANGED Schedule!vars
    BY <1>1 DEF vars, schedule, Schedule!vars, Schedule!dbVars,
       Schedule!memVars
  <2>6. UNCHANGED Rate!vars
    BY <1>1 DEF vars, rate, Rate!vars
  <2>7. UNCHANGED Farm!vars
    BY <1>1 DEF vars, farm, Farm!vars
  <2>8. UNCHANGED Host!vars
    BY <1>1 DEF vars, host, Host!vars
  <2>9. UNCHANGED Intake!vars
    BY <1>1 DEF vars, intake, Intake!vars
  <2>10. UNCHANGED Script!vars
    BY <1>1 DEF vars, script, Script!vars
  <2>11. UNCHANGED Pool!vars
    BY <1>1 DEF vars, pool, Pool!vars
  <2>12. UNCHANGED Update!vars
    BY <1>1 DEF vars, update, Update!vars
  <2>13. UNCHANGED Console!vars
    BY <1>1 DEF vars, console, Console!vars
  <2>14. UNCHANGED Rights!vars
    BY <1>1 DEF vars, rights, Rights!vars
  <2>15. UNCHANGED Editor!vars
    BY <1>1 DEF vars, editor, Editor!vars
  <2>16. UNCHANGED Ads!vars
    BY <1>1 DEF vars, ads, Ads!vars
  <2> QED
    BY <2>0, <2>1, <2>2, <2>3, <2>4, <2>5, <2>6, <2>7, <2>8, <2>9, <2>10,
       <2>11, <2>12, <2>13, <2>14, <2>15, <2>16
<1>2. CASE Next
  BY <1>2 DEF Next
<1> QED
  BY <1>1, <1>2

-----------------------------------------------------------------------------
(* The host cache.                                                          *)

\* Rows are not older than their date, in the cache and on their way to it.
DatesBind ==
  /\ cache.at # Host!Before => cache.rows >= cache.at
  /\ \A r \in HostParams.Requests :
       /\ req[r].since <= hostClock
       /\ req[r].pc = "read" => req[r].rows >= req[r].since

HostInv == Host!TypeOK /\ DatesBind /\ Host!CertsFresh

LEMMA HostInit ==
  ASSUME Host!Init
  PROVE  HostInv
BY PartsAssumption DEF Host!CacheAssumption, Host!Init, HostInv, Host!TypeOK,
   DatesBind, Host!CertsFresh, Host!Times, Host!Before

LEMMA HostStep ==
  ASSUME HostInv, [Host!Next]_(Host!vars)
  PROVE  HostInv'
<1> USE PartsAssumption DEF HostInv, Host!TypeOK, DatesBind, Host!CertsFresh,
        Host!Times, Host!Before, Host!CacheAssumption
<1>1. CASE Host!Tick
  BY <1>1 DEF Host!Tick
<1>2. ASSUME NEW r \in HostParams.Requests, Host!Ask(r)
      PROVE  HostInv'
  <2>1. CASE Host!Stale(hostClock)
    BY <1>2, <2>1 DEF Host!Ask
  <2>2. CASE ~Host!Stale(hostClock)
    <3>1. cache.rows \in Host!Times /\ cache.rows >= hostClock - HostParams.Ttl
      BY <2>2 DEF Host!Stale
    <3> QED
      BY <1>2, <2>2, <3>1 DEF Host!Ask
  <2> QED
    BY <2>1, <2>2
<1>3. ASSUME NEW r \in HostParams.Requests, Host!Read(r)
      PROVE  HostInv'
  BY <1>3 DEF Host!Read
<1>4. ASSUME NEW r \in HostParams.Requests, Host!Fill(r)
      PROVE  HostInv'
  BY <1>4 DEF Host!Fill
<1>5. CASE UNCHANGED Host!vars
  BY <1>5 DEF Host!vars
<1> QED
  BY <1>1, <1>2, <1>3, <1>4, <1>5 DEF Host!Next

\* Every certificate is given, and every page shown, on rows read at most a TTL
\* before the question (public.service.ts:77-82).
THEOREM AnswersAreFresh == Spec => []CertsFresh
<1> DEFINE I == part = "host" => HostInv
<1>1. Init => I
  BY HostInit DEF Init
<1>2. I /\ [Next]_vars => I'
  BY PartSteps, HostStep
<1>3. I => CertsFresh
  BY DEF HostInv, CertsFresh
<1> QED
  BY <1>1, <1>2, <1>3, PTL DEF Spec

-----------------------------------------------------------------------------
(* The updater.                                                             *)

\* The scripts beyond the lock.
Holders == {s \in UpdateParams.Scripts : updatePc[s] \in Update!Holding}

UpdateInv ==
  /\ updatePc \in [UpdateParams.Scripts -> {"off", "seen"} \cup Update!Holding]
  /\ lock \in BOOLEAN
  /\ \A s, t \in Holders : s = t
  /\ Holders # {} => lock

LEMMA UpdateInit == Update!Init => UpdateInv
BY DEF Update!Init, UpdateInv, Holders, Update!Holding

\* A step of a script that is beyond the lock and stays there.
LEMMA HolderMoves ==
  ASSUME UpdateInv, NEW s \in UpdateParams.Scripts,
         updatePc[s] \in Update!Holding,
         NEW q \in Update!Holding, updatePc' = [updatePc EXCEPT ![s] = q],
         lock' = lock
  PROVE  UpdateInv'
BY DEF UpdateInv, Holders, Update!Holding

\* The holder leaves and takes the lock with it.
LEMMA HolderLeaves ==
  ASSUME UpdateInv, NEW s \in UpdateParams.Scripts,
         updatePc[s] \in Update!Holding,
         updatePc' = [updatePc EXCEPT ![s] = "off"], lock' = FALSE
  PROVE  UpdateInv'
<1>1. Holders' = {}
  BY DEF UpdateInv, Holders, Update!Holding
<1> QED
  BY <1>1 DEF UpdateInv

LEMMA UpdateStep ==
  ASSUME UpdateInv, [Update!Next]_(Update!vars)
  PROVE  UpdateInv'
<1>1. ASSUME UNCHANGED <<updatePc, lock>>
      PROVE  UpdateInv'
  BY <1>1 DEF UpdateInv, Holders
<1>2. CASE Update!Commit
  BY <1>1, <1>2 DEF Update!Commit, Update!hostVars
<1>3. ASSUME NEW p \in UpdateParams.Pages,
          Update!Click(p) \/ Update!Page(p) \/ Update!Poll(p)
      PROVE  UpdateInv'
  BY <1>1, <1>3 DEF Update!Click, Update!Page, Update!WriteStatus,
     Update!WriteRequest, Update!Poll, Update!hostVars
<1>4. ASSUME NEW s \in UpdateParams.Scripts, Update!Cron(s)
      PROVE  UpdateInv'
  BY <1>4 DEF Update!Cron, UpdateInv, Holders, Update!Holding
<1>5. ASSUME NEW s \in UpdateParams.Scripts, Update!TakeLock(s)
      PROVE  UpdateInv'
  <2>1. CASE lock
    BY <1>5, <2>1 DEF Update!TakeLock, UpdateInv, Holders, Update!Holding
  <2>2. CASE ~lock
    \* the directory was not there, so nobody was beyond it
    <3>1. Holders = {}
      BY <2>2 DEF UpdateInv
    <3>2. Holders' = {s}
      BY <1>5, <2>2, <3>1 DEF Update!TakeLock, UpdateInv, Holders,
         Update!Holding
    <3> QED
      BY <1>5, <2>2, <3>2 DEF Update!TakeLock, UpdateInv, Update!Holding
  <2> QED
    BY <2>1, <2>2
<1>6. ASSUME NEW s \in UpdateParams.Scripts, Update!Remove(s)
      PROVE  UpdateInv'
  BY <1>6, HolderMoves DEF Update!Remove, Update!Holding
<1>7. ASSUME NEW s \in UpdateParams.Scripts, Update!Pulling(s)
      PROVE  UpdateInv'
  BY <1>7, HolderMoves DEF Update!Pulling, Update!Holding
<1>8. ASSUME NEW s \in UpdateParams.Scripts, Update!Reset(s)
      PROVE  UpdateInv'
  BY <1>8, HolderMoves DEF Update!Reset, Update!Holding
<1>9. ASSUME NEW s \in UpdateParams.Scripts, Update!GitFails(s)
      PROVE  UpdateInv'
  BY <1>9, HolderLeaves DEF Update!GitFails, Update!Holding
<1>10. ASSUME NEW s \in UpdateParams.Scripts, Update!Build(s)
       PROVE  UpdateInv'
  BY <1>10, HolderMoves DEF Update!Build, Update!Holding
<1>11. ASSUME NEW s \in UpdateParams.Scripts, Update!Exit(s)
       PROVE  UpdateInv'
  BY <1>11, HolderLeaves DEF Update!Exit, Update!Holding
<1>12. ASSUME NEW s \in UpdateParams.Scripts, Update!Kill(s)
       PROVE  UpdateInv'
  BY <1>12 DEF Update!Kill, UpdateInv, Holders, Update!Holding
<1>13. CASE UNCHANGED Update!vars
  BY <1>1, <1>13 DEF Update!vars
<1> QED
  BY <1>2, <1>3, <1>4, <1>5, <1>6, <1>7, <1>8, <1>9, <1>10, <1>11, <1>12, <1>13
     DEF Update!Next, Update!Run

\* Cardinality is the same operator wherever FiniteSets is instantiated.
LEMMA UpdateCardinality == \A S : Update!Cardinality(S) = Cardinality(S)
BY DEF Update!Cardinality, Cardinality

LEMMA AdsCardinality == \A S : Ads!Cardinality(S) = Cardinality(S)
BY DEF Ads!Cardinality, Cardinality

LEMMA AtMostOneHolder == UpdateInv => Update!OneBuilder
<1> SUFFICES ASSUME UpdateInv PROVE Update!OneBuilder
  OBVIOUS
<1>1. Cardinality(Holders) <= 1
  <2>1. CASE Holders = {}
    BY <2>1, FS_EmptySet
  <2>2. CASE Holders # {}
    <3>1. PICK s \in Holders : Holders = {s}
      BY <2>2 DEF UpdateInv
    <3>2. Cardinality({s}) = 1
      BY FS_Singleton
    <3> QED
      BY <3>1, <3>2
  <2> QED
    BY <2>1, <2>2
<1> QED
  BY <1>1, UpdateCardinality DEF Update!OneBuilder, UpdateInv, Holders

\* Two builds never run at once, and whoever builds holds the lock
\* (host-updater.sh:27-28).
THEOREM BuildsAlone == Spec => []OneBuilder
<1> DEFINE I == part = "update" => UpdateInv
<1>1. Init => I
  BY UpdateInit DEF Init
<1>2. I /\ [Next]_vars => I'
  BY PartSteps, UpdateStep
<1>3. I => OneBuilder
  BY AtMostOneHolder DEF OneBuilder
<1> QED
  BY <1>1, <1>2, <1>3, PTL DEF Spec

-----------------------------------------------------------------------------
(* Google Ads.                                                              *)

\* What is stored, shown, or read before an await: only fields show masks.
SecretInv ==
  /\ stored \in Ads!Text /\ ~stored.masked
  /\ adsShown \in [AdsParams.Staff -> Ads!Text]
  /\ adsSetting \in [AdsParams.Staff ->
                     [pc : {"idle", "set"}, input : Ads!Text, existing : Ads!Text]]
  /\ \A u \in AdsParams.Staff : ~adsSetting[u].existing.masked

LEMMA Texts ==
  /\ \A s \in AdsParams.Secrets : Ads!Plain(s) \in Ads!Text
     /\ ~Ads!Plain(s).masked
  /\ Ads!NoSecret \in Ads!Text /\ ~Ads!NoSecret.masked
  /\ \A s \in AdsParams.Secrets \cup {""} : Ads!Mask(s) \in Ads!Text
BY DEF Ads!Plain, Ads!Text, Ads!NoSecret, Ads!Mask

\* What a field comes out as is a text, and no mask when the old one was none.
LEMMA KeepReal ==
  ASSUME NEW v \in Ads!Text, NEW old \in Ads!Text, ~old.masked
  PROVE  Ads!Keep(v, old) \in Ads!Text /\ ~Ads!Keep(v, old).masked
BY DEF Ads!Keep, Ads!Text

LEMMA SecretInit == Ads!Init => SecretInv
<1> SUFFICES ASSUME Ads!Init PROVE SecretInv
  OBVIOUS
<1>1. Ads!NoSet \in [pc : {"idle", "set"}, input : Ads!Text, existing : Ads!Text]
      /\ ~Ads!NoSet.existing.masked
  BY Texts DEF Ads!NoSet
<1>2. /\ stored = Ads!NoSecret
          /\ adsShown = [u \in AdsParams.Staff |-> Ads!NoSecret]
      /\ adsSetting = [u \in AdsParams.Staff |-> Ads!NoSet]
  BY DEF Ads!Init
<1> QED
  BY <1>1, <1>2, Texts DEF SecretInv

LEMMA SecretStep == SecretInv /\ [Ads!Next]_(Ads!vars) => SecretInv'
<1> SUFFICES ASSUME SecretInv, [Ads!Next]_(Ads!vars) PROVE SecretInv'
  OBVIOUS
<1>1. ASSUME NEW u \in AdsParams.Staff, NEW s \in AdsParams.Secrets,
          Ads!Type(u, s)
      PROVE  SecretInv'
  BY <1>1, Texts DEF Ads!Type, SecretInv
<1>2. ASSUME NEW u \in AdsParams.Staff, Ads!GetConfig(u)
      PROVE  SecretInv'
  <2>1. stored.text \in AdsParams.Secrets \cup {""}
    BY DEF SecretInv, Ads!Text
  <2>2. Ads!Mask(stored.text) \in Ads!Text
    BY <2>1, Texts
  <2> QED
    BY <1>2, <2>2 DEF Ads!GetConfig, SecretInv
<1>3. ASSUME NEW u \in AdsParams.Staff, Ads!SetConfig(u)
      PROVE  SecretInv'
  BY <1>3 DEF Ads!SetConfig, SecretInv
<1>4. ASSUME NEW u \in AdsParams.Staff, Ads!WriteConfig(u)
      PROVE  SecretInv'
  <2> DEFINE next == Ads!Keep(adsSetting[u].input, adsSetting[u].existing)
  <2>1. next \in Ads!Text /\ ~next.masked
    BY KeepReal DEF SecretInv
  <2>0. Ads!NoSet \in [pc : {"idle", "set"}, input : Ads!Text, existing : Ads!Text]
        /\ ~Ads!NoSet.existing.masked
    BY Texts DEF Ads!NoSet
  <2>2. /\ adsSetting' \in [AdsParams.Staff ->
                            [pc : {"idle", "set"}, input : Ads!Text, existing : Ads!Text]]
        /\ \A v \in AdsParams.Staff : ~adsSetting'[v].existing.masked
    BY <1>4, <2>0 DEF Ads!WriteConfig, SecretInv
  <2>3. Ads!Mask(next.text) \in Ads!Text
    BY <2>1, Texts DEF Ads!Text
  <2>4. CASE next.text = ""
    BY <1>4, <2>2, <2>4 DEF Ads!WriteConfig, SecretInv
  <2>5. CASE next.text # ""
    <3>1. stored' = next
              /\ adsShown' = [adsShown EXCEPT ![u] = Ads!Mask(next.text)]
      BY <1>4, <2>5 DEF Ads!WriteConfig
    <3> QED
      BY <2>1, <2>2, <2>3, <3>1 DEF SecretInv
  <2> QED
    BY <2>4, <2>5
<1>5. ASSUME NEW u \in AdsParams.Staff, Ads!Disconnect(u)
      PROVE  SecretInv'
  BY <1>5, Texts DEF Ads!Disconnect, SecretInv
<1>6. CASE UNCHANGED <<stored, adsShown, adsSetting>>
  BY <1>6 DEF SecretInv
<1>7. CASE Ads!Change \/ Ads!StartCheck
          \/ (\E d \in Ads!Devices : Ads!Analyze(d)) \/ Ads!FinishCheck
  BY <1>6, <1>7 DEF Ads!Change, Ads!StartCheck, Ads!Analyze, Ads!FinishCheck
<1>8. CASE \/ Ads!Press \/ Ads!TokenFails \/ Ads!Audit
           \/ \E c, a \in BOOLEAN : Ads!Mutate(c, a)
  BY <1>6, <1>8 DEF Ads!Press, Ads!TokenFails, Ads!Audit, Ads!Mutate
<1> QED
  BY <1>1, <1>2, <1>3, <1>4, <1>5, <1>6, <1>7, <1>8 DEF Ads!Next, Ads!vars

\* The review under way and the stored one are of states a site may be in, and
\* the stored verdict is the roll-up of what its requests were answered with.
ReviewInv ==
  /\ site \in AdsParams.Sites
  /\ check.seen \in Ads!Site /\ viewed \in Ads!Site
  /\ adsCheck # Ads!NoAds => adsCheck = Ads!RollUp(viewed, viewed.robots)

AdsInv == SecretInv /\ ReviewInv

LEMMA StartedIsSite == Ads!Started \in Ads!Site
BY DEF Ads!Started, Ads!Site, Ads!Devices, Ads!Robots

LEMMA ReviewInit == Ads!Init => ReviewInv
BY StartedIsSite DEF Ads!Init, ReviewInv, Ads!NoCheck

\* What the last request answers does not change what the devices saw.
LEMMA RollUpSame ==
  ASSUME NEW saw \in Ads!Site, NEW robots \in Ads!Robots
  PROVE  /\ [saw EXCEPT !.robots = robots] \in Ads!Site
         /\ [saw EXCEPT !.robots = robots].robots = robots
         /\ Ads!RollUp([saw EXCEPT !.robots = robots], robots) = Ads!RollUp(saw, robots)
<1> DEFINE all == [saw EXCEPT !.robots = robots]
<1>1. /\ all \in Ads!Site /\ all.robots = robots
      /\ all.mobile = saw.mobile /\ all.desktop = saw.desktop
         /\ all.alike = saw.alike
  BY DEF Ads!Site
<1>2. /\ Ads!Costs(all.mobile, "mobile") = Ads!Costs(saw.mobile, "mobile")
      /\ Ads!Costs(all.desktop, "desktop") = Ads!Costs(saw.desktop, "desktop")
      /\ Ads!SharedWarns(all) = Ads!SharedWarns(saw)
      /\ Ads!SharedFails(all, robots) = Ads!SharedFails(saw, robots)
  BY <1>1 DEF Ads!SharedWarns, Ads!SharedFails
<1> HIDE DEF all
<1>3. Ads!RollUp(all, robots) = Ads!RollUp(saw, robots)
  BY <1>2, Zenon DEF Ads!RollUp
<1> QED
  BY <1>1, <1>3 DEF all

LEMMA ReviewStep == ReviewInv /\ [Ads!Next]_(Ads!vars) => ReviewInv'
<1> SUFFICES ASSUME ReviewInv, [Ads!Next]_(Ads!vars) PROVE ReviewInv'
  OBVIOUS
<1>0. AdsParams.Sites \subseteq Ads!Site
  BY PartsAssumption DEF Ads!AdsAssumption
<1>1. ASSUME UNCHANGED <<site, check, adsCheck, viewed>> PROVE ReviewInv'
  BY <1>1 DEF ReviewInv
<1>2. ASSUME NEW u \in AdsParams.Staff,
             \/ \E s \in AdsParams.Secrets : Ads!Type(u, s)
             \/ Ads!GetConfig(u) \/ Ads!SetConfig(u) \/ Ads!WriteConfig(u)
             \/ Ads!Disconnect(u)
      PROVE  ReviewInv'
  BY <1>1, <1>2 DEF Ads!Type, Ads!GetConfig, Ads!SetConfig, Ads!WriteConfig,
     Ads!Disconnect
<1>3. CASE Ads!Change
  BY <1>3 DEF Ads!Change, ReviewInv
<1>4. CASE Ads!StartCheck
  BY <1>4, StartedIsSite DEF Ads!StartCheck, ReviewInv
<1>5. ASSUME NEW d \in Ads!Devices, Ads!Analyze(d) PROVE ReviewInv'
  <2>1. [check.seen EXCEPT ![d] = site[d], !.alike = site.alike] \in Ads!Site
    BY <1>0 DEF ReviewInv, Ads!Site, Ads!Devices
  <2> QED
    BY <1>5, <2>1 DEF Ads!Analyze, ReviewInv
<1>6. CASE Ads!FinishCheck
  <2>1. site.robots \in Ads!Robots
    BY <1>0 DEF ReviewInv, Ads!Site
  <2>2. check'.seen = Ads!Started /\ site' = site
    BY <1>6 DEF Ads!FinishCheck, Ads!NoCheck
  <2>3. /\ adsCheck' = Ads!RollUp(check.seen, site.robots)
        /\ viewed' = [check.seen EXCEPT !.robots = site.robots]
    BY <1>6 DEF Ads!FinishCheck
  <2>4. viewed' \in Ads!Site /\ adsCheck' = Ads!RollUp(viewed', viewed'.robots)
    BY <2>1, <2>3, RollUpSame DEF ReviewInv
  <2> QED
    BY <2>2, <2>4, StartedIsSite DEF ReviewInv
<1>7. CASE \/ Ads!Press \/ Ads!TokenFails \/ Ads!Audit
           \/ \E c, a \in BOOLEAN : Ads!Mutate(c, a)
  BY <1>1, <1>7 DEF Ads!Press, Ads!TokenFails, Ads!Audit, Ads!Mutate
<1>8. CASE UNCHANGED Ads!vars
  BY <1>1, <1>8 DEF Ads!vars
<1> QED
  BY <1>2, <1>3, <1>4, <1>5, <1>6, <1>7, <1>8 DEF Ads!Next

\* Complaints are counted, and none is zero.
LEMMA CountedIsThere ==
  ASSUME NEW A, NEW B, NEW C, IsFiniteSet(A), IsFiniteSet(B), IsFiniteSet(C)
  PROVE  /\ Cardinality(A) + Cardinality(B) + Cardinality(C) \in Nat
         /\ Cardinality(A) + Cardinality(B) + Cardinality(C) > 0
              <=> A # {} \/ B # {} \/ C # {}
<1>1. /\ Cardinality(A) \in Nat /\ Cardinality(B) \in Nat
          /\ Cardinality(C) \in Nat
  BY FS_CardinalityType
<1>2. /\ Cardinality(A) = 0 <=> A = {}
      /\ Cardinality(B) = 0 <=> B = {}
      /\ Cardinality(C) = 0 <=> C = {}
  BY FS_EmptySet
<1> QED
  BY <1>1, <1>2

\* Sets that are enumerated are finite.
LEMMA FiveFinite ==
  ASSUME NEW a, NEW b, NEW c, NEW d, NEW e
  PROVE  IsFiniteSet({a, b, c, d, e})
<1>1. \A x : IsFiniteSet({x})
  BY FS_Singleton
<1>2. IsFiniteSet({a} \cup {b})
  BY <1>1, FS_Union
<1>3. IsFiniteSet(({a} \cup {b}) \cup {c})
  BY <1>1, <1>2, FS_Union
<1>4. IsFiniteSet((({a} \cup {b}) \cup {c}) \cup {d})
  BY <1>1, <1>3, FS_Union
<1>5. IsFiniteSet(((({a} \cup {b}) \cup {c}) \cup {d}) \cup {e})
  BY <1>1, <1>4, FS_Union
<1>6. ((({a} \cup {b}) \cup {c}) \cup {d}) \cup {e} = {a, b, c, d, e}
  OBVIOUS
<1> QED
  BY <1>5, <1>6

\* The complaints about a device are finitely many.
LEMMA CostsFinite ==
  ASSUME NEW D \in SUBSET Ads!Defects, NEW d
  PROVE  IsFiniteSet(Ads!Costs(D, d).fails)
         /\ IsFiniteSet(Ads!Costs(D, d).warns)
<1> DEFINE one   == {"down", "blank", "no-https", "elsewhere", "no-viewport"}
           two   == {"no-privacy", "parked", "thin", "noindex", "slow"}
           three == {"very-slow", "long-chain", "style", "style", "style"}
<1>1. IsFiniteSet(one) /\ IsFiniteSet(two) /\ IsFiniteSet(three)
  BY FiveFinite
<1>2. IsFiniteSet((one \cup two) \cup three)
  BY <1>1, FS_Union
<1>3. Ads!Defects = (one \cup two) \cup three
  BY DEF Ads!Defects
<1>4. Ads!Costs(D, d).fails \subseteq Ads!Defects /\ Ads!Costs(D, d).warns \subseteq Ads!Defects
  BY DEF Ads!Costs, Ads!Defects
<1> QED
  BY <1>2, <1>3, <1>4, FS_Subset

\* What a device complains of, in the words of the promise.
LEMMA CostsSay ==
  ASSUME NEW D \in SUBSET Ads!Defects, NEW d \in Ads!Devices
  PROVE  /\ Ads!Costs(D, d).fails # {} <=>
               \/ "down" \in D
               \/ /\ "blank" \notin D
                  /\ \/ D \cap {"down", "no-https", "elsewhere", "no-privacy",
                               "parked", "noindex", "very-slow",
                               "long-chain"} # {}
                     \/ d = "mobile" /\ "no-viewport" \in D
         /\ Ads!Costs(D, d).fails = {} /\ Ads!Costs(D, d).warns = {}
              => D \subseteq {"no-viewport"} /\ Ads!Readable(D)
<1>1. CASE "down" \in D
  BY <1>1 DEF Ads!Costs
<1>2. CASE "down" \notin D /\ "blank" \in D
  BY <1>2 DEF Ads!Costs
<1>3. CASE "down" \notin D /\ "blank" \notin D
  <2>1. /\ Ads!Costs(D, d).fails =
             D \cap ({"no-https", "elsewhere", "no-privacy", "parked", "noindex",
                      "very-slow", "long-chain"} \cup
                     (IF d = "mobile" THEN {"no-viewport"} ELSE {}))
        /\ Ads!Costs(D, d).warns = D \cap {"thin", "slow", "style"}
    BY <1>3 DEF Ads!Costs
  <2> QED
    BY <1>3, <2>1 DEF Ads!Devices, Ads!Defects, Ads!Readable
<1> QED
  BY <1>1, <1>2, <1>3

\* A stored roll-up is the verdict of the complaints it was made from.
LEMMA ReviewSound == ReviewInv => Ads!VerdictEarned
<1> SUFFICES ASSUME ReviewInv, adsCheck # Ads!NoAds PROVE Ads!VerdictEarned
  BY DEF Ads!VerdictEarned
<1> DEFINE mobile  == viewed.mobile
           desktop == viewed.desktop
           M       == Ads!Costs(mobile, "mobile")
           D       == Ads!Costs(desktop, "desktop")
           shut    == Ads!SharedFails(viewed, viewed.robots)
           odd     == Ads!SharedWarns(viewed)
           fails   == Cardinality(M.fails) + Cardinality(D.fails) + Cardinality(shut)
           warns   == Cardinality(M.warns) + Cardinality(D.warns) + Cardinality(odd)
           fatal   == {"down", "no-https", "elsewhere", "no-privacy", "parked",
                       "noindex", "very-slow", "long-chain"}
           broken1(s) == "down" \in s
           \/ ("blank" \notin s /\ s \cap fatal # {})
<1>1. /\ mobile \in SUBSET Ads!Defects /\ desktop \in SUBSET Ads!Defects
      /\ viewed.robots \in Ads!Robots
  BY DEF ReviewInv, Ads!Site
<1>2. /\ IsFiniteSet(M.fails) /\ IsFiniteSet(D.fails)
      /\ IsFiniteSet(M.warns) /\ IsFiniteSet(D.warns)
  BY <1>1, CostsFinite
<1>3. IsFiniteSet(shut) /\ (shut # {} <=> viewed.robots = "block")
  BY FS_Singleton, FS_EmptySet DEF Ads!SharedFails
<1>4. /\ IsFiniteSet(odd)
      /\ odd # {} <=> Ads!Readable(mobile) /\ Ads!Readable(desktop)
         /\ ~viewed.alike
  BY FS_Singleton, FS_EmptySet DEF Ads!SharedWarns
<1>5. /\ fails \in Nat
          /\ (fails > 0 <=> M.fails # {} \/ D.fails # {} \/ shut # {})
      /\ warns \in Nat
         /\ (warns > 0 <=> M.warns # {} \/ D.warns # {} \/ odd # {})
  BY <1>2, <1>3, <1>4, CountedIsThere
<1>6. adsCheck.verdict = IF fails > 0 THEN "fix-needed"
                         ELSE IF warns > 0 THEN "ready-with-warnings" ELSE "ready"
  BY AdsCardinality DEF ReviewInv, Ads!RollUp
<1>7. /\ M.fails # {} <=>
           broken1(mobile)
           \/ ("no-viewport" \in mobile /\ Ads!Readable(mobile))
      /\ D.fails # {} <=> broken1(desktop)
  <2>1. "mobile" \in Ads!Devices /\ "desktop" \in Ads!Devices
    BY DEF Ads!Devices
  <2>2. M.fails # {} <=> \/ "down" \in mobile
                        \/ /\ "blank" \notin mobile
                           /\ mobile \cap fatal # {}
                              \/ "no-viewport" \in mobile
    BY <1>1, <2>1, CostsSay
  <2>3. D.fails # {} <=> broken1(desktop)
    BY <1>1, <2>1, CostsSay
  <2>4. Ads!Readable(mobile) <=> "down" \notin mobile /\ "blank" \notin mobile
    BY DEF Ads!Readable
  <2> QED
    BY <2>2, <2>3, <2>4
<1>8. adsCheck.verdict = "fix-needed" <=>
        \/ broken1(mobile) \/ broken1(desktop)
        \/ "no-viewport" \in mobile /\ Ads!Readable(mobile)
        \/ viewed.robots = "block"
  BY <1>3, <1>5, <1>6, <1>7
<1>9. adsCheck.verdict = "ready" =>
        /\ mobile \subseteq {"no-viewport"}
           /\ desktop \subseteq {"no-viewport"}
        /\ viewed.alike
  <2> SUFFICES ASSUME adsCheck.verdict = "ready"
               PROVE  /\ mobile \subseteq {"no-viewport"}
                      /\ desktop \subseteq {"no-viewport"} /\ viewed.alike
    OBVIOUS
  <2>1. M.fails = {} /\ D.fails = {} /\ M.warns = {} /\ D.warns = {}
            /\ odd = {}
    BY <1>5, <1>6
  <2>2. /\ mobile \subseteq {"no-viewport"} /\ Ads!Readable(mobile)
        /\ desktop \subseteq {"no-viewport"} /\ Ads!Readable(desktop)
    BY <1>1, <2>1, CostsSay DEF Ads!Devices
  <2> QED
    BY <1>4, <2>1, <2>2
<1>10. [d \in Ads!Devices |-> viewed[d]]["mobile"] = mobile
       /\ [d \in Ads!Devices |-> viewed[d]]["desktop"] = desktop
  BY DEF Ads!Devices
<1> QED
  BY <1>8, <1>9, <1>10 DEF Ads!VerdictEarned, Ads!Devices

\* The stored secret is no mask, however often and by whoever the masked form is
\* sent back (google-ads.service.ts:109), and the stored verdict is the one that
\* what its requests saw has earned (google-ads.service.ts:271).
THEOREM AdsHold == Spec => []AdsSound
<1> DEFINE I == part = "ads" => AdsInv
<1>1. Init => I
  BY SecretInit, ReviewInit DEF Init, AdsInv
<1>2. I /\ [Next]_vars => I'
  BY PartSteps, SecretStep, ReviewStep DEF AdsInv
<1>3. I => AdsSound
  BY ReviewSound DEF AdsInv, SecretInv, AdsSound, Ads!AdsSound, Ads!SecretsReal
<1> QED
  BY <1>1, <1>2, <1>3, PTL DEF Spec

\* Only a client is confined.
Fits(access) == access.role = "client" <=> access.props # {}

-----------------------------------------------------------------------------
(* Accounts.                                                                *)

\* What was stored passed the checks of createUser() or updateUserAccess().
Stored ==
  /\ \A u \in RightsParams.Users : account[u].there => Fits(account[u].access)
  /\ \A u \in RightsParams.Users : saving[u].busy => Fits(saving[u].access)

\* A copy of an account that differs from it is not younger than the change:
\* a sign-in under way, and the token it made.
Dated ==
  \A u \in RightsParams.Users :
    /\ account[u].changed <= rightsClock /\ token[u].at <= rightsClock
    /\ login[u].busy
       /\ (~account[u].there \/ login[u].access # account[u].access)
         => account[u].changed = rightsClock
    /\ token[u].held
       /\ (~account[u].there \/ token[u].access # account[u].access)
         => token[u].at <= account[u].changed

RightsInv == Rights!TypeOK /\ Stored /\ Dated

LEMMA RightsInit == ASSUME Rights!AccountsAssumption
  PROVE Rights!Init => RightsInv
<1> SUFFICES ASSUME Rights!Init PROVE RightsInv
    OBVIOUS
<1> USE DEF Rights!AccountsAssumption
<1>1. Rights!TypeOK
    BY DEF Rights!Init, Rights!TypeOK, Rights!NoAccess, Rights!Unconfined,
       Rights!Access, Rights!Roles
<1>2. Stored
    BY DEF Rights!Init, Stored, Fits, Rights!NoAccess, Rights!Unconfined
<1>3. Dated
    BY DEF Rights!Init, Dated
<1> QED BY <1>1, <1>2, <1>3 DEF RightsInv

\* A row written now, of an account nobody has wrongly copied later.
LEMMA StoreKeeps ==
  ASSUME RightsInv, NEW u \in RightsParams.Users, NEW there \in BOOLEAN,
         NEW access \in Rights!Access,
         there => Fits(access), Rights!Store(u, there, access),
         UNCHANGED <<rightsClock, token, login>>
  PROVE  /\ account' \in [RightsParams.Users ->
                          [there : BOOLEAN, access : Rights!Access, changed : 0..RightsParams.MaxClock]]
         /\ \A v \in RightsParams.Users : account'[v].there
            => Fits(account'[v].access)
         /\ Dated'
<1>1. account' \in [RightsParams.Users ->
                    [there : BOOLEAN, access : Rights!Access, changed : 0..RightsParams.MaxClock]]
    BY DEF RightsInv, Rights!TypeOK, Rights!Store
<1>2. account'[u] = [there |-> there, access |-> access, changed |-> rightsClock]
    BY DEF RightsInv, Rights!TypeOK, Rights!Store
<1>3. \A v \in RightsParams.Users \ {u} : account'[v] = account[v]
    BY DEF RightsInv, Rights!TypeOK, Rights!Store
<1>4. \A v \in RightsParams.Users : account'[v].there
          => Fits(account'[v].access)
    BY <1>2, <1>3 DEF RightsInv, Stored
<1>5. Dated'
  <2> SUFFICES ASSUME NEW v \in RightsParams.Users
               PROVE  /\ account'[v].changed <= rightsClock
                         /\ token[v].at <= rightsClock
                      /\ login[v].busy
                           /\ (~account'[v].there \/ login[v].access # account'[v].access)
                           => account'[v].changed = rightsClock
                      /\ token[v].held
                           /\ (~account'[v].there \/ token[v].access # account'[v].access)
                           => token[v].at <= account'[v].changed
      BY DEF Dated
  <2>1. rightsClock \in Nat /\ token[v].at <= rightsClock
      BY DEF RightsInv, Rights!TypeOK, Dated
  <2>2. CASE v = u
      BY <1>2, <2>1, <2>2
  <2>3. CASE v # u
      BY <1>3, <2>3 DEF RightsInv, Dated
  <2> QED BY <2>2, <2>3
<1> QED BY <1>1, <1>4, <1>5

\* What a handler stores fits.
LEMMA ScopedFits ==
  ASSUME Rights!AccountsAssumption, NEW draft \in Rights!Drafts,
         draft.role = "client" => draft.props # {}
  PROVE  Rights!Scoped(draft) \in Rights!Access /\ Fits(Rights!Scoped(draft))
BY DEF Rights!AccountsAssumption, Rights!Drafts, Rights!Scoped, Rights!Access,
   Fits

LEMMA RightsStep == ASSUME Rights!AccountsAssumption
  PROVE RightsInv /\ [Rights!Next]_(Rights!vars) => RightsInv'
<1> SUFFICES ASSUME RightsInv, [Rights!Next]_(Rights!vars) PROVE RightsInv'
    OBVIOUS
<1> USE DEF Rights!AccountsAssumption
<1>1. CASE Rights!Tick
  <2>1. Rights!TypeOK'
      BY <1>1 DEF Rights!Tick, RightsInv, Rights!TypeOK
  <2>2. Stored'
      BY <1>1 DEF Rights!Tick, RightsInv, Stored
  <2>3. Dated'
      BY <1>1 DEF Rights!Tick, RightsInv, Rights!TypeOK, Dated
  <2> QED BY <2>1, <2>2, <2>3 DEF RightsInv
<1>2. ASSUME NEW u \in RightsParams.Users, Rights!LoginRead(u) PROVE RightsInv'
  <2>1. Rights!TypeOK'
      BY <1>2 DEF Rights!LoginRead, RightsInv, Rights!TypeOK
  <2>2. Stored'
      BY <1>2 DEF Rights!LoginRead, RightsInv, Stored
  <2>3. Dated'
      BY <1>2 DEF Rights!LoginRead, RightsInv, Rights!TypeOK, Dated
  <2> QED BY <2>1, <2>2, <2>3 DEF RightsInv
<1>3. ASSUME NEW u \in RightsParams.Users, Rights!LoginSign(u) PROVE RightsInv'
  <2>1. Rights!TypeOK'
      BY <1>3 DEF Rights!LoginSign, RightsInv, Rights!TypeOK
  <2>2. Stored'
      BY <1>3 DEF Rights!LoginSign, RightsInv, Stored
  <2>3. Dated'
    <3>1. rightsClock \in Nat
        BY DEF RightsInv, Rights!TypeOK
    <3> QED BY <1>3, <3>1 DEF Rights!LoginSign, RightsInv, Rights!TypeOK, Dated
  <2> QED BY <2>1, <2>2, <2>3 DEF RightsInv
<1>4. ASSUME NEW u \in RightsParams.Users, Rights!SignOut(u) PROVE RightsInv'
  <2> DEFINE Token == [held : BOOLEAN, access : Rights!Access, at : 0..RightsParams.MaxClock]
  <2>1. token \in [RightsParams.Users -> Token] /\ Rights!TypeOK
    BY DEF RightsInv, Rights!TypeOK
  <2>2. token' = [token EXCEPT ![u].held = FALSE]
    BY <1>4 DEF Rights!SignOut
  <2>3. /\ token' \in [RightsParams.Users -> Token]
        /\ \A v \in RightsParams.Users :
             /\ token'[v].at = token[v].at
                /\ token'[v].access = token[v].access
             /\ token'[v].held => token[v].held
    BY <2>1, <2>2
  <2>4. Rights!TypeOK'
    BY <1>4, <2>1, <2>3 DEF Rights!SignOut, Rights!TypeOK
  <2>5. Stored'
    BY <1>4 DEF Rights!SignOut, RightsInv, Stored
  <2>6. Dated'
    BY <1>4, <2>3 DEF Rights!SignOut, RightsInv, Dated
  <2> QED BY <2>4, <2>5, <2>6 DEF RightsInv
<1>5. ASSUME NEW a \in RightsParams.Users, Rights!UpdateWrite(a)
          PROVE RightsInv'
  <2> DEFINE u == saving[a].target
  <2>1. saving' \in [RightsParams.Users ->
                     [busy : BOOLEAN, target : RightsParams.Users, access : Rights!Access]]
        /\ \A v \in RightsParams.Users : saving'[v].busy
           => Fits(saving'[v].access)
      BY <1>5 DEF Rights!UpdateWrite, RightsInv, Rights!TypeOK, Stored
  <2>2. u \in RightsParams.Users /\ saving[a].access \in Rights!Access
            /\ Fits(saving[a].access)
      BY <1>5 DEF Rights!UpdateWrite, RightsInv, Rights!TypeOK, Stored
  <2>3. CASE account[u].there
    <3>1. Rights!Store(u, TRUE, saving[a].access) /\ UNCHANGED <<rightsClock,
              token, login, rightsEdits>>
        BY <1>5, <2>3 DEF Rights!UpdateWrite
    <3>2. /\ account' \in [RightsParams.Users ->
                           [there : BOOLEAN, access : Rights!Access, changed : 0..RightsParams.MaxClock]]
          /\ \A v \in RightsParams.Users : account'[v].there
             => Fits(account'[v].access)
          /\ Dated'
        BY <2>2, <3>1, StoreKeeps
    <3> QED BY <2>1, <3>1, <3>2 DEF RightsInv, Rights!TypeOK, Stored
  <2>4. CASE ~account[u].there
    <3>1. UNCHANGED <<account, rightsClock, token, login, rightsEdits>>
        BY <1>5, <2>4 DEF Rights!UpdateWrite
    <3> QED BY <2>1, <3>1 DEF RightsInv, Rights!TypeOK, Stored, Dated
  <2> QED BY <2>3, <2>4
<1>6. ASSUME NEW a \in RightsParams.Users, NEW u \in RightsParams.Users,
          Rights!DeleteUser(a, u) PROVE RightsInv'
  <2>1. Rights!Store(u, FALSE, Rights!NoAccess) /\ UNCHANGED <<rightsClock,
            token, login, saving>>
      BY <1>6 DEF Rights!DeleteUser
  <2>2. Rights!NoAccess \in Rights!Access
      BY DEF Rights!NoAccess, Rights!Unconfined, Rights!Access, Rights!Roles
  <2>3. /\ account' \in [RightsParams.Users ->
                         [there : BOOLEAN, access : Rights!Access, changed : 0..RightsParams.MaxClock]]
        /\ \A v \in RightsParams.Users : account'[v].there
           => Fits(account'[v].access)
        /\ Dated'
      BY <2>1, <2>2, StoreKeeps
  <2>4. rightsEdits' \in 0..RightsParams.MaxEdits
      BY <1>6 DEF Rights!DeleteUser, RightsInv, Rights!TypeOK
  <2> QED BY <2>1, <2>3, <2>4 DEF RightsInv, Rights!TypeOK, Stored
<1>7. ASSUME NEW a \in RightsParams.Users, NEW u \in RightsParams.Users,
          NEW draft \in Rights!Drafts,
             Rights!CreateUser(a, u, draft)
      PROVE  RightsInv'
  <2>1. Rights!Store(u, TRUE, Rights!Scoped(draft)) /\ UNCHANGED <<rightsClock,
            token, login, saving>>
      BY <1>7 DEF Rights!CreateUser
  <2>2. Rights!Scoped(draft) \in Rights!Access /\ Fits(Rights!Scoped(draft))
      BY <1>7, ScopedFits DEF Rights!CreateUser
  <2>3. /\ account' \in [RightsParams.Users ->
                         [there : BOOLEAN, access : Rights!Access, changed : 0..RightsParams.MaxClock]]
        /\ \A v \in RightsParams.Users : account'[v].there
           => Fits(account'[v].access)
        /\ Dated'
      BY <2>1, <2>2, StoreKeeps
  <2>4. rightsEdits' \in 0..RightsParams.MaxEdits
      BY <1>7 DEF Rights!CreateUser, RightsInv, Rights!TypeOK
  <2> QED BY <2>1, <2>3, <2>4 DEF RightsInv, Rights!TypeOK, Stored
<1>8. ASSUME NEW a \in RightsParams.Users, NEW u \in RightsParams.Users,
          NEW draft \in Rights!Drafts,
             Rights!UpdateRead(a, u, draft)
      PROVE  RightsInv'
  <2>1. /\ saving' = [saving EXCEPT ![a] =
                        [busy |-> TRUE, target |-> u, access |-> Rights!Scoped(draft)]]
        /\ UNCHANGED <<rightsClock, account, token, login>>
      BY <1>8 DEF Rights!UpdateRead
  <2>2. Rights!Scoped(draft) \in Rights!Access /\ Fits(Rights!Scoped(draft))
      BY <1>8, ScopedFits DEF Rights!UpdateRead
  <2>3. Rights!TypeOK'
    <3>1. rightsEdits' \in 0..RightsParams.MaxEdits
        BY <1>8 DEF Rights!UpdateRead, RightsInv, Rights!TypeOK
    <3> QED BY <2>1, <2>2, <3>1 DEF RightsInv, Rights!TypeOK
  <2>4. Stored'
      BY <2>1, <2>2 DEF RightsInv, Rights!TypeOK, Stored
  <2>5. Dated'
      BY <2>1 DEF RightsInv, Dated
  <2> QED BY <2>3, <2>4, <2>5 DEF RightsInv
<1>9. CASE UNCHANGED Rights!vars
    BY <1>9 DEF Rights!vars, RightsInv, Rights!TypeOK, Stored, Dated
<1> QED BY <1>1, <1>2, <1>3, <1>4, <1>5, <1>6, <1>7, <1>8, <1>9 DEF Rights!Next

\* The whitelist only narrows, and what the menu offers is answered.
LEMMA MenuLemma ==
  ASSUME NEW a \in Rights!Access
  PROVE  /\ \A r \in Rights!Requests : Rights!Admits(a, r)
            => Rights!Admits([a EXCEPT !.pages = {}], r)
         /\ \A p \in Rights!Menu(a) : Rights!Admits(a, Rights!MainRequest(p))
            /\ Rights!Serves(a, Rights!MainRequest(p))
<1>1. \A r \in Rights!Requests : Rights!Admits(a, r)
          => Rights!Admits([a EXCEPT !.pages = {}], r)
    BY DEF Rights!Admits, Rights!Access
<1>2. ASSUME NEW p \in Rights!Menu(a)
      PROVE  Rights!Admits(a, Rights!MainRequest(p)) /\ Rights!Serves(a, Rights!MainRequest(p))
  <2>1. Rights!MainRequest(p).page = Rights!PageOf(p)
            /\ ~Rights!MainRequest(p).write
        /\ Rights!MainRequest(p).needs =
             IF p \in {"updates", "troubleshoot", "settings"} THEN "staff" ELSE "any"
      BY DEF Rights!MainRequest
  <2>2. a.role # "admin" /\ a.pages # {} => p \in a.pages
      BY DEF Rights!Menu
  <2>3. Rights!PageOf(p) \in {p, ""}
      BY DEF Rights!PageOf
  <2>4. Rights!Admits(a, Rights!MainRequest(p))
      BY <2>1, <2>2, <2>3 DEF Rights!Admits
  <2>5. a.role \in {"client", "operator"} => p \notin {"updates", "troubleshoot", "settings"}
      BY DEF Rights!Menu
  <2>6. a.role \in Rights!Roles
      BY DEF Rights!Access
  <2>7. Rights!Serves(a, Rights!MainRequest(p))
      BY <2>1, <2>5, <2>6 DEF Rights!Serves, Rights!Roles
  <2> QED BY <2>4, <2>7
<1> QED BY <1>1, <1>2

\* Confinement, the lapse of rights and the menu follow.
LEMMA RightsSound == ASSUME Rights!AccountsAssumption
  PROVE RightsInv => Rights!AccountsSound
<1> SUFFICES ASSUME RightsInv PROVE Rights!AccountsSound
    OBVIOUS
<1>1. Rights!ClientsScoped
    BY DEF RightsInv, Stored, Fits, Rights!ClientsScoped
<1>2. Rights!RightsLapse
  <2> SUFFICES ASSUME NEW u \in RightsParams.Users, Rights!Valid(u),
                      ~account[u].there \/ token[u].access # account[u].access
               PROVE  rightsClock < account[u].changed + RightsParams.Ttl
      BY DEF Rights!RightsLapse
  <2>1. rightsClock \in Nat /\ token[u].at \in Nat
            /\ account[u].changed \in Nat
      BY DEF RightsInv, Rights!TypeOK
  <2>2. token[u].at <= account[u].changed
      BY DEF Rights!Valid, RightsInv, Dated
  <2>3. rightsClock < token[u].at + RightsParams.Ttl
      BY DEF Rights!Valid
  <2> QED BY <2>1, <2>2, <2>3 DEF Rights!AccountsAssumption
<1>3. Rights!MenuFits
  <2>1. \A u \in RightsParams.Users : token[u].access \in Rights!Access
      BY DEF RightsInv, Rights!TypeOK
  <2> QED BY <2>1, MenuLemma DEF Rights!MenuFits
<1> QED BY <1>1, <1>2, <1>3 DEF Rights!AccountsSound

\* Clients stay confined to at least one property and nobody else is, rights
\* lapse at most a token's life after they were taken away, and the pages of the
\* menu are those the server answers (settings.controller.ts:208-224,
\* auth.guard.ts:63, Layout.tsx:27).
THEOREM AccountsHold == Spec => []AccountsSound
<1> DEFINE I == part = "rights" => RightsInv
<1>0. Rights!AccountsAssumption
  BY PartsAssumption
<1>1. Init => I
  BY <1>0, RightsInit DEF Init
<1>2. I /\ [Next]_vars => I'
  BY <1>0, PartSteps, RightsStep
<1>3. I => AccountsSound
  BY <1>0, RightsSound DEF AccountsSound
<1> QED
  BY <1>1, <1>2, <1>3, PTL DEF Spec

-----------------------------------------------------------------------------
\* The public routes: what is counted, and who is welcomed.

CallShape ==
  [op : {"idle", "subscribe", "unsubscribe", "view", "click", "sale"},
   arg : IntakeParams.Browsers \cup IntakeParams.Paths \cup IntakeParams.Sends
           \cup {"", "direct"},
   at : Intake!Steps, found : BOOLEAN]

\* Types without the bounds.
IntakeTyped ==
  /\ sub \in [IntakeParams.Browsers -> {"none", "active", "unsubscribed"}]
  /\ welcomed \in [IntakeParams.Browsers -> Nat]
  /\ views \in [IntakeParams.Paths -> Nat]
  /\ intakeTold \in [IntakeParams.Paths -> Nat]
  /\ leadClicks \in Nat /\ campClicks \in Nat
  /\ call \in [IntakeParams.Calls -> CallShape]
  /\ \A c \in IntakeParams.Calls :
       /\ call[c].op = "subscribe" => call[c].arg \in IntakeParams.Browsers
       /\ call[c].op = "view" => call[c].arg \in IntakeParams.Paths
  /\ lost \in [{"welcome", "lead", "campaign"} -> Nat]

ClicksKept == IsFiniteSet(clicked) /\ Intake!ClicksExact

\* The pages, and those about to be created.
Creating == Intake!UnderWay("view", {"create"})
PagesKept ==
  /\ IsFiniteSet(Intake!PagesStored) /\ intakeTold = views
  /\ Cardinality(Intake!PagesStored) + Cardinality(Creating)
       <= IntakeParams.PageCap + Cardinality(IntakeParams.Calls) - 1
  /\ \A c \in IntakeParams.Calls :
       call[c].op = "view" /\ call[c].at = "row" => views[call[c].arg] > 0

\* Subscribes that have not found the lead and are to welcome it.
Fresh(b) ==
  {c \in IntakeParams.Calls :
     /\ call[c].op = "subscribe" /\ call[c].arg = b
     /\ call[c].at \in {"upsert", "welcome"} /\ ~call[c].found}
Greeting(b) == {c \in Fresh(b) : call[c].at = "welcome"}

Greeted ==
  \A b \in IntakeParams.Browsers :
    /\ welcomed[b] + Cardinality(Fresh(b)) <= Cardinality(IntakeParams.Calls)
    /\ sub[b] = "none" => welcomed[b] = 0
    /\ \A c \in IntakeParams.Calls :
         /\ call[c].op = "subscribe" /\ call[c].arg = b
         /\ (call[c].at = "upsert" /\ call[c].found) \/ call[c].at = "welcome"
         => sub[b] # "none"
    /\ sub[b] # "none" /\ lost["welcome"] = 0
         => welcomed[b] > 0 \/ Greeting(b) # {}

IntakeInv == IntakeTyped /\ ClicksKept /\ PagesKept /\ Greeted

\* The operators of FiniteSets are the same wherever the module is used.
LEMMA IntakeSets ==
  \A S : /\ Intake!Cardinality(S) = Cardinality(S)
         /\ Intake!IsFiniteSet(S) <=> IsFiniteSet(S)
BY DEF Intake!Cardinality, Cardinality, Intake!IsFiniteSet, IsFiniteSet

LEMMA SomeCalls ==
  ASSUME Intake!IntakeAssumption, NEW A \in SUBSET IntakeParams.Calls
  PROVE  /\ IsFiniteSet(A) /\ Cardinality(A) \in Nat
         /\ Cardinality(IntakeParams.Calls) \in Nat
         /\ Cardinality(A) <= Cardinality(IntakeParams.Calls)
BY FS_Subset, FS_CardinalityType, IntakeSets DEF Intake!IntakeAssumption

LEMMA AtLeastOneCall ==
  ASSUME Intake!IntakeAssumption
  PROVE  Cardinality(IntakeParams.Calls) \in Nat \ {0}
<1>1. IsFiniteSet(IntakeParams.Calls) /\ IntakeParams.Calls # {}
  BY IntakeSets DEF Intake!IntakeAssumption
<1>2. Cardinality(IntakeParams.Calls) \in Nat
        /\ Cardinality(IntakeParams.Calls) # 0
  BY <1>1, FS_CardinalityType, FS_EmptySet
<1> QED
  BY <1>2

LEMMA Joins ==
  ASSUME NEW A, NEW c, IsFiniteSet(A), c \notin A
  PROVE  /\ IsFiniteSet(A \cup {c}) /\ Cardinality(A) \in Nat
         /\ Cardinality(A \cup {c}) = Cardinality(A) + 1
BY FS_AddElement, FS_CardinalityType

LEMMA Drops ==
  ASSUME NEW A, NEW c, IsFiniteSet(A), c \in A
  PROVE  /\ IsFiniteSet(A \ {c}) /\ Cardinality(A \ {c}) \in Nat
         /\ Cardinality(A) = Cardinality(A \ {c}) + 1
<1>1. IsFiniteSet(A \ {c}) /\ Cardinality(A \ {c}) = Cardinality(A) - 1
  BY FS_RemoveElement
<1>2. Cardinality(A) \in Nat /\ Cardinality(A \ {c}) \in Nat
  BY <1>1, FS_CardinalityType
<1> QED
  BY <1>1, <1>2

LEMMA Split ==
  ASSUME NEW A, NEW D, IsFiniteSet(A)
  PROVE  /\ Cardinality(D \cap A) \in Nat /\ Cardinality(A \ D) \in Nat
         /\ Cardinality(A) = Cardinality(D \cap A) + Cardinality(A \ D)
<1>1. IsFiniteSet(D \cap A) /\ IsFiniteSet(A \ D)
  BY FS_Subset
<1>2. Cardinality(A) \in Nat /\ Cardinality(D \cap A) \in Nat
        /\ Cardinality(A \ D) \in Nat
  BY <1>1, FS_CardinalityType
<1>3. Cardinality(A \ D) = Cardinality(A) - Cardinality(A \cap D)
  BY FS_Difference
<1>4. A \cap D = D \cap A
  OBVIOUS
<1> QED
  BY <1>2, <1>3, <1>4

LEMMA IdleShape == Intake!Idle \in CallShape /\ Intake!Idle.op = "idle"
BY DEF Intake!Idle, CallShape, Intake!Steps

LEMMA IntakeInit == Intake!IntakeAssumption /\ Intake!Init => IntakeInv
<1> SUFFICES ASSUME Intake!IntakeAssumption, Intake!Init PROVE IntakeInv
  OBVIOUS
<1>0. \A c \in IntakeParams.Calls : call[c] = Intake!Idle
  BY DEF Intake!Init
<1>1. IntakeTyped
  <2>1. \A c \in IntakeParams.Calls : call[c].op = "idle"
    BY <1>0, IdleShape
  <2> QED
    BY <2>1, IdleShape DEF Intake!Init, IntakeTyped
<1>2. /\ Intake!UnderWay("click", {"lead"}) = {}
      /\ Intake!UnderWay("click", {"lead", "campaign"}) = {}
      /\ Creating = {} /\ Intake!PagesStored = {} /\ \A b : Fresh(b) = {}
  <2>1. \A c \in IntakeParams.Calls : call[c].op = "idle"
    BY <1>0, IdleShape
  <2>2. \A p \in IntakeParams.Paths : views[p] = 0
    BY DEF Intake!Init
  <2> QED
    BY <2>1, <2>2 DEF Intake!UnderWay, Creating, Fresh, Intake!PagesStored
<1>3. IsFiniteSet({}) /\ Cardinality({}) = 0
  BY FS_EmptySet
<1>4. ClicksKept
  <2>1. /\ clicked = {} /\ leadClicks = 0 /\ campClicks = 0
        /\ lost["lead"] = 0 /\ lost["campaign"] = 0
    BY DEF Intake!Init
  <2> QED
    BY <1>2, <1>3, <2>1, IntakeSets DEF ClicksKept, Intake!ClicksExact
<1>5. PagesKept
  <2>1. IntakeParams.PageCap \in Nat
          /\ Cardinality(IntakeParams.Calls) \in Nat \ {0}
    BY AtLeastOneCall, IntakeSets DEF Intake!IntakeAssumption
  <2>2. \A c \in IntakeParams.Calls : call[c].op # "view"
    BY <1>0, IdleShape
  <2> QED
    BY <1>2, <1>3, <2>1, <2>2 DEF PagesKept, Intake!Init
<1>6. Greeted
  <2>1. Cardinality(IntakeParams.Calls) \in Nat \ {0}
    BY AtLeastOneCall
  <2>2. \A c \in IntakeParams.Calls : call[c].op # "subscribe"
    BY <1>0, IdleShape
  <2>3. \A b \in IntakeParams.Browsers : welcomed[b] = 0 /\ sub[b] = "none"
    BY DEF Intake!Init
  <2>4. \A b \in IntakeParams.Browsers :
          welcomed[b] + Cardinality(Fresh(b))
          <= Cardinality(IntakeParams.Calls)
    <3> TAKE b \in IntakeParams.Browsers
    <3>1. Fresh(b) = {} /\ welcomed[b] = 0
      BY <1>2, <2>3
    <3>2. Cardinality(Fresh(b)) = 0
      BY <1>3, <3>1
    <3> QED
      BY <2>1, <3>1, <3>2
  <2> QED
    BY <2>2, <2>3, <2>4 DEF Greeted
<1> QED
  BY <1>1, <1>4, <1>5, <1>6 DEF IntakeInv

-----------------------------------------------------------------------------
\* The handler c goes on to r; the others stay where they are.
Goes(c, r) ==
  /\ call' \in [IntakeParams.Calls -> CallShape] /\ call'[c] = r
  /\ \A d \in IntakeParams.Calls \ {c} : call'[d] = call[d]

LEMMA GoingOn ==
  ASSUME IntakeTyped, NEW c \in IntakeParams.Calls
  PROVE  /\ \A r \in CallShape : call' = [call EXCEPT ![c] = r] => Goes(c, r)
         /\ \A s \in Intake!Steps : Intake!Goto(c, s)
              => Goes(c, [call[c] EXCEPT !.at = s])
         /\ Intake!Answer(c) => Goes(c, Intake!Idle)
<1>1. \A r \in CallShape : call' = [call EXCEPT ![c] = r] => Goes(c, r)
  BY DEF Goes, IntakeTyped
<1>2. ASSUME NEW s \in Intake!Steps, Intake!Goto(c, s)
      PROVE  Goes(c, [call[c] EXCEPT !.at = s])
  <2>1. call[c] \in CallShape
    BY DEF IntakeTyped
  <2>2. [call[c] EXCEPT !.at = s] \in CallShape
    BY <2>1 DEF CallShape
  <2>3. call' = [call EXCEPT ![c] = [call[c] EXCEPT !.at = s]]
    BY <1>2 DEF Intake!Goto
  <2> QED
    BY <1>1, <2>2, <2>3
<1>3. Intake!Answer(c) => Goes(c, Intake!Idle)
  BY <1>1, IdleShape DEF Intake!Answer
<1> QED
  BY <1>1, <1>2, <1>3

LEMMA AtFields ==
  ASSUME NEW r \in CallShape, NEW s \in Intake!Steps
  PROVE  /\ [r EXCEPT !.at = s] \in CallShape
         /\ [r EXCEPT !.at = s].at = s /\ [r EXCEPT !.at = s].op = r.op
         /\ [r EXCEPT !.at = s].arg = r.arg
         /\ [r EXCEPT !.at = s].found = r.found
BY DEF CallShape

\* What the others count is not disturbed.
LEMMA ClicksStay ==
  ASSUME IntakeInv, NEW c \in IntakeParams.Calls, NEW r, Goes(c, r),
         UNCHANGED <<clicked, leadClicks, campClicks, lost>>,
         call[c].op = "click" => call[c].at \notin {"lead", "campaign"},
         r.op = "click" => r.at \notin {"lead", "campaign"}
  PROVE  ClicksKept'
<1>1. /\ Intake!UnderWay("click", {"lead"})'
           = Intake!UnderWay("click", {"lead"})
      /\ Intake!UnderWay("click", {"lead", "campaign"})'
           = Intake!UnderWay("click", {"lead", "campaign"})
  BY DEF Intake!UnderWay, Goes
<1> QED
  BY <1>1, IntakeSets DEF IntakeInv, ClicksKept, Intake!ClicksExact

LEMMA PagesStay ==
  ASSUME Intake!IntakeAssumption, IntakeInv, NEW c \in IntakeParams.Calls,
         NEW r, Goes(c, r),
         UNCHANGED <<views, intakeTold>>, r.op = "view" => r.at # "create",
         r.op = "view" /\ r.at = "row" => views[r.arg] > 0
  PROVE  PagesKept'
<1>1. Creating' \subseteq Creating /\ Creating \subseteq IntakeParams.Calls
  BY DEF Creating, Intake!UnderWay, Goes
<1>2. /\ IsFiniteSet(Creating) /\ Cardinality(Creating) \in Nat
      /\ IsFiniteSet(Creating') /\ Cardinality(Creating') \in Nat
  BY <1>1, SomeCalls
<1>3. Cardinality(Creating') <= Cardinality(Creating)
  BY <1>1, <1>2, FS_Subset
<1>4. Intake!PagesStored' = Intake!PagesStored
        /\ IsFiniteSet(Intake!PagesStored)
  BY DEF Intake!PagesStored, IntakeInv, PagesKept
<1>5. Cardinality(Intake!PagesStored) \in Nat
        /\ Cardinality(IntakeParams.Calls) \in Nat
        /\ IntakeParams.PageCap \in Nat
  BY <1>4, FS_CardinalityType, AtLeastOneCall, IntakeSets
     DEF Intake!IntakeAssumption
<1>6. \A d \in IntakeParams.Calls : call'[d].op = "view" /\ call'[d].at = "row"
                      => views[call'[d].arg] > 0
  BY DEF Goes, IntakeInv, PagesKept
<1>7. Cardinality(Intake!PagesStored) + Cardinality(Creating')
        <= IntakeParams.PageCap + Cardinality(IntakeParams.Calls) - 1
  BY <1>2, <1>3, <1>5 DEF IntakeInv, PagesKept
<1> QED
  BY <1>4, <1>6, <1>7 DEF IntakeInv, PagesKept

LEMMA GreetedStay ==
  ASSUME Intake!IntakeAssumption, IntakeInv, NEW c \in IntakeParams.Calls,
         NEW r, Goes(c, r),
         UNCHANGED <<sub, welcomed>>, lost'["welcome"] = lost["welcome"],
         call[c].op = "subscribe" => call[c].at # "welcome",
         r.op = "subscribe" => r.at \notin {"upsert", "welcome"}
  PROVE  Greeted'
<1> SUFFICES ASSUME NEW b \in IntakeParams.Browsers
             PROVE  /\ welcomed[b] + Cardinality(Fresh(b)')
                         <= Cardinality(IntakeParams.Calls)
                    /\ sub[b] = "none" => welcomed[b] = 0
                    /\ \A d \in IntakeParams.Calls :
                         /\ call'[d].op = "subscribe" /\ call'[d].arg = b
                         /\ (call'[d].at = "upsert" /\ call'[d].found)
                              \/ call'[d].at = "welcome"
                         => sub[b] # "none"
                    /\ sub[b] # "none" /\ lost["welcome"] = 0
                         => welcomed[b] > 0 \/ Greeting(b)' # {}
  BY DEF Greeted
<1>1. Fresh(b)' \subseteq Fresh(b) /\ Fresh(b) \subseteq IntakeParams.Calls
  BY DEF Fresh, Goes
<1>2. Greeting(b)' = Greeting(b)
  BY DEF Fresh, Greeting, Goes
<1>3. Cardinality(Fresh(b)') <= Cardinality(Fresh(b))
  BY <1>1, SomeCalls, FS_Subset
<1>4. /\ Cardinality(Fresh(b)') \in Nat /\ Cardinality(Fresh(b)) \in Nat
      /\ Cardinality(IntakeParams.Calls) \in Nat /\ welcomed[b] \in Nat
  BY <1>1, SomeCalls DEF IntakeInv, IntakeTyped
<1>5. welcomed[b] + Cardinality(Fresh(b)) <= Cardinality(IntakeParams.Calls)
  BY DEF IntakeInv, Greeted
<1>6. /\ sub[b] = "none" => welcomed[b] = 0
      /\ sub[b] # "none" /\ lost["welcome"] = 0 => welcomed[b] > 0
           \/ Greeting(b) # {}
  BY DEF IntakeInv, Greeted
<1>7. ASSUME NEW d \in IntakeParams.Calls, call'[d].op = "subscribe",
               call'[d].arg = b,
             (call'[d].at = "upsert" /\ call'[d].found)
               \/ call'[d].at = "welcome"
      PROVE  sub[b] # "none"
  <2>1. d # c /\ call'[d] = call[d]
    BY <1>7 DEF Goes
  <2> QED
    BY <1>7, <2>1 DEF IntakeInv, Greeted
<1>8. welcomed[b] + Cardinality(Fresh(b)') <= Cardinality(IntakeParams.Calls)
  BY <1>3, <1>4, <1>5
<1> QED
  BY <1>2, <1>6, <1>7, <1>8

-----------------------------------------------------------------------------
\* A step that no count looks at.
LEMMA QuietStep ==
  ASSUME Intake!IntakeAssumption, IntakeInv, NEW c \in IntakeParams.Calls,
         NEW r, Goes(c, r),
         UNCHANGED <<sub, welcomed, views, intakeTold, clicked, leadClicks,
           campClicks,
                     lost>>,
         call[c].op = "click" => call[c].at \notin {"lead", "campaign"},
         call[c].op = "subscribe" => call[c].at # "welcome",
         r.op = "click" => r.at \notin {"lead", "campaign"},
         r.op = "view" => r.at # "create",
         r.op = "view" /\ r.at = "row" => views[r.arg] > 0,
         r.op = "subscribe" => r.at \notin {"upsert", "welcome"},
         r.op = "subscribe" => r.arg \in IntakeParams.Browsers,
         r.op = "view" => r.arg \in IntakeParams.Paths
  PROVE  IntakeInv'
<1>1. IntakeTyped'
  BY DEF IntakeInv, IntakeTyped, Goes
<1>2. ClicksKept'
  BY ClicksStay
<1>3. PagesKept'
  BY PagesStay
<1>4. Greeted'
  BY GreetedStay
<1> QED
  BY <1>1, <1>2, <1>3, <1>4 DEF IntakeInv

LEMMA RequestStep ==
  ASSUME Intake!IntakeAssumption, IntakeInv, NEW c \in IntakeParams.Calls,
         Intake!Request(c)
  PROVE  IntakeInv'
<1>1. SUFFICES ASSUME NEW op \in {"subscribe", "unsubscribe", "view", "click",
                                  "sale"},
                      NEW arg \in IntakeParams.Browsers \cup IntakeParams.Paths
                                    \cup IntakeParams.Sends
                                      \cup {"", "direct"},
                      NEW step \in {"find", "set", "flip", "create"},
                        NEW passes,
                      Intake!Arrive(c, op, arg, step, passes),
                      op = "subscribe" => arg \in IntakeParams.Browsers
                        /\ step = "find",
                      op = "view" => arg \in IntakeParams.Paths
                        /\ step = "find",
                      op = "click" => step = "flip"
               PROVE  IntakeInv'
  BY DEF Intake!Request
<1> DEFINE r == [op |-> op, arg |-> arg, at |-> step, found |-> FALSE]
<1>2. /\ call[c] = Intake!Idle /\ call' = [call EXCEPT ![c] = r]
      /\ UNCHANGED <<Intake!rows, lost>>
  BY <1>1 DEF Intake!Arrive
<1>3. r \in CallShape /\ r.op = op /\ r.arg = arg /\ r.at = step
  BY DEF CallShape, Intake!Steps
<1> HIDE DEF r
<1>4. Goes(c, r)
  BY <1>2, <1>3, GoingOn DEF IntakeInv
<1>5. UNCHANGED <<sub, welcomed, views, intakeTold, clicked, leadClicks,
        campClicks, lost>>
  BY <1>2 DEF Intake!rows
<1>6. call[c].op = "idle"
  BY <1>2, IdleShape
<1> QED
  BY <1>1, <1>3, <1>4, <1>5, <1>6, QuietStep

\* The end of a request that nobody counts.
LEMMA EndStep ==
  ASSUME Intake!IntakeAssumption, IntakeInv, NEW c \in IntakeParams.Calls,
         Intake!Answer(c),
         UNCHANGED <<sub, welcomed, views, intakeTold, clicked, leadClicks,
           campClicks,
                     lost>>,
         call[c].op = "click" => call[c].at \notin {"lead", "campaign"},
         call[c].op = "subscribe" => call[c].at # "welcome"
  PROVE  IntakeInv'
<1>1. Goes(c, Intake!Idle)
  BY GoingOn DEF IntakeInv
<1> QED
  BY <1>1, IdleShape, QuietStep

-----------------------------------------------------------------------------
\* subscribe()

LEMMA FindLeadStep ==
  ASSUME Intake!IntakeAssumption, IntakeInv, NEW c \in IntakeParams.Calls,
         Intake!FindLead(c)
  PROVE  IntakeInv'
<1> DEFINE lead == call[c].arg
           there == sub[lead] # "none"
           r == [call[c] EXCEPT !.at = "upsert", !.found = there]
<1>0. call[c] \in CallShape /\ IntakeTyped
  BY DEF IntakeInv, IntakeTyped
<1>1. /\ call[c].op = "subscribe" /\ call[c].at = "find"
      /\ lead \in IntakeParams.Browsers
      /\ call' = [call EXCEPT ![c] = r]
      /\ UNCHANGED <<Intake!rows, lost>>
  BY <1>0 DEF Intake!FindLead, Intake!In, IntakeTyped
<1>2. /\ r \in CallShape /\ r.op = "subscribe" /\ r.arg = lead
      /\ r.at = "upsert"
      /\ r.found = there
  BY <1>0, <1>1 DEF CallShape, Intake!Steps
<1> HIDE DEF r
<1>3. Goes(c, r)
  BY <1>0, <1>1, <1>2, GoingOn
<1>4. UNCHANGED <<sub, welcomed, views, intakeTold, clicked, leadClicks,
        campClicks, lost>>
  BY <1>1 DEF Intake!rows
<1>5. IntakeTyped'
  BY <1>0, <1>1, <1>2, <1>3, <1>4 DEF IntakeTyped, Goes
<1>6. ClicksKept' /\ PagesKept'
  BY <1>1, <1>2, <1>3, <1>4, ClicksStay, PagesStay
<1>7. Greeted'
  <2> SUFFICES ASSUME NEW b \in IntakeParams.Browsers
               PROVE  /\ welcomed[b] + Cardinality(Fresh(b)')
                           <= Cardinality(IntakeParams.Calls)
                      /\ sub[b] = "none" => welcomed[b] = 0
                      /\ \A d \in IntakeParams.Calls :
                           /\ call'[d].op = "subscribe" /\ call'[d].arg = b
                           /\ (call'[d].at = "upsert" /\ call'[d].found)
                                \/ call'[d].at = "welcome"
                           => sub[b] # "none"
                      /\ sub[b] # "none" /\ lost["welcome"] = 0
                           => welcomed[b] > 0 \/ Greeting(b)' # {}
    BY <1>4 DEF Greeted
  <2>1. Greeting(b)' = Greeting(b)
    BY <1>1, <1>2, <1>3 DEF Fresh, Greeting, Goes
  <2>2. /\ sub[b] = "none" => welcomed[b] = 0
        /\ sub[b] # "none" /\ lost["welcome"] = 0 => welcomed[b] > 0
             \/ Greeting(b) # {}
        /\ welcomed[b] + Cardinality(Fresh(b))
             <= Cardinality(IntakeParams.Calls)
    BY DEF IntakeInv, Greeted
  <2>3. ASSUME NEW d \in IntakeParams.Calls, call'[d].op = "subscribe",
                 call'[d].arg = b,
               (call'[d].at = "upsert" /\ call'[d].found)
                 \/ call'[d].at = "welcome"
        PROVE  sub[b] # "none"
    <3>1. CASE d = c
      BY <1>2, <1>3, <2>3, <3>1 DEF Goes
    <3>2. CASE d # c
      <4>1. call'[d] = call[d]
        BY <1>3, <3>2 DEF Goes
      <4> QED
        BY <2>3, <4>1 DEF IntakeInv, Greeted
    <3> QED
      BY <3>1, <3>2
  <2>4. welcomed[b] + Cardinality(Fresh(b)') <= Cardinality(IntakeParams.Calls)
    <3>1. CASE sub[b] = "none"
      <4>1. Fresh(b)' \subseteq IntakeParams.Calls
        BY DEF Fresh
      <4>2. /\ Cardinality(Fresh(b)') <= Cardinality(IntakeParams.Calls)
            /\ Cardinality(Fresh(b)') \in Nat
            /\ Cardinality(IntakeParams.Calls) \in Nat
        BY <4>1, SomeCalls
      <4> QED
        BY <2>2, <3>1, <4>2
    <3>2. CASE sub[b] # "none"
      <4>1. Fresh(b)' = Fresh(b)
        BY <1>1, <1>2, <1>3, <3>2 DEF Fresh, Goes
      <4> QED
        BY <2>2, <4>1
    <3> QED
      BY <3>1, <3>2
  <2> QED
    BY <2>1, <2>2, <2>3, <2>4
<1> QED
  BY <1>5, <1>6, <1>7 DEF IntakeInv

LEMMA UpsertStep ==
  ASSUME Intake!IntakeAssumption, IntakeInv, NEW c \in IntakeParams.Calls,
         Intake!Upsert(c)
  PROVE  IntakeInv'
<1> DEFINE lead == call[c].arg
           r == [call[c] EXCEPT !.at = "welcome"]
<1>0. call[c] \in CallShape /\ IntakeTyped
  BY DEF IntakeInv, IntakeTyped
<1>1. /\ call[c].op = "subscribe" /\ call[c].at = "upsert"
      /\ lead \in IntakeParams.Browsers
      /\ Intake!Goto(c, "welcome")
      /\ sub' = [sub EXCEPT ![lead] = "active"]
      /\ UNCHANGED <<welcomed, views, intakeTold, clicked, leadClicks,
           campClicks, lost>>
  BY <1>0 DEF Intake!Upsert, Intake!In, IntakeTyped
<1>2. /\ r \in CallShape /\ r.op = "subscribe" /\ r.arg = lead
      /\ r.at = "welcome"
      /\ r.found = call[c].found
  BY <1>0, <1>1, AtFields DEF Intake!Steps
<1>3. Goes(c, r)
  BY <1>0, <1>1, GoingOn DEF Intake!Steps
<1> HIDE DEF r
<1>4. /\ sub' \in [IntakeParams.Browsers -> {"none", "active", "unsubscribed"}]
      /\ sub'[lead] = "active"
      /\ \A b \in IntakeParams.Browsers \ {lead} : sub'[b] = sub[b]
  BY <1>0, <1>1 DEF IntakeTyped
<1>5. IntakeTyped'
  BY <1>0, <1>1, <1>2, <1>3, <1>4 DEF IntakeTyped, Goes
<1>6. ClicksKept' /\ PagesKept'
  BY <1>1, <1>2, <1>3, ClicksStay, PagesStay
<1>7. Greeted'
  <2> SUFFICES ASSUME NEW b \in IntakeParams.Browsers
               PROVE  /\ welcomed[b] + Cardinality(Fresh(b)')
                           <= Cardinality(IntakeParams.Calls)
                      /\ sub'[b] = "none" => welcomed[b] = 0
                      /\ \A d \in IntakeParams.Calls :
                           /\ call'[d].op = "subscribe" /\ call'[d].arg = b
                           /\ (call'[d].at = "upsert" /\ call'[d].found)
                                \/ call'[d].at = "welcome"
                           => sub'[b] # "none"
                      /\ sub'[b] # "none" /\ lost["welcome"] = 0
                           => welcomed[b] > 0 \/ Greeting(b)' # {}
    BY <1>1 DEF Greeted
  <2>1. Fresh(b)' = Fresh(b)
    BY <1>1, <1>2, <1>3 DEF Fresh, Goes
  <2>2. /\ sub[b] = "none" => welcomed[b] = 0
        /\ sub[b] # "none" /\ lost["welcome"] = 0 => welcomed[b] > 0
             \/ Greeting(b) # {}
        /\ welcomed[b] + Cardinality(Fresh(b))
             <= Cardinality(IntakeParams.Calls)
    BY DEF IntakeInv, Greeted
  <2>3. ASSUME NEW d \in IntakeParams.Calls, call'[d].op = "subscribe",
                 call'[d].arg = b,
               (call'[d].at = "upsert" /\ call'[d].found)
                 \/ call'[d].at = "welcome"
        PROVE  sub'[b] # "none"
    <3>1. CASE b = lead
      BY <1>4, <3>1
    <3>2. CASE b # lead
      <4>1. d # c
        BY <1>2, <1>3, <2>3, <3>2 DEF Goes
      <4>2. call'[d] = call[d]
        BY <1>3, <4>1 DEF Goes
      <4> QED
        BY <1>4, <2>3, <3>2, <4>2 DEF IntakeInv, Greeted
    <3> QED
      BY <3>1, <3>2
  <2>4. sub'[b] = "none" => welcomed[b] = 0
    BY <1>4, <2>2
  <2>5. Greeting(b) \subseteq Greeting(b)'
    BY <1>1, <1>2, <1>3 DEF Fresh, Greeting, Goes
  <2>6. ASSUME sub'[b] # "none", lost["welcome"] = 0
        PROVE  welcomed[b] > 0 \/ Greeting(b)' # {}
    <3>1. CASE sub[b] # "none"
      BY <2>2, <2>5, <2>6, <3>1
    <3>2. CASE sub[b] = "none"
      <4>1. b = lead
        BY <1>4, <2>6, <3>2
      <4>2. ~call[c].found
        BY <1>1, <3>2, <4>1 DEF IntakeInv, Greeted
      <4>3. c \in Greeting(b)'
        BY <1>2, <1>3, <4>1, <4>2 DEF Fresh, Greeting, Goes
      <4> QED
        BY <4>3
    <3> QED
      BY <3>1, <3>2
  <2> QED
    BY <2>1, <2>2, <2>3, <2>4, <2>6
<1> QED
  BY <1>5, <1>6, <1>7 DEF IntakeInv

LEMMA WelcomeStep ==
  ASSUME Intake!IntakeAssumption, IntakeInv, NEW c \in IntakeParams.Calls,
         Intake!Welcome(c)
  PROVE  IntakeInv'
<1> DEFINE lead == call[c].arg
<1>0. call[c] \in CallShape /\ IntakeTyped
  BY DEF IntakeInv, IntakeTyped
<1>1. /\ call[c].op = "subscribe" /\ call[c].at = "welcome"
      /\ lead \in IntakeParams.Browsers
      /\ Intake!Answer(c)
      /\ welcomed'
           = [welcomed EXCEPT ![lead] = IF ~call[c].found THEN @ + 1 ELSE @]
      /\ UNCHANGED <<sub, views, intakeTold, clicked, leadClicks, campClicks,
         lost>>
  BY <1>0 DEF Intake!Welcome, Intake!In, IntakeTyped, Intake!IsNew
<1>2. Goes(c, Intake!Idle)
  BY <1>0, <1>1, GoingOn
<1>3. /\ welcomed' \in [IntakeParams.Browsers -> Nat]
      /\ welcomed'[lead] = IF ~call[c].found THEN welcomed[lead] + 1
                           ELSE welcomed[lead]
      /\ \A b \in IntakeParams.Browsers \ {lead} : welcomed'[b] = welcomed[b]
  BY <1>0, <1>1 DEF IntakeTyped
<1>4. IntakeTyped'
  BY <1>0, <1>1, <1>2, <1>3, IdleShape DEF IntakeTyped, Goes
<1>5. ClicksKept' /\ PagesKept'
  BY <1>1, <1>2, IdleShape, ClicksStay, PagesStay
<1>6. Greeted'
  <2> SUFFICES ASSUME NEW b \in IntakeParams.Browsers
               PROVE  /\ welcomed'[b] + Cardinality(Fresh(b)')
                           <= Cardinality(IntakeParams.Calls)
                      /\ sub[b] = "none" => welcomed'[b] = 0
                      /\ \A d \in IntakeParams.Calls :
                           /\ call'[d].op = "subscribe" /\ call'[d].arg = b
                           /\ (call'[d].at = "upsert" /\ call'[d].found)
                                \/ call'[d].at = "welcome"
                           => sub[b] # "none"
                      /\ sub[b] # "none" /\ lost["welcome"] = 0
                           => welcomed'[b] > 0 \/ Greeting(b)' # {}
    BY <1>1 DEF Greeted
  <2>2. /\ sub[b] = "none" => welcomed[b] = 0
        /\ sub[b] # "none" /\ lost["welcome"] = 0 => welcomed[b] > 0
             \/ Greeting(b) # {}
        /\ welcomed[b] + Cardinality(Fresh(b))
             <= Cardinality(IntakeParams.Calls)
    BY DEF IntakeInv, Greeted
  <2>3. ASSUME NEW d \in IntakeParams.Calls, call'[d].op = "subscribe",
                 call'[d].arg = b,
               (call'[d].at = "upsert" /\ call'[d].found)
                 \/ call'[d].at = "welcome"
        PROVE  sub[b] # "none"
    <3>1. d # c
      BY <1>2, <2>3, IdleShape DEF Goes
    <3>2. call'[d] = call[d]
      BY <1>2, <3>1 DEF Goes
    <3> QED
      BY <2>3, <3>2 DEF IntakeInv, Greeted
  <2>4. CASE c \notin Fresh(b)
    <3>1. Fresh(b)' = Fresh(b) /\ Greeting(b)' = Greeting(b)
      BY <1>2, <2>4, IdleShape DEF Fresh, Greeting, Goes
    <3>2. welcomed'[b] = welcomed[b]
      <4>1. b = lead => call[c].found
        BY <1>1, <2>4 DEF Fresh
      <4> QED
        BY <1>3, <4>1
    <3> QED
      BY <2>2, <2>3, <3>1, <3>2
  <2>5. CASE c \in Fresh(b)
    <3>1. Fresh(b)' = Fresh(b) \ {c} /\ Fresh(b) \subseteq IntakeParams.Calls
      BY <1>2, IdleShape DEF Fresh, Goes
    <3>2. b = lead /\ ~call[c].found
      BY <2>5 DEF Fresh
    <3>3. /\ Cardinality(Fresh(b)) = Cardinality(Fresh(b)') + 1
          /\ Cardinality(Fresh(b)') \in Nat
      BY <2>5, <3>1, SomeCalls, Drops
    <3>4. welcomed'[b] = welcomed[b] + 1 /\ welcomed[b] \in Nat
      BY <1>0, <1>3, <3>2 DEF IntakeTyped
    <3>5. welcomed'[b] + Cardinality(Fresh(b)')
            <= Cardinality(IntakeParams.Calls)
      BY <2>2, <3>3, <3>4
    <3>6. sub[b] # "none"
      BY <1>1, <3>2 DEF IntakeInv, Greeted
    <3> QED
      BY <2>3, <3>4, <3>5, <3>6
  <2> QED
    BY <2>4, <2>5
<1> QED
  BY <1>4, <1>5, <1>6 DEF IntakeInv

\* A lead that leaves stays known.
LEMMA UnsubscribeStep ==
  ASSUME Intake!IntakeAssumption, IntakeInv, NEW c \in IntakeParams.Calls,
         Intake!Unsubscribe(c)
  PROVE  IntakeInv'
<1> DEFINE lead == call[c].arg
<1>0. call[c] \in CallShape /\ IntakeTyped
  BY DEF IntakeInv, IntakeTyped
<1>1. /\ call[c].op = "unsubscribe" /\ Intake!Answer(c)
      /\ sub' = [sub EXCEPT ![lead] = IF @ = "none" THEN @ ELSE "unsubscribed"]
      /\ UNCHANGED <<welcomed, views, intakeTold, clicked, leadClicks,
           campClicks, lost>>
  BY DEF Intake!Unsubscribe, Intake!In
<1>2. Goes(c, Intake!Idle)
  BY <1>0, <1>1, GoingOn
<1>3. /\ sub' \in [IntakeParams.Browsers -> {"none", "active", "unsubscribed"}]
      /\ \A b \in IntakeParams.Browsers : sub'[b] = "none" <=> sub[b] = "none"
  BY <1>0, <1>1 DEF IntakeTyped
<1>4. IntakeTyped'
  BY <1>0, <1>1, <1>2, <1>3, IdleShape DEF IntakeTyped, Goes
<1>5. ClicksKept' /\ PagesKept'
  BY <1>1, <1>2, IdleShape, ClicksStay, PagesStay
<1>6. Greeted'
  <2>1. ASSUME NEW b \in IntakeParams.Browsers
        PROVE  Fresh(b)' = Fresh(b) /\ Greeting(b)' = Greeting(b)
    BY <1>1, <1>2, IdleShape DEF Fresh, Greeting, Goes
  <2>2. ASSUME NEW d \in IntakeParams.Calls, call'[d].op = "subscribe"
        PROVE  call'[d] = call[d]
    BY <1>2, <2>2, IdleShape DEF Goes
  <2>3. Greeted
    BY DEF IntakeInv
  <2> QED
    BY <1>1, <1>3, <2>1, <2>2, <2>3 DEF Greeted
<1> QED
  BY <1>4, <1>5, <1>6 DEF IntakeInv

-----------------------------------------------------------------------------
\* trackPageview()

\* One more view of a page, and the request is answered.
LEMMA CountViewStep ==
  ASSUME Intake!IntakeAssumption, IntakeInv, NEW c \in IntakeParams.Calls,
         Intake!CountView(c),
         call[c].op = "view",
         call[c].at = "row"
           \/ (call[c].at = "create" /\ views[call[c].arg] = 0)
  PROVE  IntakeInv'
<1> DEFINE p == call[c].arg
<1>0. call[c] \in CallShape /\ IntakeTyped /\ p \in IntakeParams.Paths
  BY DEF IntakeInv, IntakeTyped
<1>1. /\ Intake!Answer(c)
      /\ views' = [views EXCEPT ![p] = @ + 1]
      /\ intakeTold' = [intakeTold EXCEPT ![p] = @ + 1]
      /\ UNCHANGED <<sub, welcomed, clicked, leadClicks, campClicks, lost>>
  BY DEF Intake!CountView
<1>2. Goes(c, Intake!Idle)
  BY <1>0, <1>1, GoingOn
<1>3. /\ views' \in [IntakeParams.Paths -> Nat] /\ views'[p] = views[p] + 1
      /\ views[p] \in Nat
      /\ \A q \in IntakeParams.Paths \ {p} : views'[q] = views[q]
      /\ intakeTold' = views'
  <2>1. intakeTold = views
    BY DEF IntakeInv, PagesKept
  <2> QED
    BY <1>0, <1>1, <2>1 DEF IntakeTyped
<1>4. IntakeTyped'
  BY <1>0, <1>1, <1>2, <1>3, IdleShape DEF IntakeTyped, Goes
<1>5. ClicksKept'
  BY <1>1, <1>2, IdleShape, ClicksStay
<1>6. Greeted'
  BY <1>1, <1>2, IdleShape, GreetedStay
<1>7. PagesKept'
  <2>1. Intake!PagesStored' = Intake!PagesStored \cup {p}
    BY <1>0, <1>3 DEF Intake!PagesStored
  <2>2. IsFiniteSet(Intake!PagesStored)
          /\ Creating \subseteq IntakeParams.Calls
    BY DEF IntakeInv, PagesKept, Creating, Intake!UnderWay
  <2>3. Creating' = Creating \ {c}
    BY <1>2, IdleShape DEF Creating, Intake!UnderWay, Goes
  <2>7. \A d \in IntakeParams.Calls : call'[d].op = "view"
          /\ call'[d].at = "row"
                        => views'[call'[d].arg] > 0
    <3> TAKE d \in IntakeParams.Calls
    <3>1. SUFFICES ASSUME call'[d].op = "view", call'[d].at = "row"
                   PROVE  views'[call'[d].arg] > 0
      OBVIOUS
    <3>2. call'[d] = call[d]
      BY <1>2, <3>1, IdleShape DEF Goes
    <3>3. call[d].arg \in IntakeParams.Paths /\ views[call[d].arg] > 0
      BY <3>1, <3>2 DEF IntakeInv, IntakeTyped, PagesKept
    <3> QED
      BY <1>3, <3>2, <3>3
  <2>4. CASE p \in Intake!PagesStored
    <3>1. Intake!PagesStored' = Intake!PagesStored /\ c \notin Creating
      BY <2>1, <2>4 DEF Intake!PagesStored, Creating, Intake!UnderWay
    <3>2. Creating' = Creating
      BY <2>3, <3>1
    <3> QED
      BY <1>3, <2>7, <3>1, <3>2 DEF IntakeInv, PagesKept
  <2>5. CASE p \notin Intake!PagesStored /\ c \in Creating
    <3>1. /\ IsFiniteSet(Intake!PagesStored')
          /\ Cardinality(Intake!PagesStored) \in Nat
          /\ Cardinality(Intake!PagesStored')
               = Cardinality(Intake!PagesStored) + 1
      BY <2>1, <2>2, <2>5, Joins
    <3>2. /\ Cardinality(Creating) = Cardinality(Creating') + 1
          /\ Cardinality(Creating') \in Nat
      BY <2>2, <2>3, <2>5, SomeCalls, Drops
    <3>3. IntakeParams.PageCap \in Nat
            /\ Cardinality(IntakeParams.Calls) \in Nat
      BY AtLeastOneCall, IntakeSets DEF Intake!IntakeAssumption
    <3>4. Cardinality(Intake!PagesStored) + Cardinality(Creating)
            <= IntakeParams.PageCap + Cardinality(IntakeParams.Calls) - 1
      BY DEF IntakeInv, PagesKept
    <3>5. Cardinality(Intake!PagesStored') + Cardinality(Creating')
            <= IntakeParams.PageCap + Cardinality(IntakeParams.Calls) - 1
      BY <3>1, <3>2, <3>3, <3>4
    <3> QED
      BY <1>3, <2>7, <3>1, <3>5 DEF PagesKept
  <2>6. p \in Intake!PagesStored \/ c \in Creating
    BY <1>0 DEF Intake!PagesStored, Creating, Intake!UnderWay, IntakeInv,
       PagesKept
  <2> QED
    BY <2>4, <2>5, <2>6
<1> QED
  BY <1>4, <1>5, <1>6, <1>7 DEF IntakeInv

\* A page that is looked for, and the cap.
LEMMA FindPageStep ==
  ASSUME Intake!IntakeAssumption, IntakeInv, NEW c \in IntakeParams.Calls,
         Intake!FindPage(c)
  PROVE  IntakeInv'
<1>0. call[c] \in CallShape /\ IntakeTyped
  BY DEF IntakeInv, IntakeTyped
<1>1. /\ call[c].op = "view" /\ call[c].arg \in IntakeParams.Paths
      /\ UNCHANGED <<sub, welcomed, views, intakeTold, clicked, leadClicks,
           campClicks, lost>>
  BY <1>0 DEF Intake!FindPage, Intake!In, Intake!rows, IntakeTyped
<1>2. PICK s \in {"row", "count"} : Intake!Goto(c, s)
        /\ (s = "row" => views[call[c].arg] > 0)
  BY DEF Intake!FindPage
<1>3. s \in Intake!Steps
  BY DEF Intake!Steps
<1>4. Goes(c, [call[c] EXCEPT !.at = s])
  BY <1>0, <1>2, <1>3, GoingOn
<1>5. /\ [call[c] EXCEPT !.at = s].op = "view"
      /\ [call[c] EXCEPT !.at = s].at = s
      /\ [call[c] EXCEPT !.at = s].arg = call[c].arg
  BY <1>0, <1>1, <1>3, AtFields
<1> QED
  BY <1>1, <1>2, <1>4, <1>5, QuietStep

LEMMA CountPagesStep ==
  ASSUME Intake!IntakeAssumption, IntakeInv, NEW c \in IntakeParams.Calls,
         Intake!CountPages(c)
  PROVE  IntakeInv'
<1>0. call[c] \in CallShape /\ IntakeTyped
  BY DEF IntakeInv, IntakeTyped
<1>1. /\ call[c].op = "view" /\ call[c].at = "count"
      /\ call[c].arg \in IntakeParams.Paths
      /\ UNCHANGED <<sub, welcomed, views, intakeTold, clicked, leadClicks,
           campClicks, lost>>
  BY <1>0 DEF Intake!CountPages, Intake!In, Intake!rows, IntakeTyped
<1>2. CASE Intake!Capped
  <2>1. Intake!Answer(c)
    BY <1>2 DEF Intake!CountPages
  <2> QED
    BY <1>1, <2>1, EndStep
<1>3. CASE ~Intake!Capped
  <2> DEFINE r == [call[c] EXCEPT !.at = "create"]
  <2>1. Intake!Goto(c, "create") /\ "create" \in Intake!Steps
    BY <1>3 DEF Intake!CountPages, Intake!Steps
  <2>2. Goes(c, r)
    BY <1>0, <2>1, GoingOn
  <2>3. r \in CallShape /\ r.op = "view" /\ r.at = "create"
          /\ r.arg \in IntakeParams.Paths
    BY <1>0, <1>1, <2>1, AtFields
  <2> HIDE DEF r
  <2>4. IntakeTyped'
    BY <1>0, <1>1, <2>2, <2>3 DEF IntakeTyped, Goes
  <2>5. ClicksKept' /\ Greeted'
    BY <1>1, <2>2, <2>3, ClicksStay, GreetedStay
  <2>6. PagesKept'
    <3>1. Creating' \subseteq IntakeParams.Calls
            /\ Intake!PagesStored' = Intake!PagesStored
      BY <1>1 DEF Creating, Intake!UnderWay, Intake!PagesStored
    <3>2. /\ Cardinality(Creating') <= Cardinality(IntakeParams.Calls)
          /\ Cardinality(Creating') \in Nat
          /\ Cardinality(IntakeParams.Calls) \in Nat
      BY <3>1, SomeCalls
    <3>3. IsFiniteSet(Intake!PagesStored) /\ IntakeParams.PageCap \in Nat
      BY IntakeSets DEF IntakeInv, PagesKept, Intake!IntakeAssumption
    <3>4. Cardinality(Intake!PagesStored) \in Nat
      BY <3>3, FS_CardinalityType
    <3>5. Cardinality(Intake!PagesStored) + Cardinality(Creating')
            <= IntakeParams.PageCap + Cardinality(IntakeParams.Calls) - 1
      BY <1>3, <3>2, <3>3, <3>4, IntakeSets DEF Intake!Capped
    <3>6. \A d \in IntakeParams.Calls : call'[d].op = "view"
            /\ call'[d].at = "row"
                          => views[call'[d].arg] > 0
      BY <2>2, <2>3 DEF Goes, IntakeInv, PagesKept
    <3> QED
      BY <1>1, <3>1, <3>3, <3>5, <3>6 DEF IntakeInv, PagesKept
  <2> QED
    BY <2>4, <2>5, <2>6 DEF IntakeInv
<1> QED
  BY <1>2, <1>3

LEMMA ViewsStep ==
  ASSUME Intake!IntakeAssumption, IntakeInv, NEW c \in IntakeParams.Calls,
         Intake!FindPage(c) \/ Intake!AddView(c) \/ Intake!CountPages(c)
           \/ Intake!CreatePage(c)
  PROVE  IntakeInv'
<1>1. CASE Intake!AddView(c)
  BY <1>1, CountViewStep DEF Intake!AddView, Intake!In
<1>2. CASE Intake!CreatePage(c)
  <2>1. call[c].op = "view" /\ call[c].at = "create"
    BY <1>2 DEF Intake!CreatePage, Intake!In
  <2>2. CASE views[call[c].arg] = 0
    BY <1>2, <2>1, <2>2, CountViewStep DEF Intake!CreatePage
  <2>3. CASE views[call[c].arg] # 0
    BY <1>2, <2>1, <2>3, EndStep DEF Intake!CreatePage, Intake!rows
  <2> QED
    BY <2>2, <2>3
<1> QED
  BY <1>1, <1>2, FindPageStep, CountPagesStep

-----------------------------------------------------------------------------
\* trackClick()

Tapped == Intake!UnderWay("click", {"lead"})
Tapping == Intake!UnderWay("click", {"lead", "campaign"})

\* A step of a tap: only its counts can change.
LEMMA TapStep ==
  ASSUME Intake!IntakeAssumption, IntakeInv, NEW c \in IntakeParams.Calls,
         NEW r \in CallShape,
         Goes(c, r), call[c].op = "click",
         r.op \in {"click", "idle"}, leadClicks' \in Nat, campClicks' \in Nat,
         UNCHANGED <<sub, welcomed, views, intakeTold, lost>>,
         ClicksKept'
  PROVE  IntakeInv'
<1>1. IntakeTyped'
  BY DEF IntakeInv, IntakeTyped, Goes
<1>2. PagesKept'
  BY PagesStay
<1>3. Greeted'
  BY GreetedStay
<1> QED
  BY <1>1, <1>2, <1>3 DEF IntakeInv

LEMMA TapCounts ==
  ASSUME Intake!IntakeAssumption, IntakeInv
  PROVE  /\ IsFiniteSet(clicked) /\ Cardinality(clicked) \in Nat
         /\ Tapped \subseteq IntakeParams.Calls
         /\ Tapping \subseteq IntakeParams.Calls
         /\ IsFiniteSet(Tapped) /\ IsFiniteSet(Tapping)
         /\ Cardinality(Tapped) \in Nat /\ Cardinality(Tapping) \in Nat
         /\ leadClicks \in Nat /\ campClicks \in Nat
         /\ lost["lead"] \in Nat /\ lost["campaign"] \in Nat
         /\ lost["welcome"] \in Nat
         /\ Cardinality(clicked)
              = leadClicks + Cardinality(Tapped) + lost["lead"]
         /\ Cardinality(clicked)
              = campClicks + Cardinality(Tapping) + lost["campaign"]
<1>1. Tapped \subseteq IntakeParams.Calls
        /\ Tapping \subseteq IntakeParams.Calls
  BY DEF Tapped, Tapping, Intake!UnderWay
<1>2. /\ IsFiniteSet(Tapped) /\ IsFiniteSet(Tapping)
      /\ Cardinality(Tapped) \in Nat /\ Cardinality(Tapping) \in Nat
  BY <1>1, SomeCalls
<1>3. /\ leadClicks \in Nat /\ campClicks \in Nat
      /\ lost["lead"] \in Nat /\ lost["campaign"] \in Nat
      /\ lost["welcome"] \in Nat
  BY DEF IntakeInv, IntakeTyped
<1>4. IsFiniteSet(clicked) /\ Cardinality(clicked) \in Nat
  BY FS_CardinalityType DEF IntakeInv, ClicksKept
<1>5. Intake!ClicksExact
  BY DEF IntakeInv, ClicksKept
<1> QED
  BY <1>1, <1>2, <1>3, <1>4, <1>5, IntakeSets DEF Intake!ClicksExact, Tapped,
     Tapping

LEMMA FlipStep ==
  ASSUME Intake!IntakeAssumption, IntakeInv, NEW c \in IntakeParams.Calls,
         Intake!Flip(c)
  PROVE  IntakeInv'
<1> DEFINE s == call[c].arg
           r == [call[c] EXCEPT !.at = "lead"]
<1>0. call[c] \in CallShape /\ IntakeTyped
  BY DEF IntakeInv, IntakeTyped
<1>1. /\ call[c].op = "click" /\ call[c].at = "flip"
      /\ clicked' = clicked \cup {s}
      /\ UNCHANGED <<sub, welcomed, views, intakeTold, leadClicks, campClicks,
         lost>>
  BY DEF Intake!Flip, Intake!In
<1>2. CASE s \in clicked
  <2>1. Intake!Answer(c) /\ clicked' = clicked
    BY <1>1, <1>2 DEF Intake!Flip
  <2> QED
    BY <1>1, <2>1, EndStep
<1>3. CASE s \notin clicked
  <2>1. Intake!Goto(c, "lead") /\ "lead" \in Intake!Steps
    BY <1>3 DEF Intake!Flip, Intake!Steps
  <2>2. /\ Goes(c, r) /\ r \in CallShape /\ r.op = "click" /\ r.at = "lead"
    BY <1>0, <1>1, <2>1, GoingOn, AtFields
  <2> HIDE DEF r
  <2>3. /\ Tapped' = Tapped \cup {c} /\ c \notin Tapped
        /\ Tapping' = Tapping \cup {c} /\ c \notin Tapping
    BY <1>1, <2>2 DEF Tapped, Tapping, Intake!UnderWay, Goes
  <2>4. /\ IsFiniteSet(clicked')
        /\ Cardinality(clicked') = Cardinality(clicked) + 1
        /\ Cardinality(Tapped') = Cardinality(Tapped) + 1
        /\ Cardinality(Tapping') = Cardinality(Tapping) + 1
    BY <1>1, <1>3, <2>3, TapCounts, Joins
  <2>5. /\ Cardinality(clicked')
             = leadClicks + Cardinality(Tapped') + lost["lead"]
        /\ Cardinality(clicked')
             = campClicks + Cardinality(Tapping') + lost["campaign"]
    BY <2>4, TapCounts
  <2>6. ClicksKept'
    BY <1>1, <2>4, <2>5, IntakeSets DEF ClicksKept, Intake!ClicksExact, Tapped,
       Tapping
  <2>7. leadClicks' \in Nat /\ campClicks' \in Nat
    BY <1>1, TapCounts
  <2> QED
    BY <1>1, <2>2, <2>6, <2>7, TapStep
<1> QED
  BY <1>2, <1>3

LEMMA CountLeadStep ==
  ASSUME Intake!IntakeAssumption, IntakeInv, NEW c \in IntakeParams.Calls,
         Intake!CountLead(c)
  PROVE  IntakeInv'
<1> DEFINE r == [call[c] EXCEPT !.at = "campaign"]
<1>0. call[c] \in CallShape /\ IntakeTyped
  BY DEF IntakeInv, IntakeTyped
<1>1. /\ call[c].op = "click" /\ call[c].at = "lead"
      /\ leadClicks' = leadClicks + 1
      /\ Intake!Goto(c, "campaign") /\ "campaign" \in Intake!Steps
      /\ UNCHANGED <<sub, welcomed, views, intakeTold, clicked, campClicks,
         lost>>
  BY DEF Intake!CountLead, Intake!In, Intake!Steps
<1>2. Goes(c, r) /\ r \in CallShape /\ r.op = "click" /\ r.at = "campaign"
  BY <1>0, <1>1, GoingOn, AtFields
<1> HIDE DEF r
<1>3. /\ Tapped' = Tapped \ {c} /\ c \in Tapped /\ Tapping' = Tapping
  BY <1>1, <1>2 DEF Tapped, Tapping, Intake!UnderWay, Goes
<1>4. /\ Cardinality(Tapped) = Cardinality(Tapped') + 1
      /\ Cardinality(Tapped') \in Nat
  BY <1>3, TapCounts, Drops
<1>5. /\ Cardinality(clicked)
           = leadClicks' + Cardinality(Tapped') + lost["lead"]
      /\ leadClicks' \in Nat /\ campClicks' \in Nat
  BY <1>1, <1>4, TapCounts
<1>6. ClicksKept'
  BY <1>1, <1>3, <1>5, TapCounts, IntakeSets DEF ClicksKept,
     Intake!ClicksExact, Tapped, Tapping
<1> QED
  BY <1>1, <1>2, <1>5, <1>6, TapStep

LEMMA CountCampaignStep ==
  ASSUME Intake!IntakeAssumption, IntakeInv, NEW c \in IntakeParams.Calls,
         Intake!CountCampaign(c)
  PROVE  IntakeInv'
<1>0. call[c] \in CallShape /\ IntakeTyped
  BY DEF IntakeInv, IntakeTyped
<1>1. /\ call[c].op = "click" /\ call[c].at = "campaign"
      /\ campClicks' = campClicks + 1 /\ Intake!Answer(c)
      /\ UNCHANGED <<sub, welcomed, views, intakeTold, clicked, leadClicks,
         lost>>
  BY DEF Intake!CountCampaign, Intake!In
<1>2. Goes(c, Intake!Idle)
  BY <1>0, <1>1, GoingOn
<1>3. /\ Tapping' = Tapping \ {c} /\ c \in Tapping /\ Tapped' = Tapped
  BY <1>1, <1>2, IdleShape DEF Tapped, Tapping, Intake!UnderWay, Goes
<1>4. /\ Cardinality(Tapping) = Cardinality(Tapping') + 1
      /\ Cardinality(Tapping') \in Nat
  BY <1>3, TapCounts, Drops
<1>5. /\ Cardinality(clicked)
           = campClicks' + Cardinality(Tapping') + lost["campaign"]
      /\ leadClicks' \in Nat /\ campClicks' \in Nat
  BY <1>1, <1>4, TapCounts
<1>6. ClicksKept'
  BY <1>1, <1>3, <1>5, TapCounts, IntakeSets DEF ClicksKept,
     Intake!ClicksExact, Tapped, Tapping
<1> QED
  BY <1>1, <1>2, <1>5, <1>6, IdleShape, TapStep

-----------------------------------------------------------------------------
\* Faults and restarts: what the handlers of D were about to count is lost.
LEMMA CutOff ==
  ASSUME Intake!IntakeAssumption, IntakeInv,
         NEW D \in SUBSET IntakeParams.Calls,
         lost' = Intake!Losses(D),
         call' \in [IntakeParams.Calls -> CallShape],
         \A d \in D : call'[d] = Intake!Idle,
         \A d \in IntakeParams.Calls \ D : call'[d] = call[d],
         UNCHANGED Intake!rows
  PROVE  IntakeInv'
<1> DEFINE Due == Intake!UnderWay("subscribe", {"welcome"})
<1>0. UNCHANGED <<sub, welcomed, views, intakeTold, clicked, leadClicks,
        campClicks>>
  BY DEF Intake!rows
<1>1. /\ Due \subseteq IntakeParams.Calls /\ IsFiniteSet(Due)
  <2>1. Due \subseteq IntakeParams.Calls
    BY DEF Intake!UnderWay
  <2> QED
    BY <2>1, SomeCalls
<1>2. /\ lost' \in [{"welcome", "lead", "campaign"} -> Nat]
      /\ lost'["welcome"] = lost["welcome"] + Cardinality(D \cap Due)
      /\ lost'["lead"] = lost["lead"] + Cardinality(D \cap Tapped)
      /\ lost'["campaign"] = lost["campaign"] + Cardinality(D \cap Tapping)
  <2>1. /\ Cardinality(D \cap Due) \in Nat
        /\ Cardinality(D \cap Tapped) \in Nat
        /\ Cardinality(D \cap Tapping) \in Nat
    BY <1>1, TapCounts, Split
  <2>2. lost \in [{"welcome", "lead", "campaign"} -> Nat]
    BY DEF IntakeInv, IntakeTyped
  <2>3. lost' = [lost EXCEPT !["welcome"]  = @ + Cardinality(D \cap Due),
                             !["lead"]     = @ + Cardinality(D \cap Tapped),
                             !["campaign"] = @ + Cardinality(D \cap Tapping)]
    BY IntakeSets DEF Intake!Losses, Tapped, Tapping
  <2> HIDE DEF Due
  <2> DEFINE i == Cardinality(D \cap Due)
             j == Cardinality(D \cap Tapped)
             k == Cardinality(D \cap Tapping)
  <2>4. i \in Nat /\ j \in Nat /\ k \in Nat
    BY <2>1
  <2>5. lost' = [lost EXCEPT !["welcome"] = @ + i, !["lead"] = @ + j,
                             !["campaign"] = @ + k]
    BY <2>3
  <2> HIDE DEF i, j, k
  <2>6. /\ lost' \in [{"welcome", "lead", "campaign"} -> Nat]
        /\ lost'["welcome"] = lost["welcome"] + i
        /\ lost'["lead"] = lost["lead"] + j
        /\ lost'["campaign"] = lost["campaign"] + k
    BY <2>2, <2>4, <2>5
  <2> QED
    BY <2>6 DEF i, j, k
<1>3. IntakeTyped'
  <2>1. ASSUME NEW c \in IntakeParams.Calls
        PROVE  /\ call'[c].op = "subscribe"
                    => call'[c].arg \in IntakeParams.Browsers
               /\ call'[c].op = "view" => call'[c].arg \in IntakeParams.Paths
    BY IdleShape DEF IntakeInv, IntakeTyped
  <2> QED
    BY <1>0, <1>2, <2>1 DEF IntakeInv, IntakeTyped
<1>4. ClicksKept'
  <2>1. Tapped' = Tapped \ D /\ Tapping' = Tapping \ D
    BY IdleShape DEF Tapped, Tapping, Intake!UnderWay
  <2>2. /\ Cardinality(Tapped)
             = Cardinality(D \cap Tapped) + Cardinality(Tapped')
        /\ Cardinality(D \cap Tapped) \in Nat /\ Cardinality(Tapped') \in Nat
        /\ Cardinality(Tapping)
             = Cardinality(D \cap Tapping) + Cardinality(Tapping')
        /\ Cardinality(D \cap Tapping) \in Nat /\ Cardinality(Tapping') \in Nat
    BY <2>1, TapCounts, Split
  <2>3. /\ Cardinality(clicked)
             = leadClicks + Cardinality(Tapped') + lost'["lead"]
        /\ Cardinality(clicked)
             = campClicks + Cardinality(Tapping') + lost'["campaign"]
    BY <1>2, <2>2, TapCounts
  <2> QED
    BY <1>0, <2>3, TapCounts, IntakeSets DEF ClicksKept, Intake!ClicksExact,
       Tapped, Tapping
<1>5. PagesKept'
  <2>1. Creating' \subseteq Creating /\ Creating \subseteq IntakeParams.Calls
    BY IdleShape DEF Creating, Intake!UnderWay
  <2>2. /\ IsFiniteSet(Creating) /\ Cardinality(Creating) \in Nat
        /\ Cardinality(Creating') \in Nat
    BY <2>1, SomeCalls
  <2>3. Cardinality(Creating') <= Cardinality(Creating)
    BY <2>1, <2>2, FS_Subset
  <2>4. Intake!PagesStored' = Intake!PagesStored
          /\ IsFiniteSet(Intake!PagesStored)
    BY <1>0 DEF Intake!PagesStored, IntakeInv, PagesKept
  <2>5. Cardinality(Intake!PagesStored) \in Nat
          /\ Cardinality(IntakeParams.Calls) \in Nat
          /\ IntakeParams.PageCap \in Nat
    BY <2>4, FS_CardinalityType, AtLeastOneCall, IntakeSets
       DEF Intake!IntakeAssumption
  <2>6. Cardinality(Intake!PagesStored) + Cardinality(Creating')
          <= IntakeParams.PageCap + Cardinality(IntakeParams.Calls) - 1
    BY <2>2, <2>3, <2>5 DEF IntakeInv, PagesKept
  <2>7. \A d \in IntakeParams.Calls : call'[d].op = "view"
          /\ call'[d].at = "row"
                        => views[call'[d].arg] > 0
    BY IdleShape DEF IntakeInv, PagesKept
  <2> QED
    BY <1>0, <2>4, <2>6, <2>7 DEF IntakeInv, PagesKept
<1>6. Greeted'
  <2> SUFFICES ASSUME NEW b \in IntakeParams.Browsers
               PROVE  /\ welcomed[b] + Cardinality(Fresh(b)')
                           <= Cardinality(IntakeParams.Calls)
                      /\ sub[b] = "none" => welcomed[b] = 0
                      /\ \A d \in IntakeParams.Calls :
                           /\ call'[d].op = "subscribe" /\ call'[d].arg = b
                           /\ (call'[d].at = "upsert" /\ call'[d].found)
                                \/ call'[d].at = "welcome"
                           => sub[b] # "none"
                      /\ sub[b] # "none" /\ lost'["welcome"] = 0
                           => welcomed[b] > 0 \/ Greeting(b)' # {}
    BY <1>0 DEF Greeted
  <2>1. Fresh(b)' \subseteq Fresh(b) /\ Fresh(b) \subseteq IntakeParams.Calls
    BY IdleShape DEF Fresh
  <2>2. /\ sub[b] = "none" => welcomed[b] = 0
        /\ sub[b] # "none" /\ lost["welcome"] = 0 => welcomed[b] > 0
             \/ Greeting(b) # {}
        /\ welcomed[b] + Cardinality(Fresh(b))
             <= Cardinality(IntakeParams.Calls)
    BY DEF IntakeInv, Greeted
  <2>3. /\ Cardinality(Fresh(b)') <= Cardinality(Fresh(b))
        /\ Cardinality(Fresh(b)') \in Nat /\ Cardinality(Fresh(b)) \in Nat
        /\ Cardinality(IntakeParams.Calls) \in Nat /\ welcomed[b] \in Nat
    BY <2>1, SomeCalls, FS_Subset DEF IntakeInv, IntakeTyped
  <2>4. welcomed[b] + Cardinality(Fresh(b)') <= Cardinality(IntakeParams.Calls)
    BY <2>2, <2>3
  <2>5. ASSUME NEW d \in IntakeParams.Calls, call'[d].op = "subscribe",
                 call'[d].arg = b,
               (call'[d].at = "upsert" /\ call'[d].found)
                 \/ call'[d].at = "welcome"
        PROVE  sub[b] # "none"
    <3>1. call'[d] = call[d]
      BY <2>5, IdleShape
    <3> QED
      BY <2>5, <3>1 DEF IntakeInv, Greeted
  <2>6. ASSUME sub[b] # "none", lost'["welcome"] = 0
        PROVE  welcomed[b] > 0 \/ Greeting(b)' # {}
    <3>1. /\ Cardinality(D \cap Due) \in Nat /\ IsFiniteSet(D \cap Due)
      BY <1>1, Split, FS_Subset
    <3>2. lost["welcome"] = 0 /\ Cardinality(D \cap Due) = 0
      BY <1>2, <2>6, <3>1, TapCounts
    <3>3. D \cap Due = {}
      BY <3>1, <3>2, FS_EmptySet
    <3>4. Greeting(b) \subseteq Due
      BY DEF Greeting, Fresh, Intake!UnderWay
    <3>5. Greeting(b) \subseteq Greeting(b)'
      BY <3>3, <3>4 DEF Greeting, Fresh
    <3> QED
      BY <2>2, <2>6, <3>2, <3>5
  <2> QED
    BY <2>2, <2>4, <2>5, <2>6
<1> QED
  BY <1>3, <1>4, <1>5, <1>6 DEF IntakeInv

LEMMA FaultStep ==
  ASSUME Intake!IntakeAssumption, IntakeInv, NEW c \in IntakeParams.Calls,
         Intake!Fault(c)
  PROVE  IntakeInv'
<1>1. lost' = Intake!Losses({c}) /\ Intake!Answer(c) /\ UNCHANGED Intake!rows
  BY DEF Intake!Fault
<1>2. Goes(c, Intake!Idle)
  BY <1>1, GoingOn DEF IntakeInv
<1> QED
  BY <1>1, <1>2, CutOff DEF Goes

LEMMA RestartStep ==
  ASSUME Intake!IntakeAssumption, IntakeInv, Intake!Restart
  PROVE  IntakeInv'
<1>1. lost' = Intake!Losses(IntakeParams.Calls)
        /\ call' = [c \in IntakeParams.Calls |-> Intake!Idle]
        /\ UNCHANGED Intake!rows
  BY DEF Intake!Restart
<1> QED
  BY <1>1, IdleShape, CutOff

LEMMA IntakeStep ==
  ASSUME Intake!IntakeAssumption
  PROVE  IntakeInv /\ [Intake!Next]_(Intake!vars) => IntakeInv'
<1> SUFFICES ASSUME IntakeInv, [Intake!Next]_(Intake!vars) PROVE IntakeInv'
  OBVIOUS
<1>1. CASE UNCHANGED Intake!vars
  BY <1>1, IntakeSets DEF Intake!vars, IntakeInv, IntakeTyped, ClicksKept,
     Intake!ClicksExact, PagesKept, Creating, Intake!PagesStored,
     Intake!UnderWay, Greeted, Fresh, Greeting
<1>2. ASSUME NEW c \in IntakeParams.Calls, Intake!Sale(c)
      PROVE  IntakeInv'
  BY <1>2, EndStep DEF Intake!Sale, Intake!In
<1> QED
  BY <1>1, <1>2, RestartStep, RequestStep, FindLeadStep, UpsertStep,
     WelcomeStep, UnsubscribeStep, ViewsStep, FlipStep, CountLeadStep,
     CountCampaignStep, FaultStep DEF Intake!Next

LEMMA IntakeHolds ==
  ASSUME Intake!IntakeAssumption
           PROVE IntakeInv => Intake!IntakeExact /\ Intake!Welcomed
<1> SUFFICES ASSUME IntakeInv PROVE Intake!IntakeExact /\ Intake!Welcomed
  OBVIOUS
<1>1. Intake!PagesBounded
  <2>1. Creating \subseteq IntakeParams.Calls
    BY DEF Creating, Intake!UnderWay
  <2>2. /\ Cardinality(Creating) \in Nat
        /\ Cardinality(IntakeParams.Calls) \in Nat
        /\ IntakeParams.PageCap \in Nat
        /\ Cardinality(Intake!PagesStored) \in Nat
    BY <2>1, SomeCalls, FS_CardinalityType, IntakeSets DEF IntakeInv,
       PagesKept, Intake!IntakeAssumption
  <2> QED
    BY <2>2, IntakeSets DEF IntakeInv, PagesKept, Intake!PagesBounded
<1>2. Intake!Welcomed
  <2> SUFFICES ASSUME NEW b \in IntakeParams.Browsers
               PROVE  /\ welcomed[b] <= Cardinality(IntakeParams.Calls)
                      /\ sub[b] # "none" /\ lost["welcome"] = 0
                           => \/ welcomed[b] > 0
                              \/ \E c \in IntakeParams.Calls : call[c].arg = b
                                   /\ Intake!In(c, "subscribe", "welcome")
    BY IntakeSets DEF Intake!Welcomed
  <2>1. Fresh(b) \subseteq IntakeParams.Calls
    BY DEF Fresh
  <2>2. /\ Cardinality(Fresh(b)) \in Nat
        /\ Cardinality(IntakeParams.Calls) \in Nat
        /\ welcomed[b] \in Nat
    BY <2>1, SomeCalls DEF IntakeInv, IntakeTyped
  <2>3. welcomed[b] <= Cardinality(IntakeParams.Calls)
    BY <2>2 DEF IntakeInv, Greeted
  <2>4. Greeting(b) # {} =>
          \E c \in IntakeParams.Calls : call[c].arg = b
            /\ Intake!In(c, "subscribe", "welcome")
    BY DEF Greeting, Fresh, Intake!In
  <2> QED
    BY <2>3, <2>4 DEF IntakeInv, Greeted
<1> QED
  BY <1>1, <1>2 DEF Intake!IntakeExact, IntakeInv, ClicksKept

\* A tap is counted once for the lead and once for the campaign, and the table
\* of pages outgrows its cap by at most the requests under way, for any number
\* of concurrent requests, faults and restarts (public.service.ts:342-361,
\* 394-413).
THEOREM IntakeCounts == Spec => []IntakeExact
<1> DEFINE I == part = "intake" => IntakeInv
<1>1. Init => I
  BY PartsAssumption, IntakeInit DEF Init
<1>2. I /\ [Next]_vars => I'
  BY PartsAssumption, PartSteps, IntakeStep
<1>3. I => IntakeExact
  BY PartsAssumption, IntakeHolds DEF IntakeExact
<1> QED
  BY <1>1, <1>2, <1>3, PTL DEF Spec

\* A lead is welcomed, unless the request was cut off, and at most by the
\* subscribes that were under way together, however often the browser leaves
\* and comes back (public.service.ts:214-257).
THEOREM LeadsAreWelcomed == Spec => []Welcomed
<1> DEFINE I == part = "intake" => IntakeInv
<1>1. Init => I
  BY PartsAssumption, IntakeInit DEF Init
<1>2. I /\ [Next]_vars => I'
  BY PartsAssumption, PartSteps, IntakeStep
<1>3. I => Welcomed
  BY PartsAssumption, IntakeHolds DEF Welcomed
<1> QED
  BY <1>1, <1>2, <1>3, PTL DEF Spec
=============================================================================
