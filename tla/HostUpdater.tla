----------------------------- MODULE HostUpdater -----------------------------
(***************************************************************************)
(* "Update now": the Updates page, the API that writes two files in a      *)
(* mounted directory (updates.service.ts), and the script on the host that *)
(* cron starts every minute (deploy/host-updater.sh).  The script takes a  *)
(* lock directory, removes the request, pulls and builds.  `set -e` ends   *)
(* it at the first failing command, and the trap removes the lock; a kill  *)
(* or a reboot does not run the trap.                                      *)
(***************************************************************************)
EXTENDS Naturals, FiniteSets

CONSTANTS
  Pages,         \* browsers with the Updates page open
  Scripts,       \* runs of the script that may overlap
  MaxCommits,    \* bound: commits that arrive
  MaxApplies,    \* bound: clicks on "Update now"
  MaxKills       \* bound: scripts killed

UpdaterAssumption ==
  MaxCommits \in Nat /\ MaxApplies \in Nat /\ MaxKills \in Nat

VARIABLES
  request,    \* control/update.request is there
  status,     \* state in control/update.status
  lock,       \* control/update.lock is there
  pc,         \* per script
  fetched,    \* per script: the commit it has reset to
  latest,     \* the commit at origin
  deployed,   \* the commit that is running
  posting,    \* per page: where the API's answer to its click is
  shown,      \* per page: the status it shows
  broken,     \* a kill, a git failure or a build failure has happened
  applies,
  kills

vars == <<request, status, lock, pc, fetched, latest, deployed, posting, shown,
          broken, applies, kills>>
hostVars == <<lock, pc, fetched, deployed, broken, kills>>
pageVars == <<posting, shown, applies>>

Busy     == {"requested", "pulling", "building"}
States   == Busy \cup {"idle", "done", "failed"}
Commits  == 0..MaxCommits
Holding  == {"locked", "pull", "reset", "build", "final"}

TypeOK ==
  /\ request \in BOOLEAN /\ lock \in BOOLEAN /\ broken \in BOOLEAN
  /\ status \in States /\ shown \in [Pages -> States]
  /\ pc \in [Scripts -> {"off", "seen"} \cup Holding]
  /\ fetched \in [Scripts -> Commits] /\ latest \in Commits /\ deployed \in Commits
  /\ posting \in [Pages -> {"no", "status", "file"}]
  /\ applies \in 0..MaxApplies /\ kills \in 0..MaxKills

Init ==
  /\ request = FALSE /\ status = "idle" /\ lock = FALSE
  /\ pc = [s \in Scripts |-> "off"] /\ fetched = [s \in Scripts |-> 0]
  /\ latest = 0 /\ deployed = 0
  /\ posting = [p \in Pages |-> "no"] /\ shown = [p \in Pages |-> "idle"]
  /\ broken = FALSE /\ applies = 0 /\ kills = 0

Commit ==
  /\ latest < MaxCommits
  /\ latest' = latest + 1
  /\ UNCHANGED <<request, status, hostVars, pageVars>>

----------------------------------------------------------------------------
\* The page and the API.

\* applyUpdate(): the button is not there while the page shows a busy state.
Click(p) ==
  /\ posting[p] = "no" /\ shown[p] \notin Busy /\ applies < MaxApplies
  /\ posting' = [posting EXCEPT ![p] = "status"]
  /\ applies' = applies + 1
  /\ UNCHANGED <<request, status, hostVars, latest, shown>>

\* requestUpdate() writes the status, and then the request.
WriteStatus(p) ==
  /\ posting[p] = "status"
  /\ status' = "requested"
  /\ posting' = [posting EXCEPT ![p] = "file"]
  /\ UNCHANGED <<request, hostVars, latest, shown, applies>>

WriteRequest(p) ==
  /\ posting[p] = "file"
  /\ request' = TRUE
  /\ posting' = [posting EXCEPT ![p] = "no"]
  /\ shown' = [shown EXCEPT ![p] = "requested"]
  /\ UNCHANGED <<status, hostVars, latest, applies>>

\* Every five seconds while the page shows a busy state, once on arrival.
Poll(p) ==
  /\ shown[p] \in Busy \cup {"idle"} /\ shown[p] # status
  /\ shown' = [shown EXCEPT ![p] = status]
  /\ UNCHANGED <<request, status, hostVars, latest, posting, applies>>

----------------------------------------------------------------------------
\* The script.

\* [ -f "$REQ" ] || exit 0
Cron(s) ==
  /\ pc[s] = "off" /\ request
  /\ pc' = [pc EXCEPT ![s] = "seen"]
  /\ UNCHANGED <<request, status, lock, fetched, latest, deployed, broken, kills, pageVars>>

\* Mutant: the trap is set before the directory is made, so that the run that
\* comes second removes the lock of the first.
EagerTrap(s) ==
  /\ pc[s] = "seen"
  /\ pc' = [pc EXCEPT ![s] = IF lock THEN "off" ELSE "locked"]
  /\ lock' = ~lock
  /\ UNCHANGED <<request, status, fetched, latest, deployed, broken, kills, pageVars>>

\* mkdir "$LOCK" || exit 0; trap 'rmdir "$LOCK"' EXIT
TakeLock(s) ==
  /\ pc[s] = "seen"
  /\ pc' = [pc EXCEPT ![s] = IF lock THEN "off" ELSE "locked"]
  /\ lock' = TRUE
  /\ UNCHANGED <<request, status, fetched, latest, deployed, broken, kills, pageVars>>

\* rm -f "$REQ"
Remove(s) ==
  /\ pc[s] = "locked"
  /\ request' = FALSE
  /\ pc' = [pc EXCEPT ![s] = "pull"]
  /\ UNCHANGED <<status, lock, fetched, latest, deployed, broken, kills, pageVars>>

Pulling(s) ==
  /\ pc[s] = "pull"
  /\ status' = "pulling"
  /\ pc' = [pc EXCEPT ![s] = "reset"]
  /\ UNCHANGED <<request, lock, fetched, latest, deployed, broken, kills, pageVars>>

\* git fetch, git reset --hard; then the status "building".
Reset(s) ==
  /\ pc[s] = "reset"
  /\ fetched' = [fetched EXCEPT ![s] = latest]
  /\ status' = "building"
  /\ pc' = [pc EXCEPT ![s] = "build"]
  /\ UNCHANGED <<request, lock, latest, deployed, broken, kills, pageVars>>

\* git fails: set -e ends the script and the status stays at "pulling".
GitFails(s) ==
  /\ pc[s] = "reset"
  /\ pc' = [pc EXCEPT ![s] = "off"]
  /\ lock' = FALSE
  /\ broken' = TRUE
  /\ UNCHANGED <<request, status, fetched, latest, deployed, kills, pageVars>>

\* docker compose up --build, and the status of its outcome.
Build(s) ==
  /\ pc[s] = "build"
  /\ \/ deployed' = fetched[s] /\ status' = "done" /\ UNCHANGED broken
     \/ status' = "failed" /\ broken' = TRUE /\ UNCHANGED deployed
  /\ pc' = [pc EXCEPT ![s] = "final"]
  /\ UNCHANGED <<request, lock, fetched, latest, kills, pageVars>>

\* Mutant: without the trap the lock stays.
NoTrap(s) ==
  /\ pc[s] = "final"
  /\ pc' = [pc EXCEPT ![s] = "off"]
  /\ UNCHANGED <<request, status, lock, fetched, latest, deployed, broken, kills, pageVars>>

\* The trap.
Exit(s) ==
  /\ pc[s] = "final"
  /\ lock' = FALSE
  /\ pc' = [pc EXCEPT ![s] = "off"]
  /\ UNCHANGED <<request, status, fetched, latest, deployed, broken, kills, pageVars>>

Kill(s) ==
  /\ pc[s] # "off" /\ kills < MaxKills
  /\ pc' = [pc EXCEPT ![s] = "off"]
  /\ kills' = kills + 1
  /\ broken' = TRUE
  /\ UNCHANGED <<request, status, lock, fetched, latest, deployed, pageVars>>

Run(s) ==
  \/ TakeLock(s) \/ Remove(s) \/ Pulling(s) \/ Reset(s) \/ Build(s) \/ Exit(s)

Page(p) == WriteStatus(p) \/ WriteRequest(p)

Next ==
  \/ Commit
  \/ \E p \in Pages : Click(p) \/ Page(p) \/ Poll(p)
  \/ \E s \in Scripts : Cron(s) \/ Run(s) \/ GitFails(s) \/ Kill(s)

\* Cron starts the script every minute, and a script that is not killed runs on.
Fairness ==
  /\ \A p \in Pages : WF_vars(Page(p))
  /\ \A s \in Scripts : SF_vars(Cron(s)) /\ WF_vars(Run(s))

Spec == Init /\ [][Next]_vars /\ Fairness

\* Two builds never run at once (host-updater.sh:27-28, the lock and its trap).
OneBuilder ==
  /\ Cardinality({s \in Scripts : pc[s] \in Holding}) <= 1
  /\ (\E s \in Scripts : pc[s] \in Holding) => lock

\* What is at origin when an update is requested will run, unless a kill, git
\* or the build fails: also for a request that arrives while an earlier one
\* is being served (host-updater.sh:32-39, the request is removed before the
\* pull).
UpdateServed ==
  \A v \in Commits : (request /\ latest = v) ~> (deployed >= v \/ broken)
=============================================================================
