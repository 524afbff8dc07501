---------------------------- MODULE BlastContract ----------------------------
(***************************************************************************)
(* What the send engine promises about one blast, with no pool, no epochs, *)
(* no completion count and no cursor: every lead is pushed at most once,   *)
(* its row is closed once and truthfully, and the blast is closed when no  *)
(* row is open.  CampaignRunner implements it as long as operators wait    *)
(* for a request to settle before the next and the process stays up        *)
(* (module RunnerRefinement).                                              *)
(***************************************************************************)

CONSTANT Subs

VARIABLES
  status,     \* of the campaign
  row,        \* the status of each lead's Send row
  delivered   \* has the lead's browser been given the push?

vars == <<status, row, delivered>>

Init ==
  /\ status = "draft"
  /\ row = [s \in Subs |-> "none"]
  /\ delivered = [s \in Subs |-> FALSE]

Launch ==
  /\ status = "draft"
  /\ status' = "sending"
  /\ UNCHANGED <<row, delivered>>

\* Leads are targeted, each once, also while the blast is paused.
Queue(S) ==
  /\ status \in {"sending", "paused"}
  /\ \A s \in S : row[s] = "none"
  /\ row' = [s \in Subs |-> IF s \in S THEN "queued" ELSE row[s]]
  /\ UNCHANGED <<status, delivered>>

\* A lead is pushed, once, before its row is closed.
Push(s) ==
  /\ row[s] = "queued"
  /\ ~delivered[s]
  /\ delivered' = [delivered EXCEPT ![s] = TRUE]
  /\ UNCHANGED <<status, row>>

\* Rows are closed: "sent" if and only if the push was delivered.
Close(S, outcome) ==
  /\ \A s \in S : row[s] = "queued" /\ (delivered[s] <=> outcome = "sent")
  /\ row' = [s \in Subs |-> IF s \in S THEN outcome ELSE row[s]]
  /\ UNCHANGED <<status, delivered>>

\* A pause may still arrive when the blast has just ended.
Pause ==
  /\ status \in {"sending", "sent"}
  /\ status' = "paused"
  /\ UNCHANGED <<row, delivered>>

Resume ==
  /\ status = "paused"
  /\ status' = "sending"
  /\ UNCHANGED <<row, delivered>>

\* The blast is over: no row is open, and none will be created.
Finish ==
  /\ status \in {"sending", "paused"}
  /\ \A s \in Subs : row[s] # "queued"
  /\ status' = "sent"
  /\ UNCHANGED <<row, delivered>>

Next ==
  \/ Launch \/ Pause \/ Resume \/ Finish
  \/ \E S \in SUBSET Subs : Queue(S)
  \/ \E s \in Subs : Push(s)
  \/ \E S \in SUBSET Subs, o \in {"sent", "expired", "failed"} : Close(S, o)

Spec == Init /\ [][Next]_vars
=============================================================================
