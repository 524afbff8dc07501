-------------------------- MODULE RunnerRefinement --------------------------
(***************************************************************************)
(* CampaignRunner implements BlastContract: a lead counts as pushed when   *)
(* some run has delivered to it.                                           *)
(***************************************************************************)
EXTENDS CampaignRunner

Contract == INSTANCE BlastContract
              WITH delivered <- [s \in Subs |-> Delivered(s) # {}]

\* The blast seen from outside: one push per lead, rows closed once and
\* truthfully, closed when nothing is open, whatever runs, pauses, resumes,
\* retries and unsubscriptions are interleaved.
KeepsContract == Contract!Spec
=============================================================================
