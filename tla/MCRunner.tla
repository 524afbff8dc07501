------------------------------- MODULE MCRunner -------------------------------
(***************************************************************************)
(* The send engine under failures: a restart, a statement of a task or of  *)
(* finalize() that throws, a dispatch or resume loop that throws.          *)
(***************************************************************************)
EXTENDS CampaignRunner

\* A blast ends also when a task has thrown or the process was restarted
\* (maintenance.service.ts:80); a loop that threw is the exception.
EndsUnlessAborted ==
  status = "sending" ~>
    (status \in {"sent", "failed", "paused"} \/ used.aborts > 0)
=============================================================================
