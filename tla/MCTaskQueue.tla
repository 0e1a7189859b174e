----------------------------- MODULE MCTaskQueue -----------------------------
(***************************************************************************)
(* Instances of the task queue for TLC.  A model value is a task; tokens   *)
(* are 1 .. TokenCount, enough for the leases that rows, executions, pool  *)
(* slots, budgets and open transactions can remember at the same time.     *)
(***************************************************************************)
EXTENDS TaskQueueProperties, TLC

CONSTANTS t1, t2

OneTask  == {t1}

FourTokens == 1 .. 4

ComputeStages == {"RECORDED", "QUEUED_FOR_TRANS"}
ReviewStages  == {"AWAITING_REVIEW", "APPROVED"}
AnalyseOnly == {"analyze"}
Everything  == {"analyze", "approve", "render", "publish"}
=============================================================================
