----------------------------- MODULE TaskStages -----------------------------
(***************************************************************************)
(* The stages a segment task goes through and the rules of                 *)
(* app/pipeline/stage_result.py and stale_recovery.py about them: which    *)
(* stage may follow which, the active stage a queue leads to, and the      *)
(* stage an interrupted task resumes from.  Everything here is a pure      *)
(* function of stage names.                                                *)
(***************************************************************************)
EXTENDS Integers

QueueStages == {"QUEUED_FOR_TRANS", "QUEUED_FOR_ANALYSIS",
                "QUEUED_FOR_RENDER", "QUEUED_FOR_PUBLISH"}

\* The stages some execution works on under a lease.
ActiveStages == {"TRANSCRIBING", "ANALYZING", "RENDERING", "PUBLISHING"}

\* The active stages a user may interrupt: publishing is not one of them.
CancellableActiveStages == {"TRANSCRIBING", "ANALYZING", "RENDERING"}

\* The stages in which a task waits for the scheduler or for a person.
WaitingStages == {"RECORDED", "TRANSCRIBED", "CANDIDATE_CREATED", "AWAITING_REVIEW",
                  "REVIEWED_WAITING_ACTION", "APPROVED", "APPROVED_WAITING_RENDER",
                  "RENDERED", "AWAITING_PUBLISH_CONFIRMATION"}

SettledStages == {"COMPLETED", "CANCELLED", "FAILED"}

Stages == QueueStages \cup ActiveStages \cup WaitingStages \cup SettledStages
            \cup {"CANCELLING", "TRANSIENT_FAILED", "STALE"}

ValidTransitions(s) ==
  CASE s = "CANCELLING"              -> {"CANCELLED"}
    [] s = "RECORDED"                -> {"QUEUED_FOR_TRANS", "QUEUED_FOR_ANALYSIS"}
    [] s = "QUEUED_FOR_TRANS"        -> {"TRANSCRIBING"}
    [] s = "TRANSCRIBING"            -> {"QUEUED_FOR_TRANS", "TRANSCRIBED",
                                         "TRANSIENT_FAILED", "FAILED"}
    [] s = "TRANSCRIBED"             -> {"QUEUED_FOR_ANALYSIS"}
    [] s = "QUEUED_FOR_ANALYSIS"     -> {"ANALYZING"}
    [] s = "ANALYZING"               -> {"CANDIDATE_CREATED", "COMPLETED", "QUEUED_FOR_TRANS",
                                         "TRANSIENT_FAILED", "FAILED"}
    [] s = "CANDIDATE_CREATED"       -> {"AWAITING_REVIEW", "REVIEWED_WAITING_ACTION", "APPROVED"}
    [] s = "AWAITING_REVIEW"         -> {"REVIEWED_WAITING_ACTION", "APPROVED",
                                         "COMPLETED", "CANCELLED"}
    [] s = "REVIEWED_WAITING_ACTION" -> {"APPROVED", "CANCELLED"}
    [] s = "APPROVED"                -> {"APPROVED_WAITING_RENDER", "QUEUED_FOR_RENDER"}
    [] s = "APPROVED_WAITING_RENDER" -> {"QUEUED_FOR_RENDER", "CANCELLED"}
    [] s = "QUEUED_FOR_RENDER"       -> {"RENDERING"}
    [] s = "RENDERING"               -> {"RENDERED", "TRANSIENT_FAILED", "FAILED",
                                         "QUEUED_FOR_RENDER"}
    [] s = "RENDERED"                -> {"AWAITING_PUBLISH_CONFIRMATION", "QUEUED_FOR_PUBLISH",
                                         "COMPLETED"}
    [] s = "AWAITING_PUBLISH_CONFIRMATION" -> {"QUEUED_FOR_PUBLISH", "CANCELLED", "COMPLETED"}
    [] s = "QUEUED_FOR_PUBLISH"      -> {"PUBLISHING", "COMPLETED",
                                         "AWAITING_PUBLISH_CONFIRMATION"}
    [] s = "PUBLISHING"              -> {"COMPLETED", "TRANSIENT_FAILED", "FAILED",
                                         "AWAITING_PUBLISH_CONFIRMATION"}
    [] s = "TRANSIENT_FAILED"        -> QueueStages \cup {"TRANSCRIBED", "FAILED"}
    [] s = "STALE"                   -> QueueStages
    [] OTHER                         -> {}

CanTransition(current, target) ==
  CASE target = "CANCELLING" -> current \in CancellableActiveStages
    [] target = "CANCELLED"  -> current \notin SettledStages \cup {"PUBLISHING"}
    [] OTHER                 -> target \in ValidTransitions(current)

\* The stage a claimed task is worked on in.
ActiveStage(queued) ==
  CASE queued = "QUEUED_FOR_TRANS"    -> "TRANSCRIBING"
    [] queued = "QUEUED_FOR_ANALYSIS" -> "ANALYZING"
    [] queued = "QUEUED_FOR_RENDER"   -> "RENDERING"
    [] queued = "QUEUED_FOR_PUBLISH"  -> "PUBLISHING"
    [] OTHER                          -> queued

\* Faulty: a lost execution resumes in the very stage it was lost in.
ResumeStageSame(failed) == failed

\* The stage an interrupted or retried task goes back to.
ResumeStage(failed) ==
  CASE failed \in {"QUEUED_FOR_ANALYSIS", "QUEUED_FOR_RENDER", "QUEUED_FOR_PUBLISH",
                   "AWAITING_PUBLISH_CONFIRMATION", "REVIEWED_WAITING_ACTION",
                   "AWAITING_REVIEW", "CANDIDATE_CREATED", "RENDERED"} -> failed
    [] failed \in {"APPROVED_WAITING_RENDER", "APPROVED", "RENDERING"} -> "QUEUED_FOR_RENDER"
    [] failed \in {"ANALYZING", "TRANSCRIBED"}                         -> "QUEUED_FOR_ANALYSIS"
    [] failed = "PUBLISHING"                                           -> "QUEUED_FOR_PUBLISH"
    [] OTHER                                                           -> "QUEUED_FOR_TRANS"
=============================================================================
