------------------------------- MODULE TaskRow -------------------------------
(***************************************************************************)
(* One row of segment_tasks, as the functions of                           *)
(* app/pipeline/stage_result.py rewrite it, and the crash counters of      *)
(* app/pipeline/recovery_budget.py that are kept beside it.  Timestamps    *)
(* are reduced to what the code asks of them: `aged` says that the last    *)
(* sign of life (heartbeat_at, else claimed_at) is older than              *)
(* stale_timeout_s.  `asr` is the event-first context of the task: whether *)
(* the segment still awaits signal detection ("pending"), a transcription  *)
(* of the hot spots only ("hotspot"), a full transcription ("background")  *)
(* or has its speech evidence ("settled"), which may be that there is none *)
(* to be had ("unavailable").                                              *)
(***************************************************************************)
EXTENDS TaskStages

CONSTANTS
  Tokens,       \* lease tokens; uuid4().hex in the code
  MaxRetries    \* SegmentTask.max_retries

\* The NULL of the columns claimed_by and lease_token.
Null == 0

NoStage == "NONE"

ASSUME TokensAssumption == Tokens \subseteq Nat \ {Null}
ASSUME RetriesAssumption == MaxRetries \in Nat \ {0}

AsrModes == {"none", "pending", "hotspot", "background", "settled", "unavailable"}

Row == [stage    : Stages,
        owner    : Nat,
        token    : Tokens \cup {Null},
        attempts : Nat,
        failed   : Stages \cup {NoStage},
        asr      : AsrModes,
        aged     : BOOLEAN]

\* Consecutive crashes of one task at one stage, and the last lease counted.
Budget == [consumed : Nat, last : Tokens \cup {Null}]

NoBudget == [consumed |-> 0, last |-> Null]

-----------------------------------------------------------------------------
\* Faulty: the owner is cleared to an empty name (-1 here) instead of NULL.
ReleasedToEmpty(row) == [row EXCEPT !.owner = -1, !.token = Null, !.aged = FALSE]

Released(row) == [row EXCEPT !.owner = Null, !.token = Null, !.aged = FALSE]

\* Faulty: a cancellation in progress loses its lease like any other target.
EnqueuedReleasing(row, next) == Released([row EXCEPT !.stage = next, !.attempts = 0])

\* enqueue_next: callers guard it with CanTransition, which it raises on.
Enqueued(row, next) ==
  LET moved == [row EXCEPT !.stage = next, !.attempts = 0]
  IN  IF next = "CANCELLING" THEN moved ELSE Released(moved)

\* Faulty: failing resets the attempts, as moving on does.
MarkedFailedAfresh(row, permanent) ==
  Released([row EXCEPT !.failed = row.stage, !.attempts = 0,
                       !.stage  = IF permanent THEN "FAILED" ELSE "TRANSIENT_FAILED"])

MarkedFailed(row, permanent) ==
  Released([row EXCEPT !.failed = row.stage,
                       !.stage  = IF permanent THEN "FAILED" ELSE "TRANSIENT_FAILED"])

\* An execution that holds the lease is asked to stop and keeps the lease.
CancellationRequested(row) ==
  LET pending == /\ row.stage \in CancellableActiveStages
                 /\ row.owner # Null
                 /\ row.token # Null
      marked  == IF row.stage \in {"TRANSIENT_FAILED", "STALE"}
                 THEN row ELSE [row EXCEPT !.failed = row.stage]
  IN  Enqueued(marked, IF pending THEN "CANCELLING" ELSE "CANCELLED")

Claimed(row, active, worker, token) ==
  [row EXCEPT !.stage = active, !.owner = worker, !.token = token,
              !.attempts = @ + 1, !.aged = FALSE]

\* Recovery, the retry timer and the shutdown paths put a task back without
\* touching its attempts.
Resumed(row, stage) == Released([row EXCEPT !.stage = stage])

\* Speech evidence is declared unavailable and the analysis goes on.
WithoutAsr(row) == [Enqueued(row, "TRANSCRIBED") EXCEPT !.asr = "unavailable"]

-----------------------------------------------------------------------------
\* A lease is counted at most once, whoever notices first that it was lost.
CrashCounted(budget, token) ==
  IF budget.last = token THEN budget
  ELSE [consumed |-> budget.consumed + 1, last |-> token]

Exhausted(budget) == budget.consumed >= MaxRetries
=============================================================================
