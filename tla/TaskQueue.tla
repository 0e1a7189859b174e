------------------------------ MODULE TaskQueue ------------------------------
(***************************************************************************)
(* The persistent task queue of app/pipeline: rows of segment_tasks are    *)
(* claimed under a lease, executed by threads of the single service        *)
(* process, and written by the scheduler loop, by recovery, by users and   *)
(* by those executions, each in a write transaction of its own.            *)
(*                                                                         *)
(* A transaction that begins with BEGIN IMMEDIATE is one action.  Where    *)
(* the code does not lock first, SQLite reads in autocommit and locks at   *)
(* the first flush: such a handler is two actions, one that reads rows and *)
(* computes what they become (kept in `pending`), one that writes the      *)
(* columns that differ from what it read over whatever is there by then.   *)
(*                                                                         *)
(* An execution is a record in `execs`; it goes through the phases         *)
(*   claimed      its claim is committed, its thread has not started,      *)
(*   running      it is registered (lifecycle._executions) and heartbeats, *)
(*   sent         the same, and it has sent its upload to the platform,    *)
(*   refused      the same, and it has read its lease and will write a     *)
(*                failure without having locked the row,                   *)
(*   ended        its body returned or raised, it is still registered.     *)
(* A process exit destroys every execution and leaves the database.        *)
(***************************************************************************)
EXTENDS TaskRow, FiniteSets

CONSTANTS
  Tasks,          \* rows of segment_tasks
  InitialStages,  \* the stages the service may find them in when it starts
  Slots,          \* executions a stage may have at a time (max_analyzing, ...)
  Automatic,      \* the steps rooms let the scheduler take by itself
  MaxRequests,    \* bound: what people ask for
  MaxCrashes,     \* bound: exits of the process with the database left as it is
  MaxStops        \* bound: orderly stops of the worker inside one process

ASSUME InitialAssumption == InitialStages \subseteq QueueStages \cup WaitingStages
ASSUME SlotsAssumption == Slots \in Nat \ {0}
ASSUME AutomaticAssumption == Automatic \subseteq {"analyze", "approve", "render", "publish"}
ASSUME BoundsAssumption == MaxRequests \in Nat /\ MaxCrashes \in Nat /\ MaxStops \in Nat

VARIABLES
  task,      \* the row of every task
  budget,    \* its recovery budget at every active stage
  savedAsr,  \* tasks with a raw ASR result saved as a checkpoint
  ledger,    \* what the last upload attempt of its clip is known to have done
  execs,     \* executions of this process that have not returned
  asrPool,   \* leases the ASR process pool is still working for
  mode,      \* "running", or "stopping" once shutdown_event is set
  pending,   \* what each unlocked writer has read and not yet written
  requests, crashes, stops

db   == <<task, budget, savedAsr, ledger>>
proc == <<execs, asrPool, mode, pending>>
bounds == <<requests, crashes, stops>>
vars == <<db, proc, bounds>>

\* A restarted process draws a new _WORKER_ID.
worker == crashes + 1

Phases == {"claimed", "running", "sent", "refused", "ended"}
Kinds  == {"worker", "web"}

Execution == [task : Tasks, token : Tokens, stage : ActiveStages,
              kind : Kinds, phase : Phases]

\* The handlers that read before they lock: the tick of the scheduler, a web
\* request and a publishing thread.  Each has at most one write pending.
Writers == {"scheduler", "web", "publisher"}

Change == [task : Tasks, before : Row, after : Row]

\* "none" also stands for an upload known not to have been received, "failed"
\* for one that may not be repeated; a sender that vanished leaves
\* "in_progress", which becomes "reconciliation" when it is noticed.
LedgerStates == {"none", "in_progress", "reconciliation", "success", "failed"}

-----------------------------------------------------------------------------
(* Questions the code asks of the state.                                   *)

InStage(s) == {t \in Tasks : task[t].stage = s}

\* still_owns_lease
Owns(e) ==
  /\ task[e.task].owner = worker
  /\ task[e.task].token = e.token
  /\ task[e.task].stage = e.stage

\* execution_active
Registered(t, token) ==
  \E e \in execs : e.task = t /\ e.token = token /\ e.phase \in {"running", "sent", "refused", "ended"}

\* The body of e has started and neither returned nor raised.
Alive(e) == e \in execs /\ e.phase \in {"running", "sent", "refused"}

InPool(t, token) == <<t, token>> \in asrPool

\* Faulty: an old heartbeat alone means that the execution is gone.
BusyNever(t) == FALSE

\* Faulty: a lease of a process that lives counts as being worked on.
BusyByOwner(t) == task[t].owner = worker /\ task[t].token # Null

\* Faulty: the model process in the pool is forgotten.
BusyWithoutPool(t) ==
  task[t].owner = worker /\ task[t].token # Null /\ Registered(t, task[t].token)

\* The lease a row names is still being worked on in this process.
Busy(t) ==
  /\ task[t].owner = worker
  /\ task[t].token # Null
  /\ Registered(t, task[t].token) \/ InPool(t, task[t].token)

\* Faulty: a token is free again as soon as no row names it.
TokensInRows == {task[t].token : t \in Tasks}

\* uuid4 never repeats a token that anything still remembers.
TokensInUse ==
  {task[t].token : t \in Tasks} \cup {e.token : e \in execs} \cup {p[2] : p \in asrPool}
    \cup {budget[t][s].last : t \in Tasks, s \in ActiveStages}
    \cup {c.after.token : c \in UNION {pending[w] : w \in Writers}}

FreshToken == CHOOSE k \in Tokens : k \notin TokensInUse

\* The scheduler thread does one thing at a time, until it is told to stop.
SchedulerFree == mode = "running" /\ pending["scheduler"] = {}

Running(kind, stage) == {e \in execs : e.kind = kind /\ e.stage = stage}

-----------------------------------------------------------------------------
Init ==
  /\ \E s \in [Tasks -> InitialStages] :
       task = [t \in Tasks |->
                [stage |-> s[t], owner |-> Null, token |-> Null, attempts |-> 0,
                 failed |-> NoStage, aged |-> FALSE,
                 asr |-> CASE s[t] = "RECORDED" -> "none"
                           [] s[t] = "QUEUED_FOR_TRANS" -> "background"
                           [] OTHER -> "settled"]]
  /\ budget = [t \in Tasks |-> [s \in ActiveStages |-> NoBudget]]
  /\ savedAsr = {}
  /\ ledger = [t \in Tasks |-> "none"]
  /\ execs = {}
  /\ asrPool = {}
  /\ mode = "running"
  /\ pending = [w \in Writers |-> {}]
  /\ requests = 0
  /\ crashes = 0
  /\ stops = 0

-----------------------------------------------------------------------------
(* Claiming and starting.                                                  *)

\* One conditional UPDATE: stage, owner, token, heartbeat and attempts + 1.
PopAndClaim(t) ==
  LET active == ActiveStage(task[t].stage)
      row    == Claimed(task[t], active, worker, FreshToken)
  IN  /\ SchedulerFree
      /\ task[t].stage \in QueueStages
      /\ Cardinality(Running("worker", active)) < Slots
      /\ Tokens \ TokensInUse # {}
      /\ task' = [task EXCEPT ![t] = row]
      /\ execs' = execs \cup {[task |-> t, token |-> row.token, stage |-> active,
                               kind |-> "worker", phase |-> "claimed"]}
      /\ UNCHANGED <<budget, savedAsr, ledger, asrPool, mode, pending, bounds>>

\* A claim that returns to a cancelled scheduler loop is taken back, if the
\* row is still as the claim left it.
ReleaseUnstartedClaim(e) ==
  /\ e \in execs /\ e.phase = "claimed" /\ e.kind = "worker"
  /\ mode = "stopping"
  /\ LET row     == task[e.task]
         queued  == CHOOSE q \in QueueStages : ActiveStage(q) = e.stage
         retaken == [Resumed(row, queued) EXCEPT
                       !.attempts = IF @ > 0 THEN @ - 1 ELSE 0]
     IN  task' = IF row.token = e.token /\ row.stage = e.stage
                 THEN [task EXCEPT ![e.task] = retaken]
                 ELSE task
  /\ execs' = execs \ {e}
  /\ UNCHANGED <<budget, savedAsr, ledger, asrPool, mode, pending, bounds>>

InPhase(e, phase) == [e EXCEPT !.phase = phase]

Moved(e, phase) == (execs \ {e}) \cup {InPhase(e, phase)}

\* register_execution.  A transcription that finds its lease in place gives
\* the ASR pool work under that lease.
StartExecution(e) ==
  /\ e \in execs /\ e.phase = "claimed"
  /\ execs' = Moved(e, "running")
  /\ asrPool' = IF e.stage = "TRANSCRIBING" /\ Owns(e)
                THEN asrPool \cup {<<e.task, e.token>>} ELSE asrPool
  /\ UNCHANGED <<db, mode, pending, bounds>>

\* A batched heartbeat reaches the row of a registered lease.  The
\* coordinator retires every registration once shutdown_event is set.
Heartbeat(e) ==
  /\ Alive(e)
  /\ mode = "running"
  /\ Owns(e)
  /\ task[e.task].aged
  /\ task' = [task EXCEPT ![e.task].aged = FALSE]
  /\ UNCHANGED <<budget, savedAsr, ledger, proc, bounds>>

\* stale_timeout_s passes without a heartbeat on an active row.
Age(t) ==
  /\ task[t].stage \in ActiveStages \cup {"CANCELLING"}
  /\ ~task[t].aged
  /\ task' = [task EXCEPT ![t].aged = TRUE]
  /\ UNCHANGED <<budget, savedAsr, ledger, proc, bounds>>

-----------------------------------------------------------------------------
(* The body of an execution: one action per way it can end.                *)

\* What an ending execution leaves in the ASR pool: nothing when it returned,
\* possibly a slot whose process has not exited yet when it was interrupted.
PoolAfter(e, interrupted) ==
  {asrPool \ {<<e.task, e.token>>}} \cup (IF interrupted THEN {asrPool} ELSE {})

\* The body of e ends and its row becomes `row`.
BodyEnds(e, row, interrupted) ==
  /\ Alive(e) /\ e.phase # "refused"
  /\ task' = [task EXCEPT ![e.task] = row]
  /\ execs' = Moved(e, "ended")
  /\ asrPool' \in PoolAfter(e, interrupted)
  /\ UNCHANGED <<mode, pending, bounds>>

\* mark_completed: the stage's crashes no longer count.
BudgetCleared(e) == [budget EXCEPT ![e.task][e.stage] = NoBudget]

\* The raw result is saved, under the lease, before it is post-processed.
SaveAsrCheckpoint(e) ==
  /\ Alive(e) /\ e.stage = "TRANSCRIBING"
  /\ Owns(e)
  /\ e.task \notin savedAsr
  /\ savedAsr' = savedAsr \cup {e.task}
  /\ UNCHANGED <<task, budget, ledger, proc, bounds>>

\* A transcription of hot spots goes back to the queue for the full one and
\* does not go through mark_completed.
CommitTranscript(e) ==
  LET row == task[e.task] IN
  /\ e.stage = "TRANSCRIBING" /\ Owns(e)
  /\ IF row.asr = "hotspot"
     THEN /\ BodyEnds(e, [Enqueued(row, "QUEUED_FOR_TRANS") EXCEPT !.asr = "background"], FALSE)
          /\ UNCHANGED budget
     ELSE /\ BodyEnds(e, [Enqueued(row, "TRANSCRIBED") EXCEPT !.asr = "settled"], FALSE)
          /\ budget' = BudgetCleared(e)
  /\ UNCHANGED <<savedAsr, ledger>>

\* SIGNAL_PASS: detection is over, speech recognition is next.  Again without
\* mark_completed.  No analysis commits once shutdown_event is set.
CommitSignalPass(e) ==
  /\ e.stage = "ANALYZING" /\ Owns(e) /\ mode = "running"
  /\ task[e.task].asr = "pending"
  /\ \E asr \in {"hotspot", "background"} :
       BodyEnds(e, [Enqueued(task[e.task], "QUEUED_FOR_TRANS") EXCEPT !.asr = asr], FALSE)
  /\ UNCHANGED <<budget, savedAsr, ledger>>

\* The pass over events ends here, in FailExecution or in LoseLease too: what
\* it commits before that (EVENT_PASS) are facts, and the row stays.
CommitHighlight(e) ==
  /\ e.stage = "ANALYZING" /\ Owns(e) /\ mode = "running"
  /\ task[e.task].asr # "pending"
  /\ \E next \in {"CANDIDATE_CREATED", "COMPLETED"} :
       BodyEnds(e, Enqueued(task[e.task], next), FALSE)
  /\ budget' = BudgetCleared(e)
  /\ UNCHANGED <<savedAsr, ledger>>

\* The new clip has no upload attempt yet.
CommitRender(e) ==
  /\ e.stage = "RENDERING" /\ Owns(e) /\ mode = "running"
  /\ BodyEnds(e, Enqueued(task[e.task], "RENDERED"), FALSE)
  /\ budget' = BudgetCleared(e)
  /\ ledger' = [ledger EXCEPT ![e.task] = "none"]
  /\ UNCHANGED savedAsr

\* Preparation and the transaction that marks the request as sent, or that finds
\* the clip or the settings changed since and gives the attempt up for good.
SendUpload(e) ==
  /\ e \in execs /\ e.phase = "running" /\ e.stage = "PUBLISHING"
  /\ Owns(e)
  /\ ledger[e.task] = "none"
  /\ \E r \in {"in_progress", "failed"} : ledger' = [ledger EXCEPT ![e.task] = r]
  /\ execs' = Moved(e, "sent")
  /\ UNCHANGED <<task, budget, savedAsr, asrPool, mode, pending, bounds>>

Sent(t) == \E e \in execs : e.task = t /\ e.phase = "sent"

\* The outcome is stored by attempt token, whoever holds the lease; a rejection
\* may also come after recovery has given up waiting.  Of a sender that is gone
\* only a journalled success can still be learnt.
RecordUploadResult(t) ==
  /\ \/ /\ ledger[t] = "in_progress"
        /\ \E r \in IF Sent(t) THEN LedgerStates \ {"in_progress"}
                              ELSE {"success", "reconciliation"} :
             ledger' = [ledger EXCEPT ![t] = r]
     \/ /\ ledger[t] = "reconciliation"
        /\ \E r \in {"success"} \cup (IF Sent(t) THEN {"failed"} ELSE {}) :
             ledger' = [ledger EXCEPT ![t] = r]
  /\ UNCHANGED <<task, budget, savedAsr, proc, bounds>>

\* Only the stored result of the attempt moves the task on, if the clip is
\* still the attempt's.  A clip already published is not sent again.
CommitPublishAndAdvance(e) ==
  LET row == task[e.task] IN
  /\ e.stage = "PUBLISHING" /\ Owns(e)
  /\ e.phase = "sent" \/ ledger[e.task] = "success"
  /\ \/ /\ ledger[e.task] = "success"
        /\ BodyEnds(e, Enqueued(row, "COMPLETED"), FALSE)
        /\ budget' = BudgetCleared(e)
     \/ /\ ledger[e.task] = "reconciliation"
        /\ BodyEnds(e, Enqueued(row, "AWAITING_PUBLISH_CONFIRMATION"), FALSE)
        /\ UNCHANGED budget
     \/ /\ ledger[e.task] \in {"none", "failed"}
        /\ BodyEnds(e, MarkedFailed(row, ledger[e.task] = "failed"), FALSE)
        /\ UNCHANGED budget
     \/ \* The attempt is still open, is gone, or belongs to another clip.
        /\ BodyEnds(e, row, FALSE)
        /\ UNCHANGED budget
  /\ UNCHANGED <<savedAsr, ledger>>

\* The failure that a refused publication will write over its row.
Refusal(e, permanent) ==
  [task |-> e.task, before |-> task[e.task], after |-> MarkedFailed(task[e.task], permanent)]

\* Faulty: the failure is written whoever holds the lease.
RefuseUploadUnchecked(e) ==
  /\ e \in execs /\ e.phase = "running" /\ e.stage = "PUBLISHING"
  /\ ledger[e.task] # "success"
  /\ pending["publisher"] = {}
  /\ \E permanent \in BOOLEAN :
       pending' = [pending EXCEPT !["publisher"] = {Refusal(e, permanent)}]
  /\ execs' = Moved(e, "refused")
  /\ UNCHANGED <<db, asrPool, mode, bounds>>

\* Preparation refuses to send.  run_publish reads the row and checks the
\* lease on what it read, without having locked; FlushPublisher writes.
RefuseUpload(e) ==
  /\ e \in execs /\ e.phase = "running" /\ e.stage = "PUBLISHING"
  /\ Owns(e)
  /\ ledger[e.task] # "success"
  /\ pending["publisher"] = {}
  /\ \E permanent \in BOOLEAN :
       pending' = [pending EXCEPT !["publisher"] = {Refusal(e, permanent)}]
  /\ execs' = Moved(e, "refused")
  /\ UNCHANGED <<db, asrPool, mode, bounds>>

\* LeaseLostError and OperationCancelledError: nothing is written.  A render
\* whose variant was replaced raises it with the lease in place.
LoseLease(e) ==
  /\ ~Owns(e) \/ (e.stage = "RENDERING" /\ e.kind = "worker")
  /\ BodyEnds(e, task[e.task], TRUE)
  /\ UNCHANGED <<budget, savedAsr, ledger>>

\* Any other exception, or a commit that finds its sources changed.  ASR that
\* is known to stay unavailable does not fail the task.
FailExecution(e) ==
  LET row == task[e.task] IN
  /\ Owns(e)
  /\ \E next \in {MarkedFailed(row, permanent) : permanent \in BOOLEAN}
                 \cup (IF e.stage = "TRANSCRIBING" THEN {WithoutAsr(row)} ELSE {}) :
       BodyEnds(e, next, TRUE)
  /\ UNCHANGED <<budget, savedAsr, ledger>>

\* ASRProcessExitError: a crash of the model process counts like one of ours.
AsrProcessCrash(e) ==
  LET row     == task[e.task]
      counted == CrashCounted(budget[e.task][e.stage], e.token)
  IN  /\ e.stage = "TRANSCRIBING" /\ Owns(e)
      /\ budget' = [budget EXCEPT ![e.task][e.stage] = counted]
      /\ BodyEnds(e, IF ~Exhausted(counted) THEN MarkedFailed(row, FALSE)
                     ELSE IF e.task \in savedAsr THEN MarkedFailed(row, TRUE)
                     ELSE WithoutAsr(row), TRUE)
      /\ UNCHANGED <<savedAsr, ledger>>

\* ASRShutdownError, ProcessShutdownError and OperationShutdownError requeue
\* the task with its attempts.  enqueue_next raises where the matrix has no
\* such transition, and the row stays as it is.
ShutdownInterrupts(e) ==
  LET row    == task[e.task]
      resume == ResumeStage(e.stage)
  IN  /\ mode = "stopping"
      /\ e.stage \in CancellableActiveStages /\ Owns(e)
      /\ BodyEnds(e, IF CanTransition(e.stage, resume) THEN Resumed(row, resume) ELSE row, TRUE)
      /\ UNCHANGED <<budget, savedAsr, ledger>>

-----------------------------------------------------------------------------
(* The end of an execution.                                                *)

\* finish_execution and settle_cancellation: the lease that was asked to stop
\* reports that it has, unless the model process it used is still there.
SettleExecution(e) ==
  LET row == task[e.task] IN
  /\ e \in execs /\ e.phase = "ended"
  /\ task' = IF /\ row.stage = "CANCELLING" /\ row.owner = worker /\ row.token = e.token
                /\ ~(e.stage = "TRANSCRIBING" /\ InPool(e.task, e.token))
             THEN [task EXCEPT ![e.task] = Enqueued(row, "CANCELLED")]
             ELSE task
  /\ execs' = execs \ {e}
  /\ UNCHANGED <<budget, savedAsr, ledger, asrPool, mode, pending, bounds>>

\* The pool sees the exit of a process it had to terminate.
PoolReap(p) ==
  /\ p \in asrPool
  /\ ~\E e \in execs : Alive(e) /\ <<e.task, e.token>> = p
  /\ asrPool' = asrPool \ {p}
  /\ UNCHANGED <<db, execs, mode, pending, bounds>>

-----------------------------------------------------------------------------
(* The tick of the scheduler.                                              *)

\* The columns a flush writes are those the handler changed.
Overlaid(row, c) ==
  LET Column(before, after, now) == IF before = after THEN now ELSE after
  IN  [stage    |-> Column(c.before.stage, c.after.stage, row.stage),
       owner    |-> Column(c.before.owner, c.after.owner, row.owner),
       token    |-> Column(c.before.token, c.after.token, row.token),
       attempts |-> Column(c.before.attempts, c.after.attempts, row.attempts),
       failed   |-> Column(c.before.failed, c.after.failed, row.failed),
       asr      |-> Column(c.before.asr, c.after.asr, row.asr),
       aged     |-> Column(c.before.aged, c.after.aged, row.aged)]

\* A handler of the tick has read its rows and decided; next maps the rows it
\* moves to what they become.
Decide(ts, next) ==
  /\ SchedulerFree
  /\ ts # {}
  /\ pending' = [pending EXCEPT !["scheduler"] =
                   {[task |-> t, before |-> task[t], after |-> next[t]] : t \in ts}]
  /\ UNCHANGED <<db, execs, asrPool, mode, bounds>>

\* The rows of a stage that the settings of their rooms, the scores of their
\* candidates and the checks of their sources let pass go to one of targets.
Advance(stage, targets) ==
  \E ts \in SUBSET InStage(stage) : \E to \in [ts -> targets] :
    Decide(ts, [t \in ts |-> Enqueued(task[t], to[t])])

IfAutomatic(step, target) == IF step \in Automatic THEN {target} ELSE {}

AdvanceRecorded ==
  /\ "analyze" \in Automatic
  /\ \E ts \in SUBSET InStage("RECORDED") :
    Decide(ts, [t \in ts |-> [Enqueued(task[t], "QUEUED_FOR_ANALYSIS") EXCEPT !.asr = "pending"]])

AdvanceTranscribed == Advance("TRANSCRIBED", IfAutomatic("analyze", "QUEUED_FOR_ANALYSIS"))

AdvanceCandidate ==
  Advance("CANDIDATE_CREATED", {"AWAITING_REVIEW"} \cup IfAutomatic("approve", "APPROVED"))

AdvanceApproved ==
  Advance("APPROVED",
          {"APPROVED_WAITING_RENDER"} \cup IfAutomatic("render", "QUEUED_FOR_RENDER"))

AdvanceRendered ==
  Advance("RENDERED",
          {"AWAITING_PUBLISH_CONFIRMATION"} \cup IfAutomatic("publish", "QUEUED_FOR_PUBLISH"))

\* sync_segment_task_from_attempt.  mark_failed asks no matrix.
SyncUploads ==
  LET known == {t \in Tasks :
                  /\ task[t].stage \in {"PUBLISHING", "QUEUED_FOR_PUBLISH", "RENDERED",
                                        "AWAITING_PUBLISH_CONFIRMATION"}
                  /\ \/ ledger[t] \in {"success", "failed"}
                     \/ /\ ledger[t] = "reconciliation"
                        /\ task[t].stage # "AWAITING_PUBLISH_CONFIRMATION"}
  IN  Decide(known, [t \in known |->
        CASE ledger[t] = "success"        -> Enqueued(task[t], "COMPLETED")
          [] ledger[t] = "reconciliation" -> Enqueued(task[t], "AWAITING_PUBLISH_CONFIRMATION")
          [] ledger[t] = "failed"         -> MarkedFailed(task[t], TRUE)])

\* The transaction that was open locks and commits.  A publication found to
\* be complete clears the crashes of the stage it was read in.
Flush(writer) ==
  LET cs == pending[writer]
      ChangeOf(t) == CHOOSE c \in cs : c.task = t
  IN  /\ cs # {}
      /\ task' = [t \in Tasks |-> IF t \in {c.task : c \in cs}
                                  THEN Overlaid(task[t], ChangeOf(t)) ELSE task[t]]
      /\ budget' = [t \in Tasks |-> [s \in ActiveStages |->
                     IF \E c \in cs : c.task = t /\ c.before.stage = s /\ c.after.stage = "COMPLETED"
                     THEN NoBudget ELSE budget[t][s]]]
      /\ pending' = [pending EXCEPT ![writer] = {}]
      /\ UNCHANGED <<savedAsr, ledger, asrPool, mode, bounds>>

FlushScheduler == Flush("scheduler") /\ UNCHANGED execs

\* The failure of a refused publication is committed, over what its row has
\* become since; the lease is not looked at again.
FlushPublisher(e) ==
  /\ e \in execs /\ e.phase = "refused"
  /\ {c.task : c \in pending["publisher"]} = {e.task}
  /\ Flush("publisher")
  /\ execs' = Moved(e, "ended")

\* A person's decision and this handler both lock first.
AdvanceAwaitingReview ==
  /\ SchedulerFree
  /\ "approve" \in Automatic
  /\ \E ts \in SUBSET InStage("AWAITING_REVIEW") \ {{}} :
       task' = [t \in Tasks |-> IF t \in ts THEN Enqueued(task[t], "APPROVED") ELSE task[t]]
  /\ UNCHANGED <<budget, savedAsr, ledger, proc, bounds>>

\* The delay of some failed tasks is over.
RetryExpired ==
  /\ SchedulerFree
  /\ \E due \in SUBSET InStage("TRANSIENT_FAILED") \ {{}} :
       task' = [t \in Tasks |->
         LET row == task[t] IN
         IF t \notin due THEN row
         ELSE IF row.attempts < MaxRetries THEN Resumed(row, ResumeStage(row.failed))
         ELSE IF row.failed = "TRANSCRIBING" THEN WithoutAsr(row)
         ELSE Resumed(row, "FAILED")]
  /\ UNCHANGED <<budget, savedAsr, ledger, proc, bounds>>

\* What recover_stale does with an active row whose execution is gone.
Recovered(t, counted) ==
  IF ~Exhausted(counted) THEN Resumed(task[t], ResumeStage(task[t].stage))
  ELSE IF task[t].stage = "TRANSCRIBING" /\ t \notin savedAsr THEN WithoutAsr(task[t])
  ELSE MarkedFailed(task[t], TRUE)

RecoverStale ==
  LET gone   == {t \in Tasks : task[t].aged /\ ~Busy(t)}
      cancel == {t \in gone : task[t].stage = "CANCELLING"}
      lost   == {t \in gone : /\ task[t].stage \in ActiveStages
                              /\ ~ /\ task[t].stage = "PUBLISHING"
                                   /\ ledger[t] \in {"in_progress", "reconciliation"}}
      settled == {t \in Tasks : /\ task[t].stage \in SettledStages \cup {"TRANSIENT_FAILED"}
                                /\ task[t].owner # Null \/ task[t].token # Null}
      counted == [t \in lost |-> CrashCounted(budget[t][task[t].stage], task[t].token)]
  IN  /\ SchedulerFree
      /\ cancel \cup lost \cup settled # {}
      /\ task' = [t \in Tasks |->
                    CASE t \in cancel  -> Enqueued(task[t], "CANCELLED")
                      [] t \in lost    -> Recovered(t, counted[t])
                      [] t \in settled -> Released(task[t])
                      [] OTHER         -> task[t]]
      /\ budget' = [t \in Tasks |-> IF t \in lost
                                    THEN [budget[t] EXCEPT ![task[t].stage] = counted[t]]
                                    ELSE budget[t]]
      /\ UNCHANGED <<savedAsr, ledger, proc, bounds>>

-----------------------------------------------------------------------------
(* People.                                                                 *)

Requested == requests < MaxRequests /\ requests' = requests + 1

\* cancel_task; rejecting a candidate asks the same of its task.
CancelTask(t) ==
  /\ Requested
  /\ task[t].stage # "CANCELLING"
  /\ CanTransition(task[t].stage, "CANCELLED")
  /\ task' = [task EXCEPT ![t] = CancellationRequested(task[t])]
  /\ UNCHANGED <<budget, savedAsr, ledger, proc, crashes, stops>>

RetryTask(t) ==
  LET row  == task[t]
      from == IF row.failed = NoStage THEN row.stage ELSE row.failed
  IN  /\ Requested
      /\ row.stage \in {"FAILED", "CANCELLED", "TRANSIENT_FAILED"}
      /\ task' = [task EXCEPT ![t] = [Resumed(row, ResumeStage(from)) EXCEPT !.attempts = 0]]
      /\ budget' = [budget EXCEPT ![t] = [s \in ActiveStages |-> NoBudget]]
      /\ UNCHANGED <<savedAsr, ledger, proc, crashes, stops>>

ReviewableStages == {"AWAITING_REVIEW", "CANDIDATE_CREATED", "REVIEWED_WAITING_ACTION"}

\* submit_review: a clip of its own is rendered at once, any other approval
\* leaves that to the room's settings, any other decision parks the task.
SubmitReview(t) ==
  LET stage == task[t].stage
      next  == (IF stage \in ReviewableStages \cup {"APPROVED", "APPROVED_WAITING_RENDER"}
                THEN {"QUEUED_FOR_RENDER"} ELSE {})
               \cup (IF stage \in ReviewableStages THEN {"APPROVED"} ELSE {})
               \cup (IF stage \in {"AWAITING_REVIEW", "CANDIDATE_CREATED"}
                     THEN {"REVIEWED_WAITING_ACTION"} ELSE {})
  IN  /\ Requested
      /\ \E to \in next : task' = [task EXCEPT ![t] = Enqueued(task[t], to)]
      /\ UNCHANGED <<budget, savedAsr, ledger, proc, crashes, stops>>

\* approve_candidate_sync reads the task of a candidate, approves it and
\* claims it for this very request: the queue never sees it.
RequestRender(t) ==
  LET row == task[t] IN
  /\ Requested
  /\ row.stage \in ReviewableStages \cup {"APPROVED", "APPROVED_WAITING_RENDER"}
  /\ pending["web"] = {}
  /\ Cardinality(Running("web", "RENDERING")) < Slots
  /\ Tokens \ TokensInUse # {}
  /\ pending' = [pending EXCEPT !["web"] =
       {[task |-> t, before |-> row,
         after |-> Claimed(Enqueued(row, "QUEUED_FOR_RENDER"), "RENDERING", worker, FreshToken)]}]
  /\ UNCHANGED <<db, execs, asrPool, mode, crashes, stops>>

FlushRenderRequest ==
  /\ Flush("web")
  /\ execs' = execs \cup {[task |-> c.task, token |-> c.after.token, stage |-> "RENDERING",
                           kind |-> "web", phase |-> "claimed"] : c \in pending["web"]}

\* Storing the feedback raised: the request ends before it registers.
AbandonRequest(e) ==
  /\ e \in execs /\ e.phase = "claimed" /\ e.kind = "web"
  /\ execs' = execs \ {e}
  /\ UNCHANGED <<db, asrPool, mode, pending, bounds>>

\* The job is cancelled while it still holds its lease.
CancelRender(e) ==
  /\ e.kind = "web" /\ Owns(e)
  /\ BodyEnds(e, CancellationRequested(task[e.task]), TRUE)
  /\ UNCHANGED <<budget, savedAsr, ledger>>

\* The person has checked the platform; the confirmation overrides the matrix.
ConfirmPublished(t) ==
  /\ Requested
  /\ task[t].stage \in {"AWAITING_PUBLISH_CONFIRMATION", "PUBLISHING",
                        "QUEUED_FOR_PUBLISH", "RENDERED"}
  /\ task' = [task EXCEPT ![t] = Resumed(task[t], "COMPLETED")]
  /\ ledger' = [ledger EXCEPT ![t] = IF @ = "reconciliation" THEN "success" ELSE @]
  /\ UNCHANGED <<budget, savedAsr, proc, crashes, stops>>

-----------------------------------------------------------------------------
(* The life of the process.                                                *)

RequestStop ==
  /\ mode = "running" /\ stops < MaxStops
  /\ mode' = "stopping"
  /\ stops' = stops + 1
  /\ UNCHANGED <<db, execs, asrPool, pending, requests, crashes>>

\* Computations that outlive the grace period lose the right to write.
ReleaseStoppedComputations ==
  LET revoked == {t \in Tasks : task[t].owner = worker
                                /\ task[t].stage \in {"TRANSCRIBING", "ANALYZING"}}
  IN  /\ mode = "stopping"
      /\ \/ \E s \in {"TRANSCRIBING", "ANALYZING"} : Running("worker", s) # {}
         \/ asrPool # {}
      /\ revoked # {}
      /\ task' = [t \in Tasks |-> IF t \in revoked
                                  THEN Resumed(task[t], ResumeStage(task[t].stage)) ELSE task[t]]
      /\ UNCHANGED <<budget, savedAsr, ledger, proc, bounds>>

\* A worker starts again once everything of the last one has returned.
Start ==
  /\ mode = "stopping"
  /\ \A e \in execs : e.kind = "web"
  /\ asrPool = {}
  /\ pending["scheduler"] = {} /\ pending["publisher"] = {}
  /\ mode' = "running"
  /\ UNCHANGED <<db, execs, asrPool, pending, bounds>>

\* The process dies, or exits after a stop, and another one is started.
Restart ==
  /\ crashes < MaxCrashes
  /\ crashes' = crashes + 1
  /\ execs' = {} /\ asrPool' = {} /\ pending' = [w \in Writers |-> {}]
  /\ mode' = "running"
  /\ UNCHANGED <<db, requests, stops>>

-----------------------------------------------------------------------------
Commit(e) ==
  \/ CommitTranscript(e) \/ CommitSignalPass(e) \/ CommitHighlight(e)
  \/ CommitRender(e) \/ CommitPublishAndAdvance(e)

\* Every way in which the body of an execution can end.
BodyStep(e) ==
  \/ Commit(e) \/ RefuseUpload(e) \/ FlushPublisher(e) \/ LoseLease(e) \/ FailExecution(e)
  \/ AsrProcessCrash(e) \/ ShutdownInterrupts(e) \/ CancelRender(e)

ExecutionStep(e) ==
  \/ ReleaseUnstartedClaim(e) \/ AbandonRequest(e) \/ StartExecution(e) \/ Heartbeat(e)
  \/ SaveAsrCheckpoint(e) \/ SendUpload(e) \/ BodyStep(e)
  \/ SettleExecution(e)

SchedulerStep ==
  \/ AdvanceRecorded \/ AdvanceTranscribed \/ AdvanceCandidate \/ AdvanceAwaitingReview
  \/ AdvanceApproved \/ AdvanceRendered \/ SyncUploads \/ FlushScheduler
  \/ RetryExpired \/ RecoverStale
  \/ \E t \in Tasks : PopAndClaim(t)

UserStep ==
  \/ \E t \in Tasks : \/ CancelTask(t) \/ RetryTask(t) \/ SubmitReview(t)
                      \/ RequestRender(t) \/ ConfirmPublished(t)
  \/ FlushRenderRequest

Lifecycle == RequestStop \/ ReleaseStoppedComputations \/ Start \/ Restart

Next ==
  \/ SchedulerStep \/ UserStep \/ Lifecycle
  \/ \E e \in execs : ExecutionStep(e)
  \/ \E t \in Tasks : Age(t) \/ RecordUploadResult(t)
  \/ \E p \in asrPool : PoolReap(p)

Spec == Init /\ [][Next]_vars

\* The execution that holds token k, if there is one.
Of(k) == {e \in execs : e.token = k}

\* Open transactions commit; threads run and computations end (they are under
\* timeouts); time passes; the pool sees its processes exit; a stopped worker
\* is started again.  The tick calls every handler in turn, so a handler that
\* is enabled again and again between the others' writes gets its turn.
Fairness ==
  /\ WF_vars(FlushScheduler) /\ WF_vars(FlushRenderRequest)
  /\ WF_vars(Start)
  /\ SF_vars(SyncUploads) /\ SF_vars(RecoverStale)
  /\ \A t \in Tasks : /\ SF_vars(PopAndClaim(t))
                      /\ WF_vars(Age(t)) /\ WF_vars(RecordUploadResult(t))
                      /\ SF_vars(RetryExpired /\ task'[t] # task[t])
  /\ \A k \in Tokens :
       /\ WF_vars(\E e \in Of(k) : StartExecution(e))
       /\ WF_vars(\E e \in Of(k) : BodyStep(e))
       /\ WF_vars(\E e \in Of(k) : SettleExecution(e))
       /\ \A t \in Tasks : WF_vars(PoolReap(<<t, k>>))

LiveSpec == Spec /\ Fairness
=============================================================================
