# TLA+ models of BiliLiveCut

BiliLiveCut records live streams, finds highlights in them, lets a person (or a
room's settings) approve them, renders clips and publishes them. It is one
service process (FastAPI, asyncio and many threads) over one SQLite database;
`src/app` is the implementation. This directory holds TLA+ modules translated
from that code, the TLC configurations that check them on small instances and
proofs that TLAPS checks for every instance.

## Inventory

| Component | State it keeps | Operations | Interacts with | What is hard |
|---|---|---|---|---|
| Task queue: `pipeline/stage_result.py`, `claiming.py`, `lease.py`, `scheduler.py`, `stale_recovery.py`, `recovery_budget.py`, `lifecycle.py` | `segment_tasks` rows (stage, owner, lease token, attempts, failed stage, heartbeat, event-first context), recovery budgets in `app_settings`, the registry `_executions` | claim, execute, commit, fail, cancel, retry, advance, recover | stage executions, users, upload ledger, ASR pool | leases overtaken by recovery; handlers that read before they lock; crashes; retries |
| Task worker: `pipeline/task_worker.py` | thread, event loop, `shutdown_event`, dispatch pools | start, tick, dispatch, request_stop, finish_stop | everything in the queue | a stop that arrives between a claim and its start |
| Heartbeats: `pipeline/heartbeat.py` | registrations, one coordinator thread | register, batch write, retire | queue rows | heartbeats stop at shutdown while computations go on |
| Stage executions: `pipeline/workers/*`, `pipeline/asr_checkpoint.py` | a lease, checkpoints | transcribe, analyse, render, publish: compute outside a transaction, commit inside one | queue, ASR pool, ledger | late commits |
| ASR process pool: `analysis/transcription/process_pool.py`, `isolated.py` | slots, processes, quarantine, reservations of models | admit, hand over, quarantine, kill, clean up, shut down | executions, stale recovery | a process that outlives its execution |
| Publishing: `publishing/*`, `pipeline/publish_recovery.py`, `pipeline/workers/publish.py` | `upload_tasks`, `upload_attempts`, journal files | prepare, send, journal, commit, replay, reconcile, confirm | queue, jobs, people | a request whose answer is lost must not be sent again |
| Jobs: `db/job_store.py`, `jobs/manager.py` | records in `app_settings`, asyncio tasks, a semaphore | register, claim, report, finish, cancel, retry, recover | web services, publishing | cancellation against completion, results of old attempts |
| Review: `web/services/review_workflow.py`, `candidates.py`, `web/routers/review_router.py`, `pipeline/approval.py`, `rejection.py` | review claims, drafts, undo history, event status | claim, decide, undo, render at once | queue, jobs | undo restores a snapshot; two reviewers |
| Re-analysis: `analysis/reanalysis.py`, `editorial_reanalysis.py`, `web/services/transcripts.py` | versions of transcripts and events | re-queue a task | queue, review | a running execution works on the old version |
| Resources: `core/resource_budget.py`, `core/media_usage.py` | counters under a lock, file locks | acquire, release; reference and clean-up scopes | executions, storage clean-up | a release on two paths; clean-up against use |
| Supervisor and primitives: `core/supervisor.py`, `execution.py`, `cancellation.py` | services started, deadlines, cancellation scopes | ordered start, broadcast stop, reverse clean-up | every service | a stop during start |
| Database and ownership: `db/session.py`, `db/service_ownership.py` | file locks, sessions | begin, lock, commit | everything | SQLite locks at the first write only |
| Recording: `recording/*`, `web/services/rooms.py`, `pipeline/live_monitor.py` | intents, executions, attempts, FFmpeg processes, writer locks, schedules, danmaku journal | accept, bind, race streams, fail over, settle, recover | task creation, people, schedules, the live monitor | a recorder process that outlives the service |
| Notifications: `notify/*`, `db/notifications.py` | queued deliveries | publish, deliver, stop | all | bounded queue |
| Analysis, clipping, models, sources, plugins, trends, front end | results and settings | computations, ffmpeg, HTTP | executions, web | I/O and scoring, no protocol of their own |

What makes the first ones correct: at most one execution may write a task, and
only the one whose lease the row names; nothing is reported cancelled or
crashed that still runs; every task that is worked on is released again,
however its execution ends; a clip is sent at most once unless an earlier send
is known not to have arrived; a job's result belongs to its last attempt.

## Plan

1. `TaskStages`, `TaskRow`, `TaskQueue`, `TaskQueueProperties`, `MCTaskQueue`:
   the queue and everything that writes its rows (written).
2. `TaskQueueProofs`: types, leases and exclusiveness; `Leases`,
   what the queue promises about leases without owners, heartbeats and
   transactions; `LeaseProofs`: `CrashesAreReal`, `CancelSettlesAfterExit` and
   that `TaskQueue` implements `Leases` (written).
3. `UploadLedger`, `Publishing`, `PublishingProperties`, `MCPublishing`:
   attempts, the journal, crash recovery and confirmation, which implement an
   abstract ledger "sent at most once, success never forgotten", and
   `PublishingProofs`: its safety properties and the refinement (written).
4. `JobRow`, `Jobs`, `JobsProperties`, `MCJobs`: records and asyncio tasks of
   background jobs, and `JobsProofs`: their safety properties (written).
5. `Recording`, `RecordingProperties`, `MCRecording`: one room from the request
   to the settlement of its sessions, with the loss and restart of the service
   (written).
6. `AsrPool`, `AsrPoolProperties`, `MCAsrPool`: processes, quotas, quarantine
   and the stop of the recognition pool (written).
7. `AsrPoolProofs` and `RecordingProofs`: the safety properties of both
   (written).
8. `RenderCommit`: the two-phase commit of a clip with its checkpoint.
9. `ReviewWorkflow` and `Reanalysis` over `TaskRow`: claims, drafts, undo,
   and re-queueing under running executions.
10. `ResourceBudget` with the dispatcher, `Supervisor`, `MediaUsage`,
    notifications.

Each module has runs of its own, and each run asks a question of its own. The pure parts (stage matrix, resume stages,
admission against caps) are operators that the proofs can use; no module that
is proved about declares a RECURSIVE operator.

## The task queue

`TaskStages` has the stages of `TaskStatus` that this code reaches, the
transition matrix and the maps between a queue, its active stage and the stage
a task resumes in. `TaskRow` has one row and the functions of
`stage_result.py`, `claiming.py` and `recovery_budget.py` that rewrite it.
`TaskQueue` has the system:

| Variable | In the code |
|---|---|
| `task` | rows of `segment_tasks`; `aged` stands for `heartbeat_at`/`claimed_at` older than `stale_timeout_s`; `asr` for the event-first context |
| `budget` | `RecoveryBudget` in `app_settings`, per task and stage |
| `savedAsr` | tasks with a raw ASR checkpoint (`asr_checkpoint.save_raw`) |
| `ledger` | what the last `UploadAttempt` of the clip is known to have done |
| `execs` | threads that hold, or held, a claim, with their phase; `lifecycle._executions` |
| `asrPool` | leases that slots of the ASR pool still work for |
| `mode` | `shutdown_event` |
| `pending` | what each handler that does not lock first has read and will write |
| `requests`, `crashes`, `stops` | bounds |

**Transactions.** The engine is pysqlite in its legacy transaction mode: a
SELECT takes no lock and the write lock is taken at the first flush, unless the
code says BEGIN IMMEDIATE. A handler that begins with BEGIN IMMEDIATE (stale
recovery, retry, claim release, cancellation, the commits and failures of
executions, review decisions) or is one conditional UPDATE (`pop_and_claim`) is
one action. The others (`advance_recorded`, `advance_transcribed`,
`advance_candidate`, `advance_approved`, `advance_rendered`,
`sync_segment_task_from_attempt`, the claim made by `approve_candidate_sync`,
the refusal in `run_publish`) are two: the first stores the rows as read and as
they should become, the second writes the columns that differ (`Overlaid`),
which is what the ORM's unit of work does, without a version column.
`run_publish` is the one execution among them: its check of the lease
(`RefuseUpload`) is a SELECT, and the failure it then writes
(`FlushPublisher`) is not checked again.

**Executions.** An execution is `claimed`, `running` (registered, with
heartbeats), `sent` (it sent its upload), `refused` (it has read its lease and
will write a failure) or `ended` (still registered). The
body of an execution ends in exactly one `BodyStep`, which for a refused
publication is the flush; `SettleExecution` is the
`finally` of `execute_task`. `Restart` destroys the executions and keeps the
database; what an upload sent before the crash is left `in_progress`.

**Abstractions.** What a stage computes; scores, sources and room settings,
which become nondeterministic choices; priorities and back-off; the time
between ticks. Rows with a negative answer to those questions simply stay.
Bounds: requests of people, exits of the process, stops of the worker, slots
per stage and the tokens, which stand for uuid4 values that nothing remembers
any more (`TokensInUse` is everything that remembers one, so drawing one again
is as good as drawing a new one).

### Runs

| Run | Question | Instance |
|---|---|---|
| `task_compute` | leases, late writes, cancellations and crashes in transcription and analysis | 1 task, 1 slot, MaxRetries 1, 2 requests, 1 crash, 1 stop |
| `live_compute` | cancellations settle, tasks come to rest, when the worker may stop | the same with 1 request and no crash |
| `live_clip` | review, rendering (queue and web) and publishing: work ends, tasks come to rest, and what leases promise is kept, with refused publications | 1 task, 1 slot, MaxRetries 1, 1 request, 1 crash |
| `interrupted_requeued`, `saved_speech_kept` | two sentences of comments and docs that the code does not keep | smallest instance that shows it |

The bounds are enough for the cases the properties are about: a lease is lost
by recovery (Age, RecoverStale), by revocation at shutdown, by cancellation and
by the late write of an unlocked handler, with the old execution still running
and, as recovery frees the slot, with its successor running beside it; one
crash leaves rows leased to a process that is gone; the budget is used up with
MaxRetries 1. More tasks, slots and retries are not explored: that late writes
keep leases and tokens apart is proved for every number of them (see Proofs),
so no run repeats it.

### Safety

`ActiveHasLease` (no row is worked on without a lease), `CancelSettlesAfterExit`
(a cancellation is done when thread and model process are), `CrashesAreReal` (no
crash is charged for a lease that something works under, with one exception).

`ImplementsLeases` puts the first ones together. `Leases` has, for every task,
what is stored, the lease and whether a cancellation was asked for or reported,
and the <<task, token>> of the executions that are granted, at work, or have a
model process at work. People and recovery may take leases away at any time;
who works on then is not told. What remains promised is that a token is granted
only if nothing remembers it, that a grant begins at most once (or is
withdrawn), that an end stores something only while its lease is there and
uncancelled, and that a cancellation which was asked for is reported as done
only when no thread and no model process works under its lease. The mapping
reads the token of a row as its lease while the stage is one of work or
cancellation: the late write of an unlocked handler may leave a token in a
resting row, which is no lease to anybody.

The promise about ends has an exception, which `Leases` names. A publication
that is refused looks at its lease when it decides (`Decide`) and not when it
writes (`EndLate`), so its failure reaches the row whoever has the lease by
then, and takes it away. It must have held the lease when it looked; without
that check (the mutant `RefuseUploadUnchecked`) the refinement fails. That an
overtaken execution writes nothing is therefore no property of this code: a task
that a person has confirmed as published between the two steps goes back to
TRANSIENT_FAILED or FAILED (`pipeline/workers/publish.py:601`), where
`docs/development/reliability-v01203.md:83` says that the result of a lost lease
is not written.

`CrashesAreReal` says that when a crash is charged to the lease a row names, no
thread works under that lease any more, and a model process only if the charge
is the report of its own thread, which still has to clean up. The exception is
a disowned rendering: one that a web request asked for, in a row without an
owner. A web request writes only the columns it changes, so when the row that
it read named this process as the owner already, and the owner is gone by the
time it writes, its token stands beside a null owner. Stale recovery takes the
live execution for a lost one and counts a crash. The exception is taken: with
two slots and three requests from CANDIDATE_CREATED, the tick has read the row
and not written it when a web request claims it; the tick writes the stage
alone, so the row waits for review with the owner of that claim; a second web
request reads the owner; the tick releases the row; the second request writes
its token and no owner (`web/services/candidates.py:161`), heartbeats miss the
row, and in time it is stale. That no execution of the worker and nothing in
the pool is ever charged so is proved (see Proofs).

### Liveness and fairness

`Fairness` gives weak fairness to what a thread or an open transaction does by
itself (start, end of the body, settlement, commit, upload results, reaping of
processes, a stopped worker being started again) and to the clock. The tick
calls every handler in turn, so handlers that other writers disable now and
then get strong fairness: claims, recovery, the retry timer and the
synchronisation of uploads. Bodies end because computations run under timeouts
and the uploader under its own. No fairness is given to people, crashes, stops or
heartbeats, nor to one particular outcome of a body. `ComesToRest` says that
retries, crashes and requeues do not feed each other for ever: attempts are
kept by `Resumed`, crashes are counted per stage.

### What docs say and the code does not do

1. `pipeline/scheduler.py:548`: a shutdown that interrupts an analysis asks for
   ANALYZING -> QUEUED_FOR_ANALYSIS, which the matrix lacks; the row stays
   leased until recovery charges a crash (`docs/development/architecture.md:39`).
2. `pipeline/scheduler.py:482`: the retry timer declares speech unavailable
   although a raw result is saved (`recovery_budget.py:57`).
3. `pipeline/stale_recovery.py:400`: the late write of a tick takes the success
   away from an upload until the next tick
   (`docs/development/reliability-v01203.md:241`; see Publishing).
4. `jobs/manager.py:211`: a retry opens an attempt under an execution that has
   not exited (`jobs/manager.py:202`; see Jobs).

Seen as well, without a run: the late write of `advance_approved`
(`scheduler.py:369`) puts a row that a web request claimed meanwhile into a
queue with that lease (`stage_result.py:214`); the late write of `advance_transcribed`
(`scheduler.py:142`) moves a cancelled task on, and revives a COMPLETED or
FAILED one; the commit of the signal pass (`workers/analyze.py:500`) leaves the
crashes of its stage counted (`recovery_budget.py:48`); a task re-queued by a
shutdown keeps its attempts, so stops count towards the limit of retries, where
`docs/features/troubleshooting.md:66` says that an interrupted task uses up
none.

## Publishing

`UploadLedger` says what publishing promises about one clip, `Publishing` how
the code keeps it, `PublishingProperties` what is checked.

| Variable | In the code |
|---|---|
| `upload` | the row of `upload_tasks` of each uploader ("absent": none yet): status, `claimed_by`, `remote_id` |
| `attempts` | `upload_attempts` of the automatic uploader, oldest first; `aged` stands for a `last_activity` older than `upload_attempt_stale_s` |
| `journal` | files of `publishing/journal.py` |
| `clip`, `automatic` | `FinalClip.status`, the setting that chooses the uploader |
| `sender` | threads in `process_upload_task` or `run_publish`, with what they carry from one transaction to the next |
| `sync` | what `sync_segment_task_from_attempt` has read and not yet written |
| `commands`, `accepted` | external: upload commands that may still arrive, attempts the platform took a copy from |
| `confirmed` | history: a person confirmed the publication |
| `requests`, `faults` | bounds |

**Attempts and generations.** A claim adds one to `publish_generation` and
inserts its attempt in the same transaction, so the index of an attempt is its
generation, and `upload.publish_generation == attempt.publish_generation` is
`Current(a)`: the attempt is the last one.

**Steps.** A sender goes through `prepare`, `execute` (the attempt is prepared),
`sending` (it is in progress), `uploading` (the command runs), `answered` or
`journal_failed`, and `commit`. `prepare_upload_attempt`, the mark before
sending, the heartbeat, `commit_publish_result`, the replay of one receipt and
stale recovery begin with BEGIN IMMEDIATE and are one action each.
`sync_segment_task_from_attempt` is three: it reads attempts, then the upload and
the clip, and writes the columns that differ; the ORM flushes the upload before
it reads the clip.

**Faults** are an exit of the process between any two steps, an exception of
the database, a journal file that cannot be written; deleting a replayed file
may fail at any time without being counted. A command outlives the process
that started it, so its copy may arrive after a restart.

**External.** `Arrive` and `Return` stand for biliup and the platform. A failure is
reported only of a copy that was refused, which is what `classify_upload_error`
claims: whatever else ends a command is an unknown result.

**Abstractions.** One clip. The checks of `precheck_clip` and the file proof are
a nondeterministic choice between skipping, refusing and claiming. Rows of
`segment_tasks` are `TaskQueue`'s, which in turn reduces the attempts to
`ledger`. A page job of `JobStore` is `permitted` until it is revoked. Parsed
remote ids are equal for one attempt, as is what a journal holds of it; a person
may type another. `get_uploader` is read once per run.

### Runs

| Run | Question | Instance |
|---|---|---|
| `publishing` | safety, refinement and progress of two senders, recovery, people and faults | 1 task sender, 1 page sender, 2 tries, 2 attempts, 3 requests, 1 fault |
| `success_overwritten` | one sentence of the docs the code does not keep | the smallest instance that shows it |

Two attempts let a first one be given up or refused and a second one sent while
the command of the first may still arrive; three requests are two runs and a
decision of a person, or a run and two decisions; one fault is the exit of the
process, the failure of the database or that of the journal, at any step. What
more attempts or two faults for one answer could do to safety is covered by the
theorems, which hold for all bounds.

`ImplementsLedger` is the refinement: `copies` counts the attempts the platform
took a copy from, `Told` reads the last attempt. `ClaimMatchesAttempt` ties the
claim to its attempt (recovery only looks for attempts), `ReceiptBeforeCommit`
and `ReceiptsAreKept` are about exits and about results in the wrong order,
`SuccessIsGrounded` about outcomes nobody knows. `ReceiptsAreKept` speaks of
attempts: of the status of the upload it is not true while a tick writes what
it read before (`SuccessIsNotOverwritten`), and `SuccessPrevails` says that the
next tick makes it good.

Fairness: threads go on, commands end (1800 s at most), time passes. A tick
replays the journal, then looks for stale attempts, then synchronises, in that
order and each time from the beginning, so what a heartbeat or a commit
disables now and then (`RecoverStaleAttempt`, `ReplayReceipt`) gets strong
fairness. People, faults and heartbeats get none.

Seen without a run: a confirmation without a submission id stays in conflict
with the receipt of the same attempt, whose file is then never deleted; a page
job sends a clip that a person confirmed as published in the meantime, as only
"rejected" is checked before sending (`workers/publish.py:345`).

## Jobs

`JobRow` has one record and the functions of the store that rewrite it, `Jobs`
the manager over the store, `JobsProperties` what is checked.

| Variable | In the code |
|---|---|
| `job` | the record `web_job:<id>`: status and attempt |
| `binding` | `UploadJobBinding` of the current attempt, and whether the upload it names is a success |
| `exec` | `_tasks`: the asyncio task of a job, where it is in `_execute`, the attempt it was created for |
| `event` | `_cancel_events` |
| `call` | requests between two of their steps, with the snapshot they carry |
| `mode` | `_started`, `_stopping` and the progress of `start` and `stop` |
| `toRecover`, `toStop`, `stopper` | what `_start` and `_finish_stop` still have to visit |
| `runs`, `missed`, `lost` | history: handlers started since a person asked; jobs left with a task of another attempt; jobs whose last write failed |
| `requests`, `crashes`, `failures` | bounds |

**Steps.** The manager runs on the event loop, so the code between two awaits is
one step; the store runs in threads and begins with BEGIN IMMEDIATE, so each of
its transactions is one step. `enqueue` is `Enqueue`, `Register`, `Schedule`;
`retry` is `AskRetry`, `Retry`, `Schedule`; `cancel` is `Cancel`, `Signal`. A
task goes through `Acquire`, `Claim`, `Begin`, the steps of its handler,
`Finish` or `Fail`, and `Exit`: between the last write and `Exit` the task is not
done, and `_schedule` leaves it where it is. `Signal` sets whatever event is
registered by then.

**Handlers** either publish their result with the success in one transaction
(`Publish`) or return it (`Finish`); uploads bind their attempt first and
return only what is published. They may raise at any time, and notice a
cancellation by the event, by the shutdown event or by a record that is no
longer running.

**Start and stop.** The supervisor starts the manager before the service takes
requests, so nothing runs beside `_start`; the file lock of
`acquire_execution` goes with the process. A stop that misses its deadline ends
with the process and is a `Crash`. Nobody cancels the asyncio tasks of jobs, so
the withdrawal of a claim in `run_sync` is left out.

### Runs

| Run | Question | Instance |
|---|---|---|
| `jobs` | attempts do not overlap, outcomes stand, uploads are not repeated, jobs end | a rendering, an upload and a second request for it, 2 simultaneous requests, 1 place, 3 requests, 1 crash, 1 failure |
| `jobs_retry` | one sentence of a comment the code does not keep | one upload, 3 requests |

Three requests are what the races need: a job, a cancellation and a retry; a
job and two retries; two requests for one upload and a retry; a job, a stop and
whatever the restart does. `WorkingIsCurrent` is why results of old attempts
cannot appear in new ones; `InProgressIsHeld` says who will end a record;
`JobsEnd` excuses a failed write and the race of `jobs_retry`, no more.
Fairness: threads and handlers end, the semaphore serves waiters in order
(strong fairness), a service that stops closes and the process is started
again. People, crashes and failures get none.

Seen without a run: the event a cancellation sets after its transaction may be
that of a later attempt, so that an upload which cannot be cancelled
(`job_store.py:243`) ends as cancelled; a cancellation between the claim and the
registration of the event is noticed only by the handler's first report; a
retry does not look for an active job with the same key.

## Recording

`Recording` has one room, `RecordingProperties` what is checked.

| Variable | In the code |
|---|---|
| `intent` | the setting `recording_intent:v1` of the room: state, generation, `crash_recoveries`, `resume_requested` |
| `execution` | the settings `recording_execution:v1`: bound to a session, `finalized`, `settled` |
| `room` | what a start looks at in `LiveRoom`: `auto_record`; `held` merges everything that keeps the monitor away (paused, suppressed, disabled); `waitNext` is the flag `wait_for_next_live` sets |
| `occurrence` | rows of `recording_schedules` |
| `holders` | who has the lock file of an execution open: its host, FFmpeg (which inherits it), a settlement |
| `tail` | executions with media on disk that no row names |
| `service` | the process from `down` through settlement of old executions and restarts to `up` and `stopping` |
| `recorder` | the task in `RecorderManager._tasks`: where it is, its stop flag, how it ended |
| `recovery` | `RecorderManager._recoveries` |
| `call` | starts and stops of people, of the schedule runner, of the monitor, of the timers that end a recording and of the shutdown, before and inside the room's `asyncio.Lock` |
| `settling` | the execution the settlement thread owns |
| `stale` | what `fail` has read and not yet written |
| `lost` | history: executions lost in a row |

A generation binds at most one session (`bind_session`), so an execution is
named by its generation.

**Steps.** Code between two awaits of the event loop is one step. `start` is
`StartEnter` (to the await of the metadata, under the lock of the room) and
`StartCommit` or `StartRefused`; `stop` is `StopEnter` (the intent is withdrawn
before the recorder hears of it) and `StopLeave`. The monitor remembers the
recovery it saw (`MonitorCheck`), asks the source, and applies the answer or
starts. A recorder goes through `opening`, `recording` and `supervising` for
each attempt, `ending` (`finish` under the lock file), `settling`
(`queue_recording_end`), `closing` and `leaving`. An error adds `fail` after
the lock file is closed, which neither holds it nor begins with BEGIN
IMMEDIATE: `FailReads` and `FailWrites` are two steps. A shutdown first tells
every recorder to stop (`Shutdown`); when the loops that start recordings have
ended, `stop_all` stops each task there still is through the lock of its room
(`StopAll`, then `StopEnter` and `StopLeave` of the caller "service"), which
keeps the intent and clears the flags. `PrepareRestarts` and
`AutoRecover` are what a start of the service does after it has settled what
the last process left.

**Faults** are the loss of the process, which FFmpeg may outlive, a write that
fails, an orderly stop of the service, and a source that does not answer.

**Abstractions.** Stream selection and failover are one FFmpeg that is started
again; cooldowns and the checks of the source are nondeterministic answers;
media is a `tail` that grows and is registered; the settlement of chat messages
is a settlement that may have to wait.

### Runs

| Run | Question | Instance |
|---|---|---|
| `recording` | who writes, what restarts may resume, what stays stopped or blocked | 2 generations, 1 occurrence, 1 recovery, 1 request, 2 crashes, 1 stop |
| `recording_live` | what has been recorded is settled completely, stops end, occurrences are handled | 1 generation, 1 occurrence, 1 recovery, 1 request, 1 failed write, 1 crash |

Two generations are an execution and the one that follows it, by a person, a
schedule or a recovery; two crashes lose both, which is one more than the budget
allows; the stop of the service meets every phase. `OneWriter` is about an
FFmpeg that outlived its service while the next recording starts: the start of
the service settles what is left first, and a settlement needs the lock file.
`BudgetBoundsRecovery` counts losses in a variable of its own and compares them
with what the code is about to recover. `StoppedStaysStopped` is about late
ends, settlements and restarts. `SettledIsComplete` is what the analysis of a
session relies on.

Fairness: the event loop goes on, `asyncio.Lock` serves waiters in order
(strong fairness for the start of the runner and the stop of the shutdown), the
settlement thread returns to each
execution (strong, as others hold its lock file now and then), FFmpeg ends when
it was told to or its host is gone (the guardian ends children of a lost
process), a shutdown ends and somebody starts the service again. People, the
source, crashes and failed writes get none.

The flags that `stop_all` clears include a hold that an error has just set; the
intent says "blocked" then, and the next start sets the hold again, which is why
`BlockedWaitsForPeople` survives the shutdown.

Seen without a run: a person's stop that is still under way when the service shuts
down (the server waits ten seconds for open requests, `commands/serve.py:125`, a
stop up to thirty for its recorder) loses its hold to the flags of `stop_all`
(`web/services/rooms.py:664`), so the monitor may start the room after the next
start of the service, where `docs/features/recording.md:113` says that this takes
a person; the unlocked `fail` may write `settled` back to false
(`recording/intents.py:209`), so that an end is queued again after a settlement
that `web/services/rooms.py:923` calls final; a clean shutdown between the
acceptance of an intent and its session costs one recovery although nothing was
lost (`intents.py:244`); an automatic start that is no recovery resets the
count of crashes (`intents.py:139`); `run_due` completes an occurrence whose
start a shutdown refused (`recording/schedule_runner.py:88`); the service does
not start while an orphaned FFmpeg still holds its lock file
(`recording/recovery.py:56`); a schedule does not look at what holds the
monitor back.

## The recognition pool

`AsrPool` has the processes of `process_pool.py` under the executions that ask
for recognition, `AsrPoolProperties` what is checked.

| Variable | In the code |
|---|---|
| `slot` | `_slots` and `_starting`: handshake, busy, quarantined, its user and its reserved models; whether the process lives, whether the thread that talks to it was told to stop (`cut`) |
| `child` | the request a process works on |
| `roles` | `_roles`, the reservations of each model |
| `request` | where each execution is, and the process it has or must clean up |
| `pool` | open, closing, or the way the last shutdown ended |

**Steps.** What a thread does while it holds the condition of the pool is one
step. A request waits, is admitted (which first retires idle processes that
have died), loads, works, and leaves; or it breaks off, quarantines its slot
and kills the process, and when that fails keeps a clean-up that
`resource_scope` tries again (`Reap`) beside the scheduler's `cleanup_idle` and
the shutdown.

**Abstractions.** Preloading, changed settings and device scopes; the messages
of a process and what it does inside.

The run `asr_pool` has three requests of two tasks, two of which need the same
model, two models with one place each, two places for processes, three
processes, two failures of a kill or a start, and one stop. That is a lost
lease whose process cannot be killed, the successor of its task waiting for it,
a competitor for the model, and the three parties that may clean up the same
slot. Fairness: a waiting thread looks five times a second (strong, as places
come and go), a request with a process ends at its deadline, clean-up is tried
again until it works. Nothing makes a waiting request give up while the pool is
open, so `RequestsLeave` does not lean on its deadline.

Seen without a run: an idle slot whose retirement failed is handed to the next
request although the thread that talks to it has stopped
(`process_pool.py:386`); that request waits to its deadline.

## Proofs

`TaskQueueProofs` proves, for every set of tasks and tokens, every number of
slots and every bound, from the assumptions that tokens are non-zero naturals,
that tasks start in queues or waiting stages and that the bounds are naturals:

| Theorem | Statement |
|---|---|
| `TypesAndPending`, `TypeCorrect` | `Spec => [](TypeOK /\ PendingSound)`, `Spec => []TypeOK` |
| `LeasedWhileActive` | `Spec => []ActiveHasLease` |
| `TokensAreUnique`, `OneHolderPerLease` | `Spec => []UniqueTokens`, `Spec => []SoleHolder` |

The argument. `TypeOK` is inductive together with `PendingSound`; `RowOps` says that each function
of `TaskRow` keeps rows well typed and `TypeStep` goes through the actions.
`ActiveHasLease` is not inductive: the flush of an unlocked handler writes a
mixture of two rows. `PendingSound` is what makes it so: whatever the scheduler
or a publisher has decided leaves every leased stage and changes the stage, so
the mixture has a resting stage; a web request has decided on a claim with a
token that differs from the one it read, so the mixture has a token.
`SoleHolder` needs `UniqueTokens`: tokens in flight, in an execution or in an
unwritten web claim, are pairwise different, because `TokensInUse` covers all
that remember one. `SoleHolder` itself has no run: `Fresh` in `Leases` says
more.

`LeaseProofs` goes on from there, under the same assumptions:

| Theorem | Statement |
|---|---|
| `LeasesAreKnown` | `Spec => []LeaseSound` |
| `ChargesAreReal` | `Spec => CrashesAreReal` |
| `CancellationsWaitForExit` | `Spec => CancelSettlesAfterExit` |
| `QueueImplementsLeases` | `Spec => ImplementsLeases` |

The argument. `Busy` compares the owner before it asks whether an execution is
registered, and owner and token are columns of their own, which late writes
change separately; what recovery concludes from a row is right only if a row that
names a live token names this process as the owner. That is `OwnersKnown`: it
holds for the executions of the worker and for the pool without exception, and
for the renderings of web requests the owner may be null instead, which is the
exception in `CrashesAreReal`. The reason lies in what late writes can change. A
web request that read the owner it is about to write does not write it, so
`OpenRequests` keeps what the column can have become since, this process or
nobody. The other late writes clear both columns if they had read values in
them (`OpenTicks`). The worker claims nothing while its tick has a write open,
so if the row that the tick read names work of the worker now, it did so then
(`TicksRead`), and a write that clears the owner clears that token with it.
`CancelledHasOwner` says that a row being cancelled never loses its owner, so
that a disowned rendering is not reported as cancelled, `WebRenders` that the
executions of web requests are renderings, and `PoolTranscribes` that work in
the pool belongs to a transcription, as only that execution looks for it before
it settles. All of it follows from what a step does to the lease in a row: every
step but a claim and a restart keeps or clears its columns, and clears the owner
beside a token only where no work of the worker is named (`Loose`, `Firm`,
`Mild`); and only stale recovery and the end of an execution take a row from
CANCELLING to CANCELLED (`Calm`). The refinement then has one lemma for each
step of `Leases` (`EndStep`, `DecideStep`, `EndLateStep`, `BeginStep`,
`WithdrawStep`, `ReapStep`, `LoseStep`, `GrantStep` with its two claims, and
`ManageSteps` for all others).

`PublishingProofs` proves every safety property that the run `publishing` checks,
for any senders and any bounds, from the assumptions that the two kinds of senders are
disjoint, that NULL is none of them, and that the bounds are naturals:

| Theorem | Statement |
|---|---|
| `InductiveInvariant`, `TypeCorrect` | `Spec => []IInv`, `Spec => []TypeOK` |
| `ClaimsMatch` | `Spec => []ClaimMatchesAttempt` |
| `ReceiptsPrecedeCommits` | `Spec => []ReceiptBeforeCommit` |
| `SuccessesAreGrounded` | `Spec => []SuccessIsGrounded` |
| `ReceiptsStay` | `Spec => ReceiptsAreKept` |
| `PublishingImplementsLedger` | `Spec => ImplementsLedger` |

The argument. None of these is inductive; `IInv` adds what the code relies on
without saying so. `OnlyLastOpen`: every attempt but the last has failed and may
be repeated, as a claim is refused while anything else is open or published, so
the generation check of a commit is the check that its attempt is not over.
`SentStaysOpen`: an attempt whose command may arrive, or has, is in progress, to
be looked into or a success, never refused. `SendersSound`: a sender before its
command has sent nothing, one that reports a success has proof of it, one that
reports a refusal knows that nothing arrived. `JournalSound`: receipts are of such attempts.
`UploadFollows` and `SyncSound`: what a tick has read and not written is about the
last attempt, which is settled by then, so its late write can neither release a
claim nor make one. Every step leaves the attempts alone (`Quiet`), settles the last one (`Settling`),
adds one (`PrepareAttempt`) or is a confirmation (`StepKinds`); each invariant and
the step of the ledger is proved once per kind.

`JobsProofs` proves every safety property that the run `jobs` checks, for any
jobs, keys, simultaneous requests, places and bounds, from the assumptions that
cancellable jobs are jobs, that `NoJob` is none, that there is a place and that
the bounds are naturals:

| Theorem | Statement |
|---|---|
| `Invariance`, `TypeCorrect` | `Spec => []IInv`, `Spec => []TypeOK` |
| `OnlyTheCurrentAttemptWorks` | `Spec => []WorkingIsCurrent` |
| `ProgressIsHeld` | `Spec => []InProgressIsHeld` |
| `NoUploadRunsTwice` | `Spec => []UploadsRunOnce` |
| `SuccessMeansPublished` | `Spec => []SuccessIsConfirmed` |
| `RecordsOfOutcomesStand` | `Spec => OutcomesStand` |

The argument. Register, retry and recovery are the writes that could put a new
attempt under a handler. Register writes only an id that has no record, and a
task is of a job that has one (`Known`, and `CallsSound` for the requests that
are under way); retry writes only what has failed or was cancelled, while the record
of a handler at work is in progress or has succeeded (`WorkingIsCurrent`
itself); recovery writes only while the manager starts, when nothing is alive
(`Quiet`). `InProgressIsHeld` needs `Listed`: what a process left in progress
is on the list of the next start, so nothing is when the manager is up again.
`RunsSound` says that the record of an upload that waits, or whose claim has
just committed, belongs to a request for which nothing has run, and
`ConfirmSound` that a handler which has returned had a confirmed binding. Every
action has a lemma (`EnqueueKeeps` to `CrashKeeps`) that first says what it does
to one record, task or request and then takes the invariants it can disturb.
The places of the semaphore are not needed for any of this.

`AsrPoolProofs` proves every safety property that the run `asr_pool` checks, for
any requests, tasks and models, and any limits, from `PoolAssumption`:

| Theorem | Statement |
|---|---|
| `Invariance` | `Spec => []IInv` |
| `ReservationsAreCounted` | `Spec => []RolesAreCounted` |
| `LimitsHold` | `Spec => []QuotasAreKept` |
| `TasksHaveOneProcess` | `Spec => []OneProcessPerTask` |
| `WorkIsNeverHidden` | `Spec => []WorkIsVisible` |

The argument. A slot that is stuck may be cleaned up by its execution, by the
scheduler and by the shutdown. `RolesAreCounted` survives that because a slot
gives its models back in the step that takes it from the list: `SlotSound` says
that what reserves is busy and what is busy is listed, and `RequestSound` that a
clean-up which an execution has kept is of a slot in quarantine, still starting,
or gone, so that no later clean-up returns anything of a slot that was lent
again. `ReturnCounts` and its counterpart for reservations are where counters
meet sets, and use the library's facts about cardinalities. `OneSlotPerTask` is
stronger than `OneProcessPerTask`: a slot that was lent excludes another one for
the same task also while its process does not work yet, or no longer.
`UsedFits` counts processes that are starting with those that are listed.

`RecordingProofs` proves every safety property that the runs `recording` and
`recording_live` check, for any callers, generations and bounds, from the
assumptions about constants that `Recording` names:

| Theorem | Statement |
|---|---|
| `Invariance`, `TypeCorrect` | `Spec => []IInv`, `Spec => []TypeOK` |
| `SettledSessionsAreComplete` | `Spec => []SettledIsComplete` |
| `RoomsHaveOneWriter` | `Spec => []OneWriter` |
| `RecoveriesAreBounded` | `Spec => []BudgetBoundsRecovery` |
| `StopsAreFinal` | `Spec => StoppedStaysStopped` |
| `BlocksAreRespected` | `Spec => BlockedWaitsForPeople` |

The argument. Who may write is decided by three things that no single test
compares: the lock file (`HostSound`, `SettlingSound`), the phase of the
recorder, and the start of the service. `FFmpegSound` ties them: an FFmpeg
writes under the supervision of its recorder, or the service is down or still
settles what it found, so that a recorder which starts later is alone.
`DrainedSound` says which phases a recorder can reach only after its media was
registered, `EndsSound` that nothing is settled before it has ended; together
they give `SettledIsComplete`. The end that `fail` has read without a lock is
the hard one: `StaleSound` says what may have happened to its execution and to
the intent between its two steps, and that the write changes an intent only when
it was not replaced or stopped since. For the budget `BudgetSound` compares the
history variable `lost` with the stored count through `Uncharged`, the loss of a
recording that the next start has yet to charge. `BlockedSound` relates a block
in the intent, which is written first, to the one that the monitor looks at
(`held`), which is written when the recorder leaves; a service that stops may
clear the latter, which `KeepSound` says of no other.

Only model-checked: the liveness properties of all modules (`CancellationSettles`,
`WorkEnds`, `ComesToRest`, `AttemptsEnd`, `ReceiptsReplayed`, `SuccessPrevails`,
`JobsEnd`, `ExecutionsSettle`, `StopsEnd`, `OccurrencesEnd`, `RequestsLeave`), as
fairness and ENABLED are out of TLAPS' reach here, and the disagreements, which
are counterexamples. What recursive definitions compute for all inputs cannot be
proved either; these modules have none.

## Not modelled

The modules of the plan from 8 on: renders and their checkpoints, review claims,
drafts and undo, resource budgets, the supervisor, notifications. Progress
reports, the listing and missing handlers of jobs; the task rows a publication
moves, in `Publishing` (they are in `TaskQueue`); re-queueing of tasks by
transcript edits and editorial re-analysis; the final block of
`approve_candidate_sync` (`candidates.py:233`), which writes without a lock
after the render has settled; in `TaskQueue`, uploads of page jobs (its
ledger moves by publishing executions and confirmations; the page senders are in
`Publishing`); the deletion of tasks with their session. In
`Recording`: removal and editing of rooms, manual markers, metadata, the race
of streams, failover and the chat journal, the status of sessions. In
`AsrPool`: what its abstractions name. Analysis, clipping, models,
sources, trends, plugins and the front end are computations and I/O.
