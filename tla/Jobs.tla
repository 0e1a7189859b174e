-------------------------------- MODULE Jobs --------------------------------
(***************************************************************************)
(* Background jobs of the web service: the manager of app/jobs/manager.py  *)
(* over the records of app/db/job_store.py.                                *)
(*                                                                         *)
(* The manager lives on the event loop: what it does between two awaits is *)
(* one step.  The store is called in threads; each of its functions begins *)
(* with BEGIN IMMEDIATE and is one step as well.  A request (enqueue,      *)
(* retry, cancel) is therefore two or three steps, between which other     *)
(* requests, executions and the end of the process may come.               *)
(***************************************************************************)
EXTENDS JobRow, FiniteSets

CONSTANTS
  Jobs,            \* job ids
  Cancellable,     \* jobs with cancellable_while_running; the others are uploads
  Key,             \* owner, type and dedup_key of every job
  Callers,         \* requests that can be served at the same time
  MaxConcurrency,  \* JobManager(max_concurrency)
  NoJob,           \* no job: a null
  MaxRequests,     \* bound: requests of people, an orderly stop included
  MaxCrashes,      \* bound: unexpected exits of the process
  MaxFailures      \* bound: transactions that fail

ASSUME JobsAssumption ==
  /\ Cancellable \subseteq Jobs /\ NoJob \notin Jobs
  /\ MaxConcurrency \in Nat \ {0}
  /\ MaxRequests \in Nat /\ MaxCrashes \in Nat /\ MaxFailures \in Nat

VARIABLES
  job,        \* the records of the store
  binding,    \* UploadJobBinding of the current attempt of upload jobs
  exec,       \* the asyncio task of every job (_tasks) and where it is
  event,      \* its entry in _cancel_events
  call,       \* requests between two of their steps
  mode,       \* of the manager: _started, _stopping
  toRecover,  \* jobs _start has listed and not yet recovered
  toStop,     \* jobs _finish_stop has not visited yet
  stopper,    \* the job it has found in progress and is about to cancel
  runs,       \* history: handlers started since a person last asked for the job
  missed,     \* history: jobs that _schedule left with a task of another attempt
  lost,       \* history: jobs whose last write failed
  requests, crashes, failures

store   == <<job, binding>>
tasks   == <<exec, event>>
service == <<mode, toRecover, toStop, stopper>>
history == <<runs, missed, lost>>
bounds  == <<requests, crashes, failures>>
vars    == <<store, tasks, call, service, history, bounds>>

\* waiting: for the semaphore; claimed: claim has committed; ending: the store
\* has what the task had to say, the task is not done yet.
Places  == {"none", "waiting", "claiming", "claimed", "working", "returned", "failing", "ending"}
Holding == Places \ {"none", "waiting"}

Exec == [at : Places, attempt : Nat, isCancelled : BOOLEAN]
Call == [at : {"idle", "register", "retry", "schedule", "signal"}, job : Jobs \cup {NoJob}, attempt : Nat]

NoExec == [at |-> "none", attempt |-> 0, isCancelled |-> FALSE]
NoCall == [at |-> "idle", job |-> NoJob, attempt |-> 0]

Modes == {"down", "starting", "up", "stopping", "closing", "closed"}

Stopping == mode \in {"stopping", "closing", "closed"}

Alive(j) == exec[j].at # "none"

Init ==
  /\ job = [j \in Jobs |-> NoRow]
  /\ binding = [j \in Jobs |-> "none"]
  /\ exec = [j \in Jobs |-> NoExec]
  /\ event = [j \in Jobs |-> "none"]
  /\ call = [c \in Callers |-> NoCall]
  /\ mode = "up"
  /\ toRecover = {} /\ toStop = {} /\ stopper = NoJob
  /\ runs = [j \in Jobs |-> 0]
  /\ missed = {} /\ lost = {}
  /\ requests = 0 /\ crashes = 0 /\ failures = 0

-----------------------------------------------------------------------------
\* What steps have in common.

Asked ==
  /\ requests < MaxRequests
  /\ requests' = requests + 1
  /\ UNCHANGED <<crashes, failures>>

\* A transaction of the store raises an error of the database.
Breaks ==
  /\ failures < MaxFailures
  /\ failures' = failures + 1
  /\ UNCHANGED <<requests, crashes>>

Goto(j, place) == exec' = [exec EXCEPT ![j].at = place]
Fails(j, isCancelled) ==
  exec' = [exec EXCEPT ![j] = [@ EXCEPT !.at = "failing", !.isCancelled = isCancelled]]

Created(n) == [at |-> "waiting", attempt |-> n, isCancelled |-> FALSE]

\* A row's next attempt was asked for: nothing is bound to it, nothing has run.
Afresh(j) ==
  /\ binding' = [binding EXCEPT ![j] = "none"]
  /\ runs' = [runs EXCEPT ![j] = 0]
  /\ missed' = missed \ {j}
  /\ lost' = lost \ {j}

Signalled(j) == event' = [event EXCEPT ![j] = IF @ = "none" THEN "none" ELSE "set"]

-----------------------------------------------------------------------------
\* Requests.

Answered(c) == call' = [call EXCEPT ![c] = NoCall]

\* enqueue, up to the transaction.
Enqueue(c, j) ==
  /\ mode = "up"
  /\ call[c].at = "idle"
  /\ job[j].status = "absent"
  /\ \A d \in Callers : call[d].at = "register" => call[d].job # j
  /\ Asked
  /\ call' = [call EXCEPT ![c] = [at |-> "register", job |-> j, attempt |-> 1]]
  /\ UNCHANGED <<store, tasks, service, history>>

\* Active jobs that share the key of j.
Twins(j) == {i \in Jobs : Key[i] = Key[j] /\ job[i].status \in Active}

\* register: a new record, or the snapshot of the one with the same key, or a
\* refusal, where the payload differs.
Register(c) ==
  LET j == call[c].job IN
  /\ call[c].at = "register"
  /\ \/ /\ Twins(j) = {}
        /\ job' = [job EXCEPT ![j] = FirstRow]
        /\ call' = [call EXCEPT ![c].at = "schedule"]
        /\ Afresh(j)
     \/ /\ \E i \in Twins(j) :
             \/ call' = [call EXCEPT ![c] = [at |-> "schedule", job |-> i, attempt |-> job[i].attempt]]
             \/ Answered(c)
        /\ UNCHANGED <<store, history>>
  /\ UNCHANGED <<tasks, service, bounds>>

\* _schedule: at most one task per job; a task that is not done stays, and so
\* does a row whose attempt is not the one that task was created for.
Schedule(c) ==
  LET j == call[c].job IN
  /\ call[c].at = "schedule"
  /\ Answered(c)
  /\ exec' = [exec EXCEPT ![j] = IF Stopping \/ Alive(j) THEN @ ELSE Created(call[c].attempt)]
  /\ missed' = CASE Stopping                             -> missed
                  [] exec'[j].attempt = job[j].attempt -> missed \ {j}
                  [] OTHER                             -> missed \cup {j}
  /\ UNCHANGED <<store, event, service, runs, lost, bounds>>

\* retry, up to the transaction: the last execution has exited.
AskRetry(c, j) ==
  /\ mode = "up"
  /\ call[c].at = "idle"
  /\ job[j].status # "absent"
  /\ ~Alive(j)
  /\ Asked
  /\ call' = [call EXCEPT ![c] = [at |-> "retry", job |-> j, attempt |-> 0]]
  /\ UNCHANGED <<store, tasks, service, history>>

\* job_store.retry: the row is asked again, the execution is not.
Retry(c) ==
  LET j == call[c].job IN
  /\ call[c].at = "retry"
  /\ IF MayRetry(job[j])
     THEN /\ job' = [job EXCEPT ![j] = NextAttempt(@)]
          /\ call' = [call EXCEPT ![c] = [at |-> "schedule", job |-> j, attempt |-> job[j].attempt + 1]]
          /\ Afresh(j)
     ELSE Answered(c) /\ UNCHANGED <<store, history>>
  /\ UNCHANGED <<tasks, service, bounds>>

\* cancel: the transaction; a request that the store refuses changes nothing.
Cancel(c, j) ==
  /\ mode \in {"up", "stopping", "closing"}
  /\ call[c].at = "idle"
  /\ MayCancel(job[j], j \in Cancellable)
  /\ Asked
  /\ job' = [job EXCEPT ![j] = Cancelled(@)]
  /\ call' = [call EXCEPT ![c] = [at |-> "signal", job |-> j, attempt |-> 0]]
  /\ UNCHANGED <<binding, tasks, service, history>>

\* The thread of the request sets the event that is registered by then.
Signal(c) ==
  /\ call[c].at = "signal"
  /\ Signalled(call[c].job)
  /\ Answered(c)
  /\ UNCHANGED <<store, exec, service, history, bounds>>

-----------------------------------------------------------------------------
\* _execute.

Executions == {j \in Jobs : exec[j].at \in Holding}

\* The semaphore; a task that gets it while the manager stops is done.
Acquire(j) ==
  /\ exec[j].at = "waiting"
  /\ Cardinality(Executions) < MaxConcurrency
  /\ Goto(j, IF Stopping THEN "ending" ELSE "claiming")
  /\ UNCHANGED <<store, event, call, service, history, bounds>>

Claim(j) ==
  /\ exec[j].at = "claiming"
  /\ IF IsIn(job[j], exec[j].attempt, {"queued"})
     THEN job' = [job EXCEPT ![j].status = "running"] /\ Goto(j, "claimed")
     ELSE Goto(j, "ending") /\ UNCHANGED job
  /\ UNCHANGED <<binding, event, call, service, history, bounds>>

ClaimBreaks(j) ==
  /\ exec[j].at = "claiming"
  /\ Breaks
  /\ Fails(j, FALSE)
  /\ UNCHANGED <<store, event, call, service, history>>

\* The event is registered and the thread of the handler started, in one step
\* of the loop with the question whether the manager stops.
Begin(j) ==
  /\ exec[j].at = "claimed"
  /\ IF Stopping
     THEN Fails(j, TRUE) /\ UNCHANGED <<event, runs>>
     ELSE /\ Goto(j, "working")
          /\ event' = [event EXCEPT ![j] = "clear"]
          /\ runs' = [runs EXCEPT ![j] = @ + 1]
  /\ UNCHANGED <<store, call, service, missed, lost, bounds>>

\* result_transaction of a domain: its result and the success, together.
Publish(j) ==
  /\ exec[j].at = "working"
  /\ j \in Cancellable
  /\ IsIn(job[j], exec[j].attempt, {"running"})
  /\ job' = [job EXCEPT ![j] = Ended(@, "succeeded")]
  /\ UNCHANGED <<binding, tasks, call, service, history, bounds>>

\* bind_upload_job, in the transaction that claims the upload or that finds it
\* published.
Bind(j) ==
  /\ exec[j].at = "working"
  /\ j \notin Cancellable
  /\ IsIn(job[j], exec[j].attempt, {"running"})
  /\ binding[j] = "none"
  /\ \E fact \in {"bound", "confirmed"} : binding' = [binding EXCEPT ![j] = fact]
  /\ UNCHANGED <<job, tasks, call, service, history, bounds>>

\* Faulty: an upload whose result is unknown is reported as done.
ReturnUnconfirmed(j) ==
  /\ exec[j].at = "working"
  /\ Goto(j, "returned")
  /\ UNCHANGED <<store, event, call, service, history, bounds>>

\* The handler returns a result; that of an upload only if it is published.
Return(j) ==
  /\ exec[j].at = "working"
  /\ j \in Cancellable \/ binding[j] = "confirmed"
  /\ Goto(j, "returned")
  /\ UNCHANGED <<store, event, call, service, history, bounds>>

\* It notices the event or, when the service stops, the shutdown event that is
\* set in the same broadcast; or a report or a transaction finds that the row is
\* no longer running (JobSuperseded is a JobCancelled).
Notice(j) ==
  /\ exec[j].at = "working"
  /\ event[j] = "set" \/ Stopping \/ ~IsIn(job[j], exec[j].attempt, {"running"})
  /\ Fails(j, TRUE)
  /\ UNCHANGED <<store, event, call, service, history, bounds>>

Raise(j) ==
  /\ exec[j].at = "working"
  /\ Fails(j, FALSE)
  /\ UNCHANGED <<store, event, call, service, history, bounds>>

\* The success that a handler has not stored itself; a row that is no longer
\* running is failed as cancelled.
Finish(j) ==
  /\ exec[j].at = "returned"
  /\ \/ /\ IsIn(job[j], exec[j].attempt, {"succeeded"})
        /\ Goto(j, "ending") /\ UNCHANGED job
     \/ /\ IsIn(job[j], exec[j].attempt, {"running"})
        /\ job' = [job EXCEPT ![j] = Ended(@, "succeeded")]
        /\ Goto(j, "ending")
     \/ /\ ~IsIn(job[j], exec[j].attempt, {"running", "succeeded"})
        /\ Fails(j, TRUE) /\ UNCHANGED job
  /\ UNCHANGED <<binding, event, call, service, history, bounds>>

Fail(j) ==
  /\ exec[j].at = "failing"
  /\ job' = [job EXCEPT ![j] = Failed(@, exec[j].attempt, exec[j].isCancelled)]
  /\ Goto(j, "ending")
  /\ UNCHANGED <<binding, event, call, service, history, bounds>>

\* The write of the end fails: the exception ends the task, the row stays.
EndBreaks(j) ==
  /\ exec[j].at \in {"returned", "failing"}
  /\ Breaks
  /\ lost' = lost \cup {j}
  /\ Goto(j, "ending")
  /\ UNCHANGED <<store, event, call, service, runs, missed>>

\* The task is done; remove_finished.
Exit(j) ==
  /\ exec[j].at = "ending"
  /\ exec' = [exec EXCEPT ![j] = NoExec]
  /\ event' = [event EXCEPT ![j] = "none"]
  /\ UNCHANGED <<store, call, service, history, bounds>>

-----------------------------------------------------------------------------
\* Publishing, as far as upload jobs see it.

\* The upload that is bound becomes a success: by its command, by the replay of
\* a receipt or by a person.
Confirm(j) ==
  /\ binding[j] = "bound"
  /\ binding' = [binding EXCEPT ![j] = "confirmed"]
  /\ UNCHANGED <<job, tasks, call, service, history, bounds>>

\* Somebody else claims the upload again: the generation moves on.
ClaimAgain(j) ==
  /\ binding[j] = "bound"
  /\ binding' = [binding EXCEPT ![j] = "none"]
  /\ UNCHANGED <<job, tasks, call, service, history, bounds>>

-----------------------------------------------------------------------------
\* Start and stop.

\* _start: the ownership of the database, which the operating system takes back
\* from a process that is gone, and the list of active jobs.
Start ==
  /\ mode = "down"
  /\ mode' = "starting"
  /\ toRecover' = {j \in Jobs : job[j].status \in Active}
  /\ UNCHANGED <<store, tasks, call, toStop, stopper, history, bounds>>

Recover(j) ==
  /\ mode = "starting"
  /\ j \in toRecover
  /\ toRecover' = toRecover \ {j}
  /\ job' = [job EXCEPT ![j] = Recovered(@, j \in Cancellable, binding[j] = "confirmed")]
  /\ lost' = lost \ {j}
  /\ UNCHANGED <<binding, tasks, call, mode, toStop, stopper, runs, missed, bounds>>

\* Faulty: only what recovery has changed is scheduled again.
StartedInterrupted ==
  /\ mode = "starting"
  /\ toRecover = {}
  /\ mode' = "up"
  /\ exec' = [j \in Jobs |-> IF job[j].status = "queued" /\ job[j].attempt > 1
                             THEN Created(job[j].attempt) ELSE NoExec]
  /\ missed' = {}
  /\ UNCHANGED <<store, event, call, toRecover, toStop, stopper, runs, lost, bounds>>

\* The manager takes requests, and schedules what is queued.
Started ==
  /\ mode = "starting"
  /\ toRecover = {}
  /\ mode' = "up"
  /\ exec' = [j \in Jobs |-> IF job[j].status = "queued" THEN Created(job[j].attempt) ELSE NoExec]
  /\ missed' = {}
  /\ UNCHANGED <<store, event, call, toRecover, toStop, stopper, runs, lost, bounds>>

\* request_stop: no new work; cancellable handlers that run are told.
RequestStop ==
  /\ mode = "up"
  /\ Asked
  /\ mode' = "stopping"
  /\ event' = [j \in Jobs |-> IF j \in Cancellable /\ event[j] = "clear" THEN "set" ELSE event[j]]
  /\ UNCHANGED <<store, exec, call, toRecover, toStop, stopper, history>>

\* stop, _finish_stop: the tasks it is going to visit.
BeginClose ==
  /\ mode = "stopping"
  /\ mode' = "closing"
  /\ toStop' = {j \in Jobs : Alive(j)}
  /\ UNCHANGED <<store, tasks, call, toRecover, stopper, history, bounds>>

\* get_job: is there something to cancel?
Visit(j) ==
  /\ mode = "closing"
  /\ stopper = NoJob
  /\ j \in toStop
  /\ toStop' = toStop \ {j}
  /\ stopper' = IF job[j].status \in {"running", "cancelling"} /\ j \in Cancellable THEN j ELSE NoJob
  /\ UNCHANGED <<store, tasks, call, mode, toRecover, history, bounds>>

\* cancel of what was found; a job that has ended meanwhile stays as it is.
\* request_stop has set the event already.
StopCancel ==
  /\ stopper # NoJob
  /\ stopper' = NoJob
  /\ IF MayCancel(job[stopper], TRUE)
     THEN job' = [job EXCEPT ![stopper] = Cancelled(@)] /\ Signalled(stopper)
     ELSE UNCHANGED <<job, event>>
  /\ UNCHANGED <<binding, exec, call, mode, toRecover, toStop, history, bounds>>

\* Faulty: the deadline ends the wait for tasks.
CloseAtDeadline ==
  /\ mode = "closing"
  /\ toStop = {} /\ stopper = NoJob
  /\ mode' = "closed"
  /\ exec' = [j \in Jobs |-> NoExec]
  /\ event' = [j \in Jobs |-> "none"]
  /\ UNCHANGED <<store, call, toRecover, toStop, stopper, history, bounds>>

\* All tasks are done; the ownership of the database is released.
Close ==
  /\ mode = "closing"
  /\ toStop = {} /\ stopper = NoJob
  /\ \A j \in Jobs : ~Alive(j)
  /\ mode' = "closed"
  /\ UNCHANGED <<store, tasks, call, toRecover, toStop, stopper, history, bounds>>

\* What the process held in memory is gone.
Gone ==
  /\ mode' = "down"
  /\ exec' = [j \in Jobs |-> NoExec]
  /\ event' = [j \in Jobs |-> "none"]
  /\ call' = [c \in Callers |-> NoCall]
  /\ toRecover' = {} /\ toStop' = {} /\ stopper' = NoJob
  /\ UNCHANGED <<store, history>>

\* The process ends after an orderly stop, or in the middle of something, as
\* after a stop that missed its deadline.
Leave == mode = "closed" /\ Gone /\ UNCHANGED bounds

Crash ==
  /\ mode \notin {"down", "closed"}
  /\ crashes < MaxCrashes
  /\ crashes' = crashes + 1
  /\ Gone
  /\ UNCHANGED <<requests, failures>>

-----------------------------------------------------------------------------
CallStep(c) == Register(c) \/ Schedule(c) \/ Retry(c) \/ Signal(c)

TaskStep(j) ==
  \/ Claim(j) \/ Begin(j) \/ Return(j) \/ Notice(j) \/ Raise(j)
  \/ Finish(j) \/ Fail(j) \/ Exit(j)

Closing == BeginClose \/ (\E j \in Jobs : Visit(j)) \/ StopCancel \/ Close \/ Leave

Starting == Start \/ (\E j \in Jobs : Recover(j)) \/ Started

Next ==
  \/ \E c \in Callers : CallStep(c) \/ \E j \in Jobs : Enqueue(c, j) \/ AskRetry(c, j) \/ Cancel(c, j)
  \/ \E j \in Jobs :
       \/ Acquire(j) \/ TaskStep(j) \/ ClaimBreaks(j) \/ EndBreaks(j)
       \/ Publish(j) \/ Bind(j) \/ Confirm(j) \/ ClaimAgain(j)
  \/ Starting \/ RequestStop \/ Closing \/ Crash

Spec == Init /\ [][Next]_vars

\* Threads proceed, handlers end, the semaphore serves its waiters in order, a
\* service that stops closes and the process is started again.
Fairness ==
  /\ \A c \in Callers : WF_vars(CallStep(c))
  /\ \A j \in Jobs : WF_vars(TaskStep(j)) /\ SF_vars(Acquire(j))
  /\ WF_vars(Starting) /\ WF_vars(Closing)

LiveSpec == Spec /\ Fairness
=============================================================================
