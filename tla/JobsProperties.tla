--------------------------- MODULE JobsProperties ---------------------------
(***************************************************************************)
(* What background jobs must guarantee, and what a comment says they do.   *)
(***************************************************************************)
EXTENDS Jobs

\* Every variable has its type: records, tasks, events and requests are what
\* the store and the manager keep.
TypeOK ==
  /\ job \in [Jobs -> Row]
  /\ binding \in [Jobs -> {"none", "bound", "confirmed"}]
  /\ exec \in [Jobs -> Exec]
  /\ event \in [Jobs -> {"none", "clear", "set"}]
  /\ call \in [Callers -> Call]
  /\ mode \in Modes
  /\ toRecover \subseteq Jobs /\ toStop \subseteq Jobs /\ stopper \in Jobs \cup {NoJob}
  /\ runs \in [Jobs -> Nat]
  /\ missed \subseteq Jobs /\ lost \subseteq Jobs
  /\ requests \in 0 .. MaxRequests
  /\ crashes \in 0 .. MaxCrashes
  /\ failures \in 0 .. MaxFailures

InProgress(j) == job[j].status \in {"running", "cancelling"}

\* From its claim until its handler has ended, an execution is the one its
\* record names: retries, cancellations, late schedules and restarts never put
\* a second attempt under a handler that still runs, so that two attempts of a
\* job are never at work at once.
WorkingIsCurrent ==
  \A j \in Jobs : exec[j].at \in {"claimed", "working", "returned"} =>
    /\ job[j].attempt = exec[j].attempt
    /\ InProgress(j) \/ job[j].status = "succeeded"

\* While the process lives, a record in progress has the task that will end it;
\* only a failed write of that task leaves it behind.  After an orderly stop
\* nothing is in progress, for no task is left by then.
InProgressIsHeld ==
  \A j \in Jobs :
    (InProgress(j) /\ j \notin lost /\ mode \in {"up", "stopping", "closing", "closed"}) =>
      /\ exec[j].attempt = job[j].attempt
      /\ exec[j].at \in {"claimed", "working", "returned", "failing"}

\* What has been told stands: a success is final, a failure or a cancellation is
\* left only for a new attempt, and a job that is being cancelled cannot succeed,
\* fail or start again, whichever of the result, the cancellation, the recovery
\* and the late end of an execution comes first.
OutcomesStand ==
  [][\A j \in Jobs :
       /\ job[j].status = "succeeded" => job'[j] = job[j]
       /\ job[j].status \in {"failed", "cancelled"} => job'[j] \in {job[j], NextAttempt(job[j])}
       /\ job[j].status = "cancelling" => job'[j] \in {job[j], Ended(job[j], "cancelled")}]_vars

\* An upload is started at most once each time a person asks for it: no exit of
\* the process, stop, duplicate request or late schedule starts it once more.
UploadsRunOnce == \A j \in Jobs \ Cancellable : runs[j] <= 1

\* An upload job has succeeded only if the upload its own attempt is bound to is
\* published, whether its handler says so or recovery after an exit.
SuccessIsConfirmed ==
  \A j \in Jobs \ Cancellable : job[j].status = "succeeded" => binding[j] = "confirmed"

\* A job that was accepted ends, through exits of the process, orderly stops and
\* cancellations: it is taken up, if need be after a restart, and its handler's
\* end is recorded.  Two things leave it behind: a write of its end that fails,
\* and a task of another attempt that stands in the way of its own.
JobsEnd ==
  \A j \in Jobs : job[j].status \in Active ~> job[j].status \in Terminal \/ j \in missed \cup lost

\* jobs/manager.py:202 says that a retry opens a new attempt only when the
\* execution before it has exited.
RetriesAfterExit ==
  [][\A c \in Callers, j \in Jobs :
       (Retry(c) /\ job'[j].attempt > job[j].attempt) => ~Alive(j)]_vars
=============================================================================
