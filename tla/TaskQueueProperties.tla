------------------------- MODULE TaskQueueProperties -------------------------
(***************************************************************************)
(* What the task queue must guarantee, and what its docs say it does.      *)
(***************************************************************************)
EXTENDS TaskQueue

\* Every variable has its type: rows, budgets, executions and pending writes
\* are the records the code keeps.
TypeOK ==
  /\ task \in [Tasks -> Row]
  /\ budget \in [Tasks -> [ActiveStages -> Budget]]
  /\ savedAsr \subseteq Tasks
  /\ ledger \in [Tasks -> LedgerStates]
  /\ execs \subseteq Execution
  /\ asrPool \subseteq Tasks \X Tokens
  /\ mode \in {"running", "stopping"}
  /\ pending \in [Writers -> SUBSET Change]
  /\ requests \in 0 .. MaxRequests
  /\ crashes \in 0 .. MaxCrashes
  /\ stops \in 0 .. MaxStops

LeasedStages == ActiveStages \cup {"CANCELLING"}

HasLease(row) == row.stage \in LeasedStages => row.token # Null

\* A row is in a stage that is being worked on, or is being cancelled, only
\* under a lease: whatever order claims, commits, recovery, shutdown and the
\* late writes of unlocked handlers come in, there is a token that the result
\* will be checked against and that stale recovery can look up.
ActiveHasLease == \A t \in Tasks : HasLease(task[t])

\* What an open transaction is about to write never puts a row into a leased
\* stage without a new token: the scheduler and the publisher only leave such
\* stages, a web request claims with a token of its own.
PendingSound ==
  /\ \A c \in pending["scheduler"] \cup pending["publisher"] :
       c.after.stage \notin LeasedStages /\ c.before.stage # c.after.stage
  /\ \A c \in pending["web"] :
       /\ c.after.token \in Tokens
       /\ c.before.token # c.after.token

\* Two executions never work under the same lease, so of all the threads that
\* have ever been started for a task (before and after a recovery, by the
\* worker and by a web request) at most one can still commit.
SoleHolder ==
  \A e, f \in execs : e # f => <<e.task, e.token>> # <<f.task, f.token>>

\* Why that is so: no two executions have the same token, whatever their
\* tasks, and the one claim a web request may be about to write has a token
\* that no execution has.
UniqueTokens ==
  /\ \A e, f \in execs : e.token = f.token => e = f
  /\ \A c \in pending["web"] : \A e \in execs : e.token # c.after.token
  /\ \A c, d \in pending["web"] : c = d

\* Something works under lease k of t: a thread, or also a model process.
ThreadOf(t, k) == \E e \in execs : e.task = t /\ e.token = k /\ Alive(e)
Working(t, k)  == ThreadOf(t, k) \/ <<t, k>> \in asrPool

\* A cancellation is reported as done only when the execution that was asked
\* to stop and its model process have physically ended.
CancelSettlesAfterExit ==
  [][\A t \in Tasks, k \in Tokens :
       task[t].stage = "CANCELLING" /\ task[t].token = k /\ task'[t].stage = "CANCELLED"
         => ~Working(t, k)']_vars

\* A rendering that was asked for by a web request, and whose row lost its
\* owner between what the request read and what it wrote.
Disowned(t, k) ==
  task[t].owner = Null /\ \E e \in execs : e.task = t /\ e.token = k /\ e.kind = "web"

\* A crash is charged to a lease, by stale recovery or by the execution that
\* reports one, only when no thread works under it any more, and no model
\* process beyond the thread that is left to clean up; the one exception are
\* disowned renderings, of which stale recovery cannot know that they live.
CrashesAreReal ==
  [][\A t \in Tasks, s \in ActiveStages, k \in Tokens :
       budget'[t][s].consumed > budget[t][s].consumed /\ task[t].token = k
       => /\ ThreadOf(t, k)' => Disowned(t, k)
          /\ <<t, k>> \in asrPool' => ThreadOf(t, k)]_vars

\* The leases of the executions in some phases.
PairsIn(phases) == {<<e.task, e.token>> : e \in {f \in execs : f.phase \in phases}}

LeaseOf(t) == IF task[t].stage \in LeasedStages THEN task[t].token ELSE Null

CancelOf(t) ==
  IF task[t].stage = "CANCELLING" THEN "asked"
  ELSE IF task[t].stage = "CANCELLED" THEN "done" ELSE "no"

Promise == INSTANCE Leases
  WITH NoToken <- Null,
       row     <- task,
       lease   <- [t \in Tasks |-> LeaseOf(t)],
       cancel  <- [t \in Tasks |-> CancelOf(t)],
       granted <- PairsIn({"claimed"}),
       threads <- PairsIn({"running", "sent", "refused"}),
       decided <- PairsIn({"refused"}),
       models  <- asrPool

\* Rows, claims, commits, recovery, cancellations, shutdowns and late writes
\* together keep what leases promise: tokens are new, an execution starts once
\* and writes only while it holds its lease (a refused publication: if it held
\* it when it looked), and a cancellation waits for it.
ImplementsLeases == Promise!Spec

RestStages == WaitingStages \cup SettledStages

\* Every cancellation is settled, also when the execution that should have
\* settled it never started or died with its process.
CancellationSettles ==
  \A t \in Tasks : task[t].stage = "CANCELLING" ~> task[t].stage # "CANCELLING"

\* No task stays in a stage of work for ever: its execution commits, fails or
\* loses the lease, or stale recovery takes the row.
WorkEnds == \A t \in Tasks : task[t].stage \in ActiveStages ~> task[t].stage \notin ActiveStages

\* Left to itself, every task comes to rest: it waits for a person or for the
\* room's settings, or it has ended.  Retries, crashes, stops and requeues do
\* not go round for ever.
ComesToRest == \A t \in Tasks : task[t].stage \notin RestStages ~> task[t].stage \in RestStages

-----------------------------------------------------------------------------
(* What docs and comments say and the code does not do.                    *)

\* architecture.md: a recoverable task interrupted by a shutdown goes back to
\* the queue.  So a row that names a lease of this process while it is being
\* analysed has an execution.
InterruptedIsRequeued ==
  \A t \in Tasks : task[t].stage = "ANALYZING" /\ task[t].owner = worker
    => \E e \in execs : e.task = t /\ e.token = task[t].token

\* recovery_budget.has_saved_asr: a raw result that is saved must be kept for
\* an explicit retry, and speech may not be declared unavailable instead.
SavedSpeechIsKept ==
  [][\A t \in savedAsr : task[t].stage = "TRANSIENT_FAILED" => task'[t].asr # "unavailable"]_vars
=============================================================================
