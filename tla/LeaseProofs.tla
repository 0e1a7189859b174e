---------------------------- MODULE LeaseProofs ----------------------------
(***************************************************************************)
(* What recovery and cancellation may conclude from the lease a row names. *)
(* Both ask Busy, which compares the owner first; a row that names the     *)
(* token of a live execution under another owner would be taken for dead.  *)
(* The unlocked handlers write single columns, so the owner can be lost    *)
(* beside the token of a rendering that a web request claims; it is never  *)
(* lost beside the token of a claim of the worker, because a handler that  *)
(* read the row after the claim clears the token too, and one that read it *)
(* before has found no owner it would have to clear.                       *)
(***************************************************************************)
EXTENDS TaskQueueProofs

\* What the tick and a publisher are about to write clears the lease; the
\* publisher has read one.
OpenTicks ==
  /\ \A c \in pending["scheduler"] \cup pending["publisher"] :
       /\ c.after.owner = Null /\ c.after.token = Null
       /\ c.after.stage # "CANCELLED"
  /\ \A c \in pending["publisher"] : c.before.token # Null

\* The worker claims nothing while its tick has a write open: if the row that
\* the tick has read names work of the worker now, it did so already then.
TicksRead ==
  \A c \in pending["scheduler"] :
    /\ \A e \in execs : e.kind = "worker" /\ e.task = c.task /\ task[c.task].token = e.token
                        => c.before.token = e.token
    /\ \A p \in asrPool : p[1] = c.task /\ task[c.task].token = p[2] => c.before.token = p[2]

\* A web request is about to make this process the owner of a rendering, under
\* a token that no row has; if it read that owner already, the column is not
\* written, and names it or nobody.
OpenRequests ==
  \A c \in pending["web"] :
    /\ c.after.owner = worker
    /\ c.after.stage = "RENDERING" /\ c.before.stage # "RENDERING"
    /\ c.before.owner = worker => task[c.task].owner \in {Null, worker}
    /\ \A t \in Tasks : task[t].token # c.after.token

\* A row that names the token of an execution of this process, or of work in
\* its pool, names this process as the owner; beside the token of a rendering
\* for a web request it may also name nobody.
OwnersKnown ==
  /\ \A e \in execs : task[e.task].token = e.token
       => task[e.task].owner = worker \/ (e.kind = "web" /\ task[e.task].owner = Null)
  /\ \A p \in asrPool : task[p[1]].token = p[2] => task[p[1]].owner = worker

\* What the pool works for is a transcription; no other claim has its token.
PoolTranscribes ==
  /\ \A p \in asrPool, e \in execs : e.token = p[2] => e.task = p[1] /\ e.stage = "TRANSCRIBING"
  /\ \A p \in asrPool, c \in pending["web"] : c.after.token # p[2]

\* Somebody is asked to stop whenever a task is being cancelled.
CancelledHasOwner == \A t \in Tasks : task[t].stage = "CANCELLING" => task[t].owner # Null

\* The executions of web requests are renderings.
WebRenders == \A e \in execs : e.kind = "web" => e.stage = "RENDERING"

LeaseSound ==
  /\ OpenTicks /\ TicksRead /\ OpenRequests /\ WebRenders
  /\ OwnersKnown /\ PoolTranscribes /\ CancelledHasOwner

-----------------------------------------------------------------------------
(* What a step does to the lease in a row.                                 *)

\* The lease is given up, and the stage is one that needs none.
Freed(row) == row.owner = Null /\ row.token = Null /\ row.stage \notin LeasedStages

\* Every column of the lease stays or is cleared, and no stage of work begins.
Loose(old, new) ==
  /\ new.owner \in {old.owner, Null}
  /\ new.token \in {old.token, Null}
  /\ new.stage \in LeasedStages => old.stage \in LeasedStages
  /\ new.stage = "CANCELLING" => new.owner # Null

\* The owner does not go alone.
Firm(old, new) == new.token # Null => new.owner = old.owner

Kept(old, new) == Loose(old, new) /\ Firm(old, new)

\* The same, and no cancellation is reported as settled.
Tame(old, new) ==
  /\ Kept(old, new)
  /\ old.stage = "CANCELLING" => new.stage # "CANCELLED"

\* The row of t names the lease of an execution of the worker, or of a model
\* process.
Held(t) ==
  \/ <<t, task[t].token>> \in asrPool
  \/ \E e \in execs : e.kind = "worker" /\ e.task = t /\ e.token = task[t].token

Mild(t) == Loose(task[t], task'[t]) /\ (Held(t) => Firm(task[t], task'[t]))

\* What a step that settles no cancellation does to every row.
Calm ==
  \A t \in Tasks : Mild(t) /\ (task[t].stage = "CANCELLING" => task'[t].stage # "CANCELLED")

LEMMA FreedIsKept ==
  ASSUME NEW old, NEW new, Freed(new)
  PROVE  Kept(old, new)
BY DEF Freed, Kept, Loose, Firm, LeasedStages

\* The operators on rows clear the lease, except for a request to cancel,
\* which keeps it where there is an owner to ask.
LEMMA RowsFreed ==
  ASSUME NEW row \in Row
  PROVE  /\ row.stage \notin LeasedStages => Freed(Released(row))
         /\ \A s \in Stages \ LeasedStages : Freed(Enqueued(row, s)) /\ Freed(Resumed(row, s))
         /\ \A permanent \in BOOLEAN : Freed(MarkedFailed(row, permanent))
         /\ Freed(WithoutAsr(row))
         /\ Kept(row, CancellationRequested(row))
<1>1. ASSUME NEW r \in Row, r.stage \notin LeasedStages PROVE Freed(Released(r))
  BY <1>1 DEF Freed, Released, Row
<1>2. ASSUME NEW r \in Row, NEW s \in Stages \ LeasedStages PROVE Freed(Enqueued(r, s))
  <2> DEFINE moved == [r EXCEPT !.stage = s, !.attempts = 0]
  <2>1. moved \in Row /\ moved.stage \notin LeasedStages /\ s # "CANCELLING"
    BY DEF Row, LeasedStages
  <2>2. Enqueued(r, s) = Released(moved)
    BY <2>1 DEF Enqueued
  <2> HIDE DEF moved
  <2> QED BY <2>1, <2>2, <1>1
<1>3. ASSUME NEW s \in Stages \ LeasedStages PROVE Freed(Resumed(row, s))
  <2> DEFINE moved == [row EXCEPT !.stage = s]
  <2>1. moved \in Row /\ moved.stage \notin LeasedStages
    BY DEF Row, LeasedStages
  <2>2. Resumed(row, s) = Released(moved)
    BY DEF Resumed
  <2> HIDE DEF moved
  <2> QED BY <2>1, <2>2, <1>1
<1>4. ASSUME NEW permanent \in BOOLEAN PROVE Freed(MarkedFailed(row, permanent))
  <2> DEFINE moved == [row EXCEPT !.failed = row.stage,
                                  !.stage  = IF permanent THEN "FAILED" ELSE "TRANSIENT_FAILED"]
  <2>1. moved \in Row /\ moved.stage \notin LeasedStages
    BY DEF Row, Stages, SettledStages, LeasedStages, ActiveStages
  <2>2. MarkedFailed(row, permanent) = Released(moved)
    BY DEF MarkedFailed
  <2> HIDE DEF moved
  <2> QED BY <2>1, <2>2, <1>1
<1>5. Freed(WithoutAsr(row))
  <2>1. Enqueued(row, "TRANSCRIBED") \in Row /\ Freed(Enqueued(row, "TRANSCRIBED"))
    BY <1>2, RowOps, RestingStages
  <2> QED BY <2>1 DEF WithoutAsr, Freed, Row
<1>6. Kept(row, CancellationRequested(row))
  <2> DEFINE held   == /\ row.stage \in CancellableActiveStages
                       /\ row.owner # Null
                       /\ row.token # Null
             marked == IF row.stage \in {"TRANSIENT_FAILED", "STALE"}
                       THEN row ELSE [row EXCEPT !.failed = row.stage]
  <2>1. marked \in Row /\ marked.token = row.token /\ marked.owner = row.owner
    BY DEF Row
  <2>2. CancellationRequested(row) = Enqueued(marked, IF held THEN "CANCELLING" ELSE "CANCELLED")
    BY DEF CancellationRequested
  <2>3. CASE held
    <3>0. row.stage \in LeasedStages
      BY <2>3 DEF CancellableActiveStages, ActiveStages, LeasedStages
    <3>1. row.owner # Null /\ CancellationRequested(row) = Enqueued(marked, "CANCELLING")
      BY <2>2, <2>3
    <3> HIDE DEF marked
    <3>2. /\ Enqueued(marked, "CANCELLING").token = marked.token
          /\ Enqueued(marked, "CANCELLING").owner = marked.owner
      BY <2>1 DEF Enqueued, Row
    <3> QED BY <2>1, <3>0, <3>1, <3>2 DEF Kept, Loose, Firm
  <2>4. CASE ~held
    <3>1. CancellationRequested(row) = Enqueued(marked, "CANCELLED")
      BY <2>2, <2>4
    <3>2. Freed(Enqueued(marked, "CANCELLED"))
      BY <2>1, <1>2, RestingStages
    <3> QED BY <3>1, <3>2, FreedIsKept
  <2> QED BY <2>3, <2>4
<1> QED BY <1>1, <1>2, <1>3, <1>4, <1>5, <1>6

LEMMA FreedIsTame ==
  ASSUME NEW old, NEW new, Freed(new), old.stage # "CANCELLING" \/ new.stage # "CANCELLED"
  PROVE  Tame(old, new)
BY FreedIsKept DEF Tame

\* A row that is left as it is, and one written row, in a step of one row.
LEMMA SameIsTame ==
  ASSUME TypeOK, CancelledHasOwner, NEW t \in Tasks
  PROVE  Tame(task[t], task[t])
BY DEF CancelledHasOwner, Tame, Kept, Loose, Firm

LEMMA OneTame ==
  ASSUME TypeOK, CancelledHasOwner, NEW t \in Tasks, NEW row, Tame(task[t], row),
         task' = [task EXCEPT ![t] = row]
  PROVE  \A u \in Tasks : Tame(task[u], task'[u])
<1>1. \A u \in Tasks : (u = t /\ task'[u] = row) \/ task'[u] = task[u]
  BY DEF TypeOK
<1> QED BY <1>1, SameIsTame

LEMMA TameIsCalm ==
  ASSUME \A t \in Tasks : Tame(task[t], task'[t])
  PROVE  Calm
BY DEF Tame, Kept, Calm, Mild

\* The end of a body clears the lease of its row, or asks it to be cancelled,
\* or leaves it alone; a row being cancelled is no longer its own.
LEMMA BodyTame ==
  ASSUME TypeOK, CancelledHasOwner, NEW e \in execs, BodyStep(e), ~FlushPublisher(e)
  PROVE  \A t \in Tasks : Tame(task[t], task'[t])
<1> DEFINE row == task[e.task]
<1>1. row \in Row /\ e.task \in Tasks /\ e.stage \in ActiveStages
  BY ExecsType DEF Phases, Execution
<1>2. Owns(e) => row.stage # "CANCELLING"
  BY <1>1 DEF Owns, ActiveStages
<1>3. ASSUME NEW r, NEW b, BodyEnds(e, r, b), \/ r = row
                                              \/ Owns(e) /\ Freed(r)
                                              \/ Owns(e) /\ Kept(row, r)
      PROVE  \A t \in Tasks : Tame(task[t], task'[t])
  <2>1. Tame(row, r)
    BY <1>1, <1>2, <1>3, SameIsTame, FreedIsTame DEF Tame
  <2> HIDE DEF row
  <2> QED BY <1>1, <1>3, <2>1, OneTame DEF BodyEnds, row
<1>4. ASSUME NEW s \in Stages \ LeasedStages, NEW asr
      PROVE  Freed([Enqueued(row, s) EXCEPT !.asr = asr])
  <2>1. Enqueued(row, s) \in Row /\ Freed(Enqueued(row, s))
    BY <1>1, RowOps, RowsFreed
  <2> QED BY <2>1 DEF Freed, Row
<1>5. CASE Commit(e)
  <2>1. CASE CommitTranscript(e)
    BY <1>3, <1>4, <2>1, RestingStages DEF CommitTranscript
  <2>2. CASE CommitSignalPass(e)
    BY <1>3, <1>4, <2>2, RestingStages DEF CommitSignalPass
  <2>3. CASE CommitHighlight(e)
    BY <1>1, <1>3, <2>3, RestingStages, RowsFreed DEF CommitHighlight
  <2>4. CASE CommitRender(e)
    BY <1>1, <1>3, <2>4, RestingStages, RowsFreed DEF CommitRender
  <2>5. CASE CommitPublishAndAdvance(e)
    <3>1. \/ BodyEnds(e, Enqueued(row, "COMPLETED"), FALSE)
          \/ BodyEnds(e, Enqueued(row, "AWAITING_PUBLISH_CONFIRMATION"), FALSE)
          \/ \E permanent \in BOOLEAN : BodyEnds(e, MarkedFailed(row, permanent), FALSE)
          \/ BodyEnds(e, row, FALSE)
      BY <2>5 DEF CommitPublishAndAdvance
    <3>2. Owns(e)
      BY <2>5 DEF CommitPublishAndAdvance
    <3> QED BY <1>1, <1>3, <3>1, <3>2, RestingStages, RowsFreed
  <2> QED BY <1>5, <2>1, <2>2, <2>3, <2>4, <2>5 DEF Commit
<1>6. CASE RefuseUpload(e)
  BY <1>6, SameIsTame DEF RefuseUpload, db
<1>7. CASE LoseLease(e)
  BY <1>3, <1>7 DEF LoseLease
<1>8. CASE FailExecution(e)
  BY <1>1, <1>3, <1>8, RowsFreed DEF FailExecution
<1>9. CASE AsrProcessCrash(e)
  BY <1>1, <1>3, <1>9, RowsFreed DEF AsrProcessCrash
<1>10. CASE ShutdownInterrupts(e)
  BY <1>1, <1>3, <1>10, RowsFreed, StageFacts DEF ShutdownInterrupts
<1>11. CASE CancelRender(e)
  BY <1>1, <1>3, <1>11, RowsFreed DEF CancelRender
<1> QED BY <1>5, <1>6, <1>7, <1>8, <1>9, <1>10, <1>11 DEF BodyStep

\* A late write of the tick or of a publisher clears columns of the lease and
\* takes the row out of the stages of work.  It clears the token of work that
\* the row names, because it has read it.
LEMMA FlushCalm ==
  ASSUME TypeOK, PendingSound, OpenTicks, TicksRead, CancelledHasOwner,
         NEW w \in {"scheduler", "publisher"}, Flush(w)
  PROVE  Calm
<1> DEFINE cs == pending[w]
           ChangeOf(t) == CHOOSE c \in cs : c.task = t
<1>1. ASSUME NEW t \in Tasks, NEW c \in cs, c.task = t
      PROVE  /\ Loose(task[t], Overlaid(task[t], c))
             /\ Held(t) => Firm(task[t], Overlaid(task[t], c))
             /\ Overlaid(task[t], c).stage # "CANCELLED"
  <2>1. /\ c.after.owner = Null /\ c.after.token = Null /\ c.after.stage # "CANCELLED"
        /\ c.after.stage \notin LeasedStages /\ c.before.stage # c.after.stage
    BY DEF OpenTicks, PendingSound
  <2>2. Held(t) => c.before.token # Null
    <3>1. CASE w = "publisher"
      BY <3>1 DEF OpenTicks
    <3>2. CASE w = "scheduler"
      <4>1. Held(t) => c.before.token = task[t].token /\ task[t].token \in Tokens
        BY <1>1, <3>2 DEF Held, TicksRead, TypeOK, Execution
      <4> QED BY <4>1, NullIsNoToken
    <3> QED BY <3>1, <3>2
  <2> HIDE DEF cs
  <2>3. Overlaid(task[t], c).stage = c.after.stage
    BY <2>1 DEF Overlaid
  <2>4. /\ Overlaid(task[t], c).owner \in {task[t].owner, Null}
        /\ Overlaid(task[t], c).token \in {task[t].token, Null}
        /\ c.before.token # Null => Overlaid(task[t], c).token = Null
    BY <2>1 DEF Overlaid
  <2> QED BY <2>1, <2>2, <2>3, <2>4 DEF Loose, Firm, LeasedStages
<1>2. task' = [t \in Tasks |-> IF t \in {c.task : c \in cs}
                              THEN Overlaid(task[t], ChangeOf(t)) ELSE task[t]]
  BY DEF Flush
<1>3. ASSUME NEW t \in Tasks
      PROVE  Mild(t) /\ (task[t].stage = "CANCELLING" => task'[t].stage # "CANCELLED")
  <2>1. CASE t \in {c.task : c \in cs}
    <3>1. ChangeOf(t) \in cs /\ ChangeOf(t).task = t
      BY <2>1
    <3>2. task'[t] = Overlaid(task[t], ChangeOf(t))
      BY <1>2, <2>1
    <3> HIDE DEF cs, ChangeOf
    <3> QED BY <1>1, <3>1, <3>2 DEF Mild
  <2>2. CASE t \notin {c.task : c \in cs}
    <3>1. task'[t] = task[t]
      BY <1>2, <2>2
    <3> QED BY <3>1, SameIsTame DEF Tame, Kept, Mild
  <2> QED BY <2>1, <2>2
<1> QED BY <1>3 DEF Calm

-----------------------------------------------------------------------------
(* The steps that start nothing.                                           *)

\* f carries on what an execution of this process did before the step.
Descends(f) ==
  \E e \in execs : e.task = f.task /\ e.token = f.token /\ e.stage = f.stage /\ e.kind = f.kind

\* A step of this process that neither draws nor writes a token.
Quiet ==
  /\ crashes' = crashes
  /\ \A t \in Tasks : Mild(t)
  /\ \A f \in execs' : Descends(f)
  /\ \A p \in asrPool' : \/ p \in asrPool
                         \/ \E e \in execs : /\ p = <<e.task, e.token>>
                                             /\ e.stage = "TRANSCRIBING" /\ Owns(e)
  /\ pending'["web"] \subseteq pending["web"]
  /\ \A c \in pending'["scheduler"] :
       c \in pending["scheduler"] \/ c.before.token = task'[c.task].token

\* The two places where a cancellation is reported as settled.
Settling == RecoverStale \/ \E e \in execs : SettleExecution(e)

Claiming ==
  \/ \E t \in Tasks : PopAndClaim(t) \/ RequestRender(t)
  \/ FlushRenderRequest

LEMMA MovedDescends ==
  ASSUME TypeOK, NEW e \in execs, NEW phase \in Phases, execs' = Moved(e, phase)
  PROVE  \A f \in execs' : Descends(f)
<1>1. /\ InPhase(e, phase).task = e.task /\ InPhase(e, phase).token = e.token
      /\ InPhase(e, phase).stage = e.stage /\ InPhase(e, phase).kind = e.kind
  BY ExecsType DEF InPhase, Execution
<1>2. \A f \in execs' : f = InPhase(e, phase) \/ f \in execs
  BY DEF Moved
<1> QED BY <1>1, <1>2 DEF Descends

LEMMA BodyQuiet ==
  ASSUME TypeOK, PendingSound, OpenTicks, TicksRead, CancelledHasOwner, NEW e \in execs, BodyStep(e)
  PROVE  Quiet /\ Calm
<1>1. Calm
  BY BodyTame, TameIsCalm, FlushCalm DEF FlushPublisher
<1>2. /\ \E phase \in Phases : execs' = Moved(e, phase)
      /\ pending'["web"] = pending["web"] /\ pending'["scheduler"] = pending["scheduler"]
      /\ asrPool' \subseteq asrPool /\ crashes' = crashes
  <2>0. "ended" \in Phases /\ "refused" \in Phases
    BY DEF Phases
  <2>1. ASSUME NEW r, NEW b, BodyEnds(e, r, b)
        PROVE  /\ execs' = Moved(e, "ended") /\ pending' = pending
               /\ asrPool' \subseteq asrPool /\ crashes' = crashes
    BY <2>1 DEF BodyEnds, PoolAfter, bounds
  <2>2. CASE Commit(e)
    BY <2>0, <2>1, <2>2 DEF Commit, CommitTranscript, CommitSignalPass, CommitHighlight,
                            CommitRender, CommitPublishAndAdvance
  <2>3. CASE RefuseUpload(e)
    BY <2>0, <2>3 DEF RefuseUpload, TypeOK, Writers, bounds
  <2>4. CASE LoseLease(e) \/ FailExecution(e) \/ AsrProcessCrash(e) \/ ShutdownInterrupts(e)
             \/ CancelRender(e)
    BY <2>0, <2>1, <2>4 DEF LoseLease, FailExecution, AsrProcessCrash, ShutdownInterrupts,
                            CancelRender
  <2>5. CASE FlushPublisher(e)
    BY <2>0, <2>5 DEF FlushPublisher, Flush, TypeOK, Writers, bounds
  <2> QED BY <2>2, <2>3, <2>4, <2>5 DEF BodyStep
<1>3. \A f \in execs' : Descends(f)
  BY <1>2, MovedDescends
<1> QED BY <1>1, <1>2, <1>3 DEF Quiet, Calm

\* Every step of this process that is not a claim is quiet, and only two of
\* them report a cancellation as settled.
LEMMA StepQuiet ==
  ASSUME TypeOK, PendingSound, OpenTicks, TicksRead, CancelledHasOwner, [Next]_vars,
         ~Claiming, ~Restart
  PROVE  Quiet /\ (Settling \/ Calm)
<1> DEFINE AllTame == \A t \in Tasks : Tame(task[t], task'[t])
           Rest    == /\ execs' \subseteq execs /\ asrPool' \subseteq asrPool
                      /\ pending'["web"] \subseteq pending["web"]
                      /\ \A c \in pending'["scheduler"] :
                           c \in pending["scheduler"] \/ c.before.token = task'[c.task].token
                      /\ crashes' = crashes
<1>1. \A t \in Tasks : task[t] \in Row /\ Tame(task[t], task[t])
  BY SameIsTame DEF TypeOK
<1>1a. ASSUME Calm, Rest PROVE Quiet
  BY <1>1a DEF Quiet, Calm, Descends
<1>2. ASSUME AllTame, Rest PROVE Quiet /\ Calm
  BY <1>1a, <1>2, TameIsCalm
<1>3. ASSUME task' = task, Rest PROVE Quiet /\ Calm
  BY <1>1, <1>2, <1>3
<1>4. ASSUME UNCHANGED proc, UNCHANGED crashes PROVE Rest
  BY <1>4 DEF proc
<1>5. ASSUME NEW w \in Writers, Flush(w), UNCHANGED execs PROVE Rest
  BY <1>5 DEF Flush, TypeOK, bounds
<1>6. ASSUME NEW t \in Tasks, NEW row, Freed(row), task' = [task EXCEPT ![t] = row],
             task[t].stage # "CANCELLING" \/ row.stage # "CANCELLED"
      PROVE  AllTame
  BY <1>6, FreedIsTame, OneTame
<1>7. CASE SchedulerStep
  <2>1. CASE \/ AdvanceRecorded \/ AdvanceTranscribed \/ AdvanceCandidate
            \/ AdvanceApproved \/ AdvanceRendered \/ SyncUploads
    <3>1. ASSUME NEW ts, NEW next, Decide(ts, next) PROVE task' = task /\ Rest
      BY <3>1 DEF Decide, db, bounds, TypeOK, Writers
    <3> HIDE DEF Rest
    <3>2. task' = task /\ Rest
      BY <2>1, <3>1 DEF AdvanceRecorded, AdvanceTranscribed, AdvanceCandidate, AdvanceApproved,
                        AdvanceRendered, SyncUploads, Advance
    <3> QED BY <3>2, <1>3
  <2>2. CASE FlushScheduler
    BY <1>1a, <1>5, <2>2, FlushCalm DEF FlushScheduler, Writers
  <2>3. CASE AdvanceAwaitingReview
    <3>1. ASSUME NEW t \in Tasks PROVE Tame(task[t], task'[t])
      <4>1. task'[t] = task[t] \/ (task'[t] = Enqueued(task[t], "APPROVED")
                                     /\ task[t].stage = "AWAITING_REVIEW")
        BY <2>3 DEF AdvanceAwaitingReview, InStage
      <4> QED BY <1>1, <4>1, RestingStages, RowsFreed, FreedIsTame
    <3>2. UNCHANGED proc /\ UNCHANGED crashes
      BY <2>3 DEF AdvanceAwaitingReview, bounds
    <3> QED BY <1>2, <1>4, <3>1, <3>2
  <2>4. CASE RetryExpired
    <3>1. ASSUME NEW t \in Tasks PROVE Tame(task[t], task'[t])
      <4>1. \/ task'[t] = task[t]
            \/ /\ task[t].stage = "TRANSIENT_FAILED"
               /\ \/ task'[t] = Resumed(task[t], ResumeStage(task[t].failed))
                  \/ task'[t] = WithoutAsr(task[t])
                  \/ task'[t] = Resumed(task[t], "FAILED")
        BY <2>4 DEF RetryExpired, InStage
      <4> QED BY <1>1, <4>1, RestingStages, StageFacts, RowsFreed, FreedIsTame
    <3>2. UNCHANGED proc /\ UNCHANGED crashes
      BY <2>4 DEF RetryExpired, bounds
    <3> QED BY <1>2, <1>4, <3>1, <3>2
  <2>5. CASE RecoverStale
    <3>1. ASSUME NEW t \in Tasks PROVE Kept(task[t], task'[t])
      <4>1. \A b : Freed(Recovered(t, b))
        BY <1>1, StageFacts, RowsFreed DEF Recovered
      <4>2. Freed(Enqueued(task[t], "CANCELLED"))
        BY <1>1, RestingStages, RowsFreed
      <4>3. task[t].stage \in SettledStages \cup {"TRANSIENT_FAILED"} => Freed(Released(task[t]))
        BY <1>1, RowsFreed, RestingStages
      <4>4. task'[t] = task[t] \/ Freed(task'[t])
        BY <2>5, <4>1, <4>2, <4>3 DEF RecoverStale
      <4> QED BY <1>1, <4>4, FreedIsKept DEF Tame
    <3>2. UNCHANGED proc /\ UNCHANGED crashes
      BY <2>5 DEF RecoverStale, bounds
    <3> QED BY <1>4, <2>5, <3>1, <3>2 DEF Quiet, Descends, Settling, Kept, Mild
  <2> QED BY <1>7, <2>1, <2>2, <2>3, <2>4, <2>5 DEF SchedulerStep, Claiming
<1>8. CASE UserStep
  <2>1. ASSUME NEW t \in Tasks, CancelTask(t) PROVE Quiet /\ Calm
    <3>1. Tame(task[t], CancellationRequested(task[t]))
      BY <1>1, <2>1, RowsFreed DEF CancelTask, Tame
    <3>2. task' = [task EXCEPT ![t] = CancellationRequested(task[t])] /\ UNCHANGED proc /\ UNCHANGED crashes
      BY <2>1 DEF CancelTask
    <3> QED BY <1>2, <1>4, <3>1, <3>2, OneTame
  <2>2. ASSUME NEW t \in Tasks, RetryTask(t) PROVE Quiet /\ Calm
    <3> DEFINE s    == ResumeStage(IF task[t].failed = NoStage THEN task[t].stage ELSE task[t].failed)
               back == Resumed(task[t], s)
    <3>1. back \in Row /\ Freed(back)
      BY <1>1, StageFacts, RowOps, RowsFreed
    <3>2. task' = [task EXCEPT ![t] = [back EXCEPT !.attempts = 0]] /\ task[t].stage # "CANCELLING"
          /\ UNCHANGED proc /\ UNCHANGED crashes
      BY <2>2 DEF RetryTask
    <3> HIDE DEF back, s
    <3>3. Freed([back EXCEPT !.attempts = 0])
      BY <3>1 DEF Freed, Row
    <3> QED BY <1>2, <1>4, <1>6, <3>2, <3>3
  <2>3. ASSUME NEW t \in Tasks, SubmitReview(t) PROVE Quiet /\ Calm
    <3>1. PICK to \in {"QUEUED_FOR_RENDER", "APPROVED", "REVIEWED_WAITING_ACTION"} :
            task' = [task EXCEPT ![t] = Enqueued(task[t], to)]
      BY <2>3 DEF SubmitReview
    <3>2. Freed(Enqueued(task[t], to)) /\ Enqueued(task[t], to).stage # "CANCELLED"
      BY <1>1, RestingStages, RowsFreed, RowLeases
    <3>3. UNCHANGED proc /\ UNCHANGED crashes
      BY <2>3 DEF SubmitReview
    <3> QED BY <1>2, <1>4, <1>6, <3>1, <3>2, <3>3
  <2>4. ASSUME NEW t \in Tasks, ConfirmPublished(t) PROVE Quiet /\ Calm
    <3>1. Freed(Resumed(task[t], "COMPLETED"))
      BY <1>1, RestingStages, RowsFreed
    <3>2. task' = [task EXCEPT ![t] = Resumed(task[t], "COMPLETED")] /\ task[t].stage # "CANCELLING"
          /\ UNCHANGED proc /\ UNCHANGED crashes
      BY <2>4 DEF ConfirmPublished
    <3> QED BY <1>2, <1>4, <1>6, <3>1, <3>2
  <2> QED BY <1>8, <2>1, <2>2, <2>3, <2>4 DEF UserStep, Claiming
<1>9. CASE Lifecycle
  <2>1. CASE RequestStop \/ Start
    BY <1>3, <2>1 DEF RequestStop, Start, db, bounds
  <2>2. CASE ReleaseStoppedComputations
    <3>1. ASSUME NEW t \in Tasks PROVE Tame(task[t], task'[t])
      <4>1. task'[t] = task[t] \/ /\ task[t].stage \in {"TRANSCRIBING", "ANALYZING"}
                                  /\ task'[t] = Resumed(task[t], ResumeStage(task[t].stage))
        BY <2>2 DEF ReleaseStoppedComputations
      <4> QED BY <1>1, <4>1, StageFacts, RowsFreed, FreedIsTame
    <3>2. UNCHANGED proc /\ UNCHANGED crashes
      BY <2>2 DEF ReleaseStoppedComputations, bounds
    <3> QED BY <1>2, <1>4, <3>1, <3>2
  <2> QED BY <1>9, <2>1, <2>2 DEF Lifecycle
<1>10. ASSUME NEW e \in execs, ExecutionStep(e) PROVE Quiet /\ (Settling \/ Calm)
  <2> DEFINE row == task[e.task]
  <2>0. row \in Row /\ e.task \in Tasks /\ e.stage \in ActiveStages /\ e \in Execution
    BY ExecsType DEF Phases, Execution
  <2>1. CASE ReleaseUnstartedClaim(e)
    <3> DEFINE queued == CHOOSE q \in QueueStages : ActiveStage(q) = e.stage
               back   == Resumed(row, queued)
               n      == IF back.attempts > 0 THEN back.attempts - 1 ELSE 0
    <3>1. queued \in QueueStages
      BY <2>0, StageFacts
    <3>2. back \in Row /\ Freed(back)
      <4> HIDE DEF queued
      <4>1. queued \in Stages \ LeasedStages
        BY <3>1, StageFacts
      <4> QED BY <2>0, <4>1, RowOps, RowsFreed
    <3>3. \/ task' = [task EXCEPT ![e.task] = [back EXCEPT !.attempts = n]] /\ row.stage = e.stage
          \/ task' = task
      BY <2>1 DEF ReleaseUnstartedClaim
    <3>4. Rest
      BY <2>1 DEF ReleaseUnstartedClaim, bounds
    <3> HIDE DEF n, back, Rest
    <3>5. Freed([back EXCEPT !.attempts = n])
      BY <3>2 DEF Freed, Row
    <3>6. e.stage # "CANCELLING"
      BY <2>0 DEF ActiveStages
    <3> QED BY <1>2, <1>3, <1>6, <2>0, <3>3, <3>4, <3>5, <3>6
  <2>2. CASE AbandonRequest(e)
    BY <1>3, <2>2 DEF AbandonRequest, db, bounds
  <2>3. CASE SaveAsrCheckpoint(e)
    BY <1>3, <1>4, <2>3 DEF SaveAsrCheckpoint, bounds
  <2>4. CASE StartExecution(e)
    <3>1. \A f \in execs' : Descends(f)
      BY <2>4, MovedDescends DEF StartExecution, Phases
    <3>2. /\ task' = task /\ crashes' = crashes /\ pending' = pending
          /\ asrPool' \subseteq asrPool \/ /\ asrPool' = asrPool \cup {<<e.task, e.token>>}
                                           /\ e.stage = "TRANSCRIBING" /\ Owns(e)
      BY <2>4 DEF StartExecution, db, bounds
    <3>3. AllTame
      BY <1>1, <3>2
    <3> QED BY <3>1, <3>2, <3>3, TameIsCalm DEF Quiet, Calm
  <2>5. CASE SendUpload(e)
    <3>1. \A f \in execs' : Descends(f)
      BY <2>5, MovedDescends DEF SendUpload, Phases
    <3>2. task' = task /\ crashes' = crashes /\ pending' = pending /\ asrPool' = asrPool
      BY <2>5 DEF SendUpload, bounds
    <3>3. AllTame
      BY <1>1, <3>2
    <3> QED BY <3>1, <3>2, <3>3, TameIsCalm DEF Quiet, Calm
  <2>6. CASE Heartbeat(e)
    <3>1. task' = [task EXCEPT ![e.task] = [row EXCEPT !.aged = FALSE]]
      BY <2>6 DEF Heartbeat
    <3>2. Tame(row, [row EXCEPT !.aged = FALSE])
      BY <1>1, <2>0 DEF Tame, Kept, Loose, Firm, Row
    <3>3. Rest
      BY <1>4, <2>6 DEF Heartbeat, bounds
    <3> HIDE DEF Rest
    <3> QED BY <1>2, <2>0, <3>1, <3>2, <3>3, OneTame
  <2>7. CASE BodyStep(e)
    BY <2>7, BodyQuiet
  <2>8. CASE SettleExecution(e)
    <3>1. task' = [task EXCEPT ![e.task] = Enqueued(row, "CANCELLED")] \/ task' = task
      BY <2>8 DEF SettleExecution
    <3>2. Kept(row, Enqueued(row, "CANCELLED"))
      BY <2>0, RestingStages, RowsFreed, FreedIsKept
    <3>3. \A t \in Tasks : task'[t] = task[t] \/ (t = e.task /\ task'[t] = Enqueued(row, "CANCELLED"))
      BY <3>1 DEF TypeOK
    <3>4. \A t \in Tasks : Kept(task[t], task'[t])
      BY <1>1, <3>2, <3>3 DEF Tame
    <3>5. Rest
      BY <2>8 DEF SettleExecution, bounds
    <3> QED BY <2>8, <3>4, <3>5 DEF Quiet, Settling, Descends, Kept, Mild
  <2> QED BY <1>10, <2>1, <2>2, <2>3, <2>4, <2>5, <2>6, <2>7, <2>8 DEF ExecutionStep
<1>12. ASSUME NEW t \in Tasks, Age(t) PROVE Quiet /\ Calm
  <2>1. task' = [task EXCEPT ![t] = [task[t] EXCEPT !.aged = TRUE]] /\ UNCHANGED proc /\ UNCHANGED crashes
    BY <1>12 DEF Age, bounds
  <2>2. Tame(task[t], [task[t] EXCEPT !.aged = TRUE])
    BY <1>1 DEF Tame, Kept, Loose, Firm, Row
  <2> QED BY <1>2, <1>4, <2>1, <2>2, OneTame
<1>13. ASSUME NEW t \in Tasks, RecordUploadResult(t) PROVE task' = task /\ Rest
  BY <1>4, <1>13 DEF RecordUploadResult, bounds
<1>14. ASSUME NEW p \in asrPool, PoolReap(p) PROVE task' = task /\ Rest
  BY <1>14 DEF PoolReap, db, bounds
<1>15. CASE UNCHANGED vars
  BY <1>3, <1>15 DEF vars, db, proc, bounds
<1> HIDE DEF Rest, AllTame
<1> QED BY <1>3, <1>7, <1>8, <1>9, <1>10, <1>12, <1>13, <1>14, <1>15 DEF Next

-----------------------------------------------------------------------------
(* The invariant of leases and its holders.                                *)

\* A handler of the tick that clears the lease of every row it moves.
LEMMA DecideOpen ==
  ASSUME TypeOK, OpenTicks, NEW ts \in SUBSET Tasks, NEW next,
         \A t \in ts : Freed(next[t]) /\ next[t].stage # "CANCELLED",
         Decide(ts, next)
  PROVE  OpenTicks'
<1> DEFINE read == {[task |-> t, before |-> task[t], after |-> next[t]] : t \in ts}
<1>1. pending' = [pending EXCEPT !["scheduler"] = read] /\ pending \in [Writers -> SUBSET Change]
  BY DEF Decide, TypeOK
<1>2. \A c \in read : c.after.owner = Null /\ c.after.token = Null /\ c.after.stage # "CANCELLED"
  BY DEF Freed
<1> HIDE DEF read
<1> QED BY <1>1, <1>2 DEF OpenTicks, Writers

LEMMA AdvanceOpen ==
  ASSUME TypeOK, OpenTicks, NEW stage, NEW targets \in SUBSET (Stages \ LeasedStages),
         "CANCELLED" \notin targets, Advance(stage, targets)
  PROVE  OpenTicks'
<1>0. PICK ts \in SUBSET InStage(stage) :
        \E to \in [ts -> targets] : Decide(ts, [t \in ts |-> Enqueued(task[t], to[t])])
  BY DEF Advance
<1>1. PICK to \in [ts -> targets] : Decide(ts, [t \in ts |-> Enqueued(task[t], to[t])])
  BY <1>0
<1>2. ts \in SUBSET Tasks /\ \A t \in ts : task[t] \in Row
  BY DEF InStage, TypeOK
<1>3. ASSUME NEW t \in ts
      PROVE  /\ Freed([u \in ts |-> Enqueued(task[u], to[u])][t])
             /\ [u \in ts |-> Enqueued(task[u], to[u])][t].stage # "CANCELLED"
  BY <1>2, RowsFreed, RowLeases
<1> QED BY <1>1, <1>2, <1>3, DecideOpen

\* What the tick and a publisher are about to write stays of that kind.
LEMMA TicksStep ==
  ASSUME TypeOK, OpenTicks, [Next]_vars
  PROVE  OpenTicks'
<1>1. /\ {"QUEUED_FOR_ANALYSIS", "AWAITING_REVIEW", "APPROVED", "APPROVED_WAITING_RENDER",
          "QUEUED_FOR_RENDER", "AWAITING_PUBLISH_CONFIRMATION", "QUEUED_FOR_PUBLISH",
          "COMPLETED"}
           \subseteq Stages \ LeasedStages
      /\ \A t \in Tasks : task[t] \in Row
      /\ pending \in [Writers -> SUBSET Change]
  BY DEF Stages, QueueStages, WaitingStages, SettledStages, ActiveStages, LeasedStages, TypeOK
<1>2. ASSUME pending'["scheduler"] \subseteq pending["scheduler"],
             pending'["publisher"] \subseteq pending["publisher"]
      PROVE  OpenTicks'
  BY <1>2 DEF OpenTicks
<1>3. ASSUME NEW w \in Writers, Flush(w) PROVE OpenTicks'
  <2>1. /\ pending'["scheduler"] \subseteq pending["scheduler"]
        /\ pending'["publisher"] \subseteq pending["publisher"]
    BY <1>1, <1>3 DEF Flush, Writers
  <2> QED BY <1>2, <2>1
<1>4. CASE AdvanceRecorded
  <2>1. PICK ts \in SUBSET InStage("RECORDED") :
          Decide(ts, [t \in ts |-> [Enqueued(task[t], "QUEUED_FOR_ANALYSIS") EXCEPT !.asr = "pending"]])
    BY <1>4 DEF AdvanceRecorded
  <2>2. ts \in SUBSET Tasks
    BY DEF InStage
  <2>3. ASSUME NEW t \in ts
        PROVE  /\ Freed([Enqueued(task[t], "QUEUED_FOR_ANALYSIS") EXCEPT !.asr = "pending"])
               /\ [Enqueued(task[t], "QUEUED_FOR_ANALYSIS") EXCEPT !.asr = "pending"].stage # "CANCELLED"
    <3>1. /\ Enqueued(task[t], "QUEUED_FOR_ANALYSIS") \in Row
          /\ Enqueued(task[t], "QUEUED_FOR_ANALYSIS").stage = "QUEUED_FOR_ANALYSIS"
          /\ Freed(Enqueued(task[t], "QUEUED_FOR_ANALYSIS"))
      BY <1>1, <2>2, RowOps, RowLeases, RowsFreed
    <3> QED BY <3>1 DEF Row, Freed
  <2> QED BY <2>1, <2>2, <2>3, DecideOpen
<1>5. CASE AdvanceTranscribed
  BY <1>1, <1>5, AdvanceOpen DEF AdvanceTranscribed, IfAutomatic
<1>6. CASE AdvanceCandidate
  BY <1>1, <1>6, AdvanceOpen DEF AdvanceCandidate, IfAutomatic
<1>7. CASE AdvanceApproved
  BY <1>1, <1>7, AdvanceOpen DEF AdvanceApproved, IfAutomatic
<1>8. CASE AdvanceRendered
  BY <1>1, <1>8, AdvanceOpen DEF AdvanceRendered, IfAutomatic
<1>9. CASE SyncUploads
  <2> DEFINE known == {t \in Tasks :
                /\ task[t].stage \in {"PUBLISHING", "QUEUED_FOR_PUBLISH", "RENDERED",
                                      "AWAITING_PUBLISH_CONFIRMATION"}
                /\ \/ ledger[t] \in {"success", "failed"}
                   \/ /\ ledger[t] = "reconciliation"
                      /\ task[t].stage # "AWAITING_PUBLISH_CONFIRMATION"}
             next == [t \in known |->
                CASE ledger[t] = "success"        -> Enqueued(task[t], "COMPLETED")
                  [] ledger[t] = "reconciliation" -> Enqueued(task[t], "AWAITING_PUBLISH_CONFIRMATION")
                  [] ledger[t] = "failed"         -> MarkedFailed(task[t], TRUE)]
  <2>1. Decide(known, next)
    BY <1>9 DEF SyncUploads
  <2>2. ASSUME NEW t \in known PROVE Freed(next[t]) /\ next[t].stage # "CANCELLED"
    <3>1. /\ Enqueued(task[t], "COMPLETED").stage = "COMPLETED"
          /\ Enqueued(task[t], "AWAITING_PUBLISH_CONFIRMATION").stage = "AWAITING_PUBLISH_CONFIRMATION"
          /\ MarkedFailed(task[t], TRUE).stage = "FAILED"
          /\ Freed(Enqueued(task[t], "COMPLETED")) /\ Freed(MarkedFailed(task[t], TRUE))
          /\ Freed(Enqueued(task[t], "AWAITING_PUBLISH_CONFIRMATION"))
      <4>1. task[t] \in Row /\ {"COMPLETED", "AWAITING_PUBLISH_CONFIRMATION"} \subseteq Stages \ LeasedStages
        BY <1>1
      <4> HIDE DEF known, next
      <4>2. /\ Enqueued(task[t], "COMPLETED").stage = "COMPLETED"
            /\ Enqueued(task[t], "AWAITING_PUBLISH_CONFIRMATION").stage = "AWAITING_PUBLISH_CONFIRMATION"
            /\ MarkedFailed(task[t], TRUE).stage = "FAILED"
        BY <4>1, RowLeases
      <4>3. /\ Freed(Enqueued(task[t], "COMPLETED")) /\ Freed(MarkedFailed(task[t], TRUE))
            /\ Freed(Enqueued(task[t], "AWAITING_PUBLISH_CONFIRMATION"))
        BY <4>1, RowsFreed
      <4> QED BY <4>2, <4>3
    <3>2. \/ next[t] = Enqueued(task[t], "COMPLETED")
          \/ next[t] = Enqueued(task[t], "AWAITING_PUBLISH_CONFIRMATION")
          \/ next[t] = MarkedFailed(task[t], TRUE)
      OBVIOUS
    <3> HIDE DEF next, known
    <3> QED BY <3>1, <3>2
  <2> HIDE DEF next
  <2> QED BY <2>1, <2>2, DecideOpen
<1>10. ASSUME NEW e \in execs, RefuseUpload(e) PROVE OpenTicks'
  <2> DEFINE row == task[e.task]
  <2>1. PICK permanent \in BOOLEAN :
          pending' = [pending EXCEPT !["publisher"] =
                        {[task |-> e.task, before |-> row, after |-> MarkedFailed(row, permanent)]}]
    BY <1>10 DEF RefuseUpload, Refusal
  <2>2. row \in Row /\ row.token # Null
    BY <1>10, ExecsType, NullIsNoToken DEF Phases, RefuseUpload, Owns, Execution
  <2>3. MarkedFailed(row, permanent).stage \in {"FAILED", "TRANSIENT_FAILED"}
    BY <2>2, RowLeases
  <2>4. MarkedFailed(row, permanent).owner = Null /\ MarkedFailed(row, permanent).token = Null
    BY <2>2, RowsFreed DEF Freed
  <2> QED BY <1>1, <2>1, <2>2, <2>3, <2>4 DEF OpenTicks, Writers
<1>11. ASSUME NEW t \in Tasks, RequestRender(t) PROVE OpenTicks'
  BY <1>1, <1>2, <1>11 DEF RequestRender, Writers
<1>12. CASE Restart
  BY <1>12 DEF Restart, OpenTicks, Writers
<1>13. CASE SchedulerStep
  <2>1. CASE AdvanceAwaitingReview \/ RetryExpired \/ RecoverStale \/ \E t \in Tasks : PopAndClaim(t)
    <3>1. pending' = pending
      BY <2>1 DEF AdvanceAwaitingReview, RetryExpired, RecoverStale, PopAndClaim, proc
    <3> QED BY <3>1, <1>2
  <2>2. CASE FlushScheduler
    BY <1>3, <2>2 DEF FlushScheduler, Writers
  <2> QED BY <1>4, <1>5, <1>6, <1>7, <1>8, <1>9, <1>13, <2>1, <2>2 DEF SchedulerStep
<1>14. CASE UserStep
  <2>1. ASSUME NEW t \in Tasks, CancelTask(t) \/ RetryTask(t) \/ SubmitReview(t) \/ ConfirmPublished(t)
        PROVE  pending' = pending
    BY <2>1 DEF CancelTask, RetryTask, SubmitReview, ConfirmPublished, proc
  <2>2. CASE FlushRenderRequest
    BY <1>3, <2>2 DEF FlushRenderRequest, Writers
  <2> QED BY <1>2, <1>11, <1>14, <2>1, <2>2 DEF UserStep
<1>15. CASE Lifecycle
  <2>1. CASE RequestStop \/ ReleaseStoppedComputations \/ Start
    <3>1. pending' = pending
      BY <2>1 DEF RequestStop, ReleaseStoppedComputations, Start, proc
    <3> QED BY <3>1, <1>2
  <2> QED BY <1>12, <1>15, <2>1 DEF Lifecycle
<1>16. ASSUME NEW e \in execs, ExecutionStep(e) PROVE OpenTicks'
  <2>1. CASE RefuseUpload(e)
    BY <1>10, <2>1
  <2>2. CASE FlushPublisher(e)
    BY <1>3, <2>2 DEF FlushPublisher, Writers
  <2>3. CASE ~RefuseUpload(e) /\ ~FlushPublisher(e)
    <3>1. ASSUME Commit(e) PROVE pending' = pending
      BY <3>1 DEF Commit, CommitTranscript, CommitSignalPass, CommitHighlight, CommitRender,
                  CommitPublishAndAdvance, BodyEnds
    <3>2. ASSUME BodyStep(e) PROVE pending' = pending
      BY <2>3, <3>1, <3>2 DEF BodyStep, LoseLease, FailExecution, AsrProcessCrash,
                              ShutdownInterrupts, CancelRender, BodyEnds
    <3>3. pending' = pending
      BY <1>16, <3>2 DEF ExecutionStep, ReleaseUnstartedClaim, AbandonRequest, StartExecution,
                         Heartbeat, SaveAsrCheckpoint, SendUpload, SettleExecution, proc
    <3> QED BY <3>3, <1>2
  <2> QED BY <2>1, <2>2, <2>3
<1>18. ASSUME NEW t \in Tasks, Age(t) \/ RecordUploadResult(t) PROVE pending' = pending
  BY <1>18 DEF Age, RecordUploadResult, proc
<1>19. ASSUME NEW p \in asrPool, PoolReap(p) PROVE pending' = pending
  BY <1>19 DEF PoolReap
<1>20. CASE UNCHANGED vars
  BY <1>2, <1>20 DEF vars, proc
<1> QED BY <1>2, <1>13, <1>14, <1>15, <1>16, <1>18, <1>19, <1>20 DEF Next

\* A quiet step keeps what is known of owners, pool and requests.
LEMMA QuietSound ==
  ASSUME TypeOK, TypeOK', PendingSound, UniqueTokens, LeaseSound, Quiet
  PROVE  /\ TicksRead' /\ OpenRequests' /\ WebRenders'
         /\ OwnersKnown' /\ PoolTranscribes' /\ CancelledHasOwner'
<1> USE DEF LeaseSound
<1>1. /\ worker' = worker
      /\ execs \subseteq Execution /\ execs' \subseteq Execution
      /\ asrPool \subseteq Tasks \X Tokens /\ asrPool' \subseteq Tasks \X Tokens
      /\ pending["web"] \subseteq Change
  BY DEF Quiet, worker, TypeOK, Writers
<1>2. \A t \in Tasks : Mild(t)
  BY DEF Quiet
\* A token that is in a row after the step was there before, and its owner was
\* not lost if the token is that of work of the worker.
<1>3. ASSUME NEW t \in Tasks, NEW k \in Tokens, task'[t].token = k
      PROVE  /\ task[t].token = k
             /\ task'[t].owner \in {task[t].owner, Null}
             /\ Held(t) => task'[t].owner = task[t].owner
  BY <1>2, <1>3, NullIsNoToken DEF Mild, Loose, Firm
<1>3a. ASSUME NEW e \in execs, e.stage = "TRANSCRIBING" PROVE e.kind = "worker"
  BY <1>3a, <1>1 DEF WebRenders, Execution, Kinds
<1>4. OpenRequests'
  <2>1. ASSUME NEW c \in pending["web"], c.before.owner = worker
        PROVE  task'[c.task].owner \in {Null, worker}
    <3>1. c.task \in Tasks
      BY <1>1 DEF Change
    <3> QED BY <1>2, <2>1, <3>1 DEF OpenRequests, Mild, Loose
  <2>2. ASSUME NEW c \in pending["web"], NEW t \in Tasks PROVE task'[t].token # c.after.token
    <3>1. c.after.token \in Tokens /\ task[t].token # c.after.token
      BY DEF PendingSound, OpenRequests
    <3> QED BY <1>3, <3>1
  <2> QED BY <1>1, <2>1, <2>2 DEF OpenRequests, Quiet
<1>5. OwnersKnown'
  <2>1. ASSUME NEW f \in execs', task'[f.task].token = f.token
        PROVE  task'[f.task].owner = worker \/ (f.kind = "web" /\ task'[f.task].owner = Null)
    <3>1. PICK e \in execs : e.task = f.task /\ e.token = f.token /\ e.kind = f.kind
      BY DEF Quiet, Descends
    <3>2. f.task \in Tasks /\ f.token \in Tokens /\ f.kind \in {"worker", "web"}
      BY <1>1 DEF Execution, Kinds
    <3>3. /\ task[f.task].token = f.token
          /\ task'[f.task].owner \in {task[f.task].owner, Null}
          /\ Held(f.task) => task'[f.task].owner = task[f.task].owner
      BY <1>3, <2>1, <3>2
    <3>4. task[f.task].owner = worker \/ (f.kind = "web" /\ task[f.task].owner = Null)
      BY <3>1, <3>3 DEF OwnersKnown
    <3>5. f.kind = "worker" => Held(f.task)
      BY <3>1, <3>3 DEF Held
    <3> QED BY <3>2, <3>3, <3>4, <3>5
  <2>2. ASSUME NEW p \in asrPool', task'[p[1]].token = p[2]
        PROVE  task'[p[1]].owner = worker
    <3>1. p[1] \in Tasks /\ p[2] \in Tokens /\ p = <<p[1], p[2]>>
      BY <1>1
    <3>2. /\ task[p[1]].token = p[2]
          /\ Held(p[1]) => task'[p[1]].owner = task[p[1]].owner
      BY <1>3, <2>2, <3>1
    <3>3. CASE p \in asrPool
      BY <3>1, <3>2, <3>3 DEF OwnersKnown, Held
    <3>4. ASSUME NEW e \in execs, p = <<e.task, e.token>>, e.stage = "TRANSCRIBING", Owns(e)
          PROVE  task'[p[1]].owner = worker
      BY <1>3a, <3>2, <3>4 DEF Owns, Held
    <3> QED BY <3>3, <3>4 DEF Quiet
  <2> QED BY <1>1, <2>1, <2>2 DEF OwnersKnown
<1>5a. TicksRead'
  <2> SUFFICES ASSUME NEW c \in pending'["scheduler"]
               PROVE  /\ \A f \in execs' : f.kind = "worker" /\ f.task = c.task
                                           /\ task'[c.task].token = f.token
                                           => c.before.token = f.token
                      /\ \A p \in asrPool' : p[1] = c.task /\ task'[c.task].token = p[2]
                                            => c.before.token = p[2]
    BY DEF TicksRead
  <2>1. CASE c.before.token = task'[c.task].token
    BY <2>1
  <2>2. CASE c \in pending["scheduler"]
    <3>1. ASSUME NEW f \in execs', f.kind = "worker", f.task = c.task,
                 task'[c.task].token = f.token
          PROVE  c.before.token = f.token
      <4>1. PICK e \in execs : e.task = f.task /\ e.token = f.token /\ e.kind = f.kind
        BY DEF Quiet, Descends
      <4>2. f.task \in Tasks /\ f.token \in Tokens
        BY <1>1 DEF Execution
      <4>3. task[c.task].token = f.token
        BY <1>3, <3>1, <4>2
      <4> QED BY <2>2, <3>1, <4>1, <4>3 DEF TicksRead
    <3>2. ASSUME NEW p \in asrPool', p[1] = c.task, task'[c.task].token = p[2]
          PROVE  c.before.token = p[2]
      <4>1. p[1] \in Tasks /\ p[2] \in Tokens
        BY <1>1
      <4>2. task[c.task].token = p[2]
        BY <1>3, <3>2, <4>1
      <4>3. CASE p \in asrPool
        BY <2>2, <3>2, <4>2, <4>3 DEF TicksRead
      <4>4. ASSUME NEW e \in execs, p = <<e.task, e.token>>, e.stage = "TRANSCRIBING"
            PROVE  c.before.token = p[2]
        BY <1>3a, <2>2, <3>2, <4>2, <4>4 DEF TicksRead
      <4> QED BY <4>3, <4>4 DEF Quiet
    <3> QED BY <3>1, <3>2
  <2> QED BY <2>1, <2>2 DEF Quiet
<1>6. PoolTranscribes'
  <2>1. ASSUME NEW p \in asrPool' PROVE \/ p \in asrPool
                                        \/ \E e \in execs : /\ p[1] = e.task /\ p[2] = e.token
                                                            /\ e.stage = "TRANSCRIBING"
    BY DEF Quiet
  <2>2. ASSUME NEW p \in asrPool', NEW f \in execs', f.token = p[2]
        PROVE  f.task = p[1] /\ f.stage = "TRANSCRIBING"
    <3>1. PICK e \in execs : e.task = f.task /\ e.token = f.token /\ e.stage = f.stage
      BY DEF Quiet, Descends
    <3>2. \A g \in execs : g.token = e.token => g = e
      BY DEF UniqueTokens
    <3> QED BY <2>1, <2>2, <3>1, <3>2 DEF PoolTranscribes
  <2>3. ASSUME NEW p \in asrPool', NEW c \in pending["web"] PROVE c.after.token # p[2]
    BY <2>1 DEF PoolTranscribes, UniqueTokens
  <2> QED BY <2>2, <2>3 DEF PoolTranscribes, Quiet
<1>7. CancelledHasOwner'
  BY <1>2 DEF CancelledHasOwner, Mild, Loose
<1>8. WebRenders'
  BY DEF WebRenders, Quiet, Descends
<1> QED BY <1>4, <1>5, <1>6, <1>7, <1>8, <1>5a

\* A claim by the worker draws a token that nothing remembers.
LEMMA ClaimSound ==
  ASSUME TypeOK, OpenRequests, WebRenders, OwnersKnown, PoolTranscribes, CancelledHasOwner,
         NEW t \in Tasks, PopAndClaim(t)
  PROVE  /\ TicksRead' /\ OpenRequests' /\ WebRenders'
         /\ OwnersKnown' /\ PoolTranscribes' /\ CancelledHasOwner'
<1> DEFINE active == ActiveStage(task[t].stage)
           row == Claimed(task[t], active, worker, FreshToken)
           new == [task |-> t, token |-> row.token, stage |-> active,
                   kind |-> "worker", phase |-> "claimed"]
<1>1. /\ active \in ActiveStages /\ active \in Stages /\ worker \in Nat
      /\ FreshToken \in Tokens /\ FreshToken \notin TokensInUse /\ task[t] \in Row
  BY StageFacts, WorkerType, FreshTokenFacts DEF PopAndClaim, TypeOK
<1>2. row.stage = active /\ row.token = FreshToken /\ row.owner = worker
  <2> HIDE DEF active
  <2> QED BY <1>1, ClaimedType
<1>3. /\ task' = [task EXCEPT ![t] = row] /\ execs' = execs \cup {new}
      /\ asrPool' = asrPool /\ pending' = pending /\ worker' = worker
  BY DEF PopAndClaim, bounds, worker
<1>4. new.task = t /\ new.token = FreshToken /\ new.kind = "worker"
  BY <1>2
<1>5. \A e \in execs : e.token # FreshToken /\ e.task \in Tasks
  BY <1>1 DEF TokensInUse, TypeOK, Execution
<1>6. \A p \in asrPool : p[2] # FreshToken /\ p[1] \in Tasks
  BY <1>1 DEF TokensInUse, TypeOK
<1>7. \A c \in pending["web"] : c.task \in Tasks /\ c.after.token # FreshToken
  BY <1>1 DEF TypeOK, Writers, Change, TokensInUse
<1> HIDE DEF row, new
<1>8. \A u \in Tasks : (u = t /\ task'[u] = row) \/ (u # t /\ task'[u] = task[u])
  BY <1>3 DEF TypeOK
<1>9. OpenRequests'
  BY <1>2, <1>3, <1>7, <1>8 DEF OpenRequests
<1>10. OwnersKnown'
  <2>1. ASSUME NEW e \in execs, task'[e.task].token = e.token
        PROVE  task'[e.task].owner = worker \/ (e.kind = "web" /\ task'[e.task].owner = Null)
    BY <1>2, <1>5, <1>8, <2>1 DEF OwnersKnown
  <2>2. task'[new.task].owner = worker
    BY <1>2, <1>4, <1>8
  <2>3. ASSUME NEW p \in asrPool, task'[p[1]].token = p[2]
        PROVE  task'[p[1]].owner = worker
    BY <1>2, <1>6, <1>8, <2>3 DEF OwnersKnown
  <2> QED BY <1>3, <2>1, <2>2, <2>3 DEF OwnersKnown
<1>11. PoolTranscribes'
  BY <1>3, <1>4, <1>6 DEF PoolTranscribes
<1>12. CancelledHasOwner'
  <2>1. row.stage # "CANCELLING"
    BY <1>1, <1>2 DEF ActiveStages
  <2> QED BY <1>8, <2>1 DEF CancelledHasOwner
<1>13. WebRenders'
  BY <1>3, <1>4 DEF WebRenders
<1>14. TicksRead'
  BY <1>3 DEF PopAndClaim, SchedulerFree, TicksRead
<1> QED BY <1>9, <1>10, <1>11, <1>12, <1>13, <1>14

\* A web request reads a row and draws the token it will write.
LEMMA RequestSound ==
  ASSUME TypeOK, TicksRead, OpenRequests, WebRenders, OwnersKnown, PoolTranscribes,
         CancelledHasOwner, NEW t \in Tasks, RequestRender(t)
  PROVE  /\ TicksRead' /\ OpenRequests' /\ WebRenders'
         /\ OwnersKnown' /\ PoolTranscribes' /\ CancelledHasOwner'
<1> DEFINE claim == Claimed(Enqueued(task[t], "QUEUED_FOR_RENDER"), "RENDERING", worker, FreshToken)
           new   == [task |-> t, before |-> task[t], after |-> claim]
<1>1. /\ "RENDERING" \in Stages /\ Enqueued(task[t], "QUEUED_FOR_RENDER") \in Row
      /\ worker \in Nat /\ FreshToken \in Tokens /\ FreshToken \notin TokensInUse
  BY RowOps, RestingStages, WorkerType, FreshTokenFacts DEF RequestRender, TypeOK, Stages, ActiveStages
<1>2. claim.stage = "RENDERING" /\ claim.token = FreshToken /\ claim.owner = worker
  BY <1>1, ClaimedType
<1>3. /\ task' = task /\ execs' = execs /\ asrPool' = asrPool /\ worker' = worker
      /\ pending'["web"] = {new} /\ pending'["scheduler"] = pending["scheduler"]
  BY DEF RequestRender, db, worker, TypeOK, Writers
<1>4. task[t].stage # "RENDERING"
  BY DEF RequestRender, ReviewableStages
<1>5. /\ \A p \in asrPool : p[2] # FreshToken
      /\ \A u \in Tasks : task[u].token # FreshToken
  BY <1>1 DEF TokensInUse
<1> HIDE DEF claim
<1>6. OpenRequests'
  BY <1>2, <1>3, <1>4, <1>5 DEF OpenRequests
<1>7. PoolTranscribes'
  BY <1>2, <1>3, <1>5 DEF PoolTranscribes
<1> QED BY <1>3, <1>6, <1>7 DEF OwnersKnown, CancelledHasOwner, WebRenders, TicksRead

\* The request writes its claim over whatever the row has become.
LEMMA RenderSound ==
  ASSUME TypeOK, PendingSound, UniqueTokens, TicksRead, OpenRequests, WebRenders, OwnersKnown,
         PoolTranscribes, CancelledHasOwner, FlushRenderRequest
  PROVE  /\ TicksRead' /\ OpenRequests' /\ WebRenders'
         /\ OwnersKnown' /\ PoolTranscribes' /\ CancelledHasOwner'
<1> DEFINE cs == pending["web"]
           ChangeOf(t) == CHOOSE c \in cs : c.task = t
           Started(c) == [task |-> c.task, token |-> c.after.token, stage |-> "RENDERING",
                          kind |-> "web", phase |-> "claimed"]
<1>1. /\ cs \subseteq Change
      /\ \A c, d \in cs : c = d
      /\ \A c \in cs, e \in execs : e.token # c.after.token
  BY DEF TypeOK, Writers, UniqueTokens
<1>2. /\ execs' = execs \cup {Started(c) : c \in cs}
      /\ pending'["web"] = {} /\ pending'["scheduler"] = pending["scheduler"]
      /\ asrPool' = asrPool /\ worker' = worker
      /\ task' = [t \in Tasks |-> IF t \in {c.task : c \in cs}
                                  THEN Overlaid(task[t], ChangeOf(t)) ELSE task[t]]
  BY DEF FlushRenderRequest, Flush, TypeOK, Writers, bounds, worker
<1>3. ASSUME NEW c \in cs
      PROVE  /\ c.task \in Tasks
             /\ task'[c.task].token = c.after.token
             /\ task'[c.task].owner \in {Null, worker}
             /\ task'[c.task].stage = "RENDERING"
  <2>1. c \in Change /\ c.task \in Tasks
    BY <1>1 DEF Change
  <2>2. ChangeOf(c.task) = c
    BY <1>1
  <2>3. task'[c.task] = Overlaid(task[c.task], c)
    BY <1>2, <2>1, <2>2
  <2>4. /\ c.after.owner = worker /\ c.after.stage = "RENDERING" /\ c.before.stage # "RENDERING"
        /\ c.before.owner = worker => task[c.task].owner \in {Null, worker}
        /\ c.before.token # c.after.token
    BY DEF OpenRequests, PendingSound
  <2> HIDE DEF cs, ChangeOf
  <2>5. /\ Overlaid(task[c.task], c).token = c.after.token
        /\ Overlaid(task[c.task], c).stage = "RENDERING"
    BY <2>4 DEF Overlaid
  <2>6. Overlaid(task[c.task], c).owner \in {Null, worker}
    BY <2>4 DEF Overlaid
  <2> QED BY <2>1, <2>3, <2>5, <2>6
<1>4. \A c \in cs : /\ Started(c).task = c.task /\ Started(c).token = c.after.token
                   /\ Started(c).stage = "RENDERING" /\ Started(c).kind = "web"
  OBVIOUS
<1>5. \A t \in Tasks : task'[t] = task[t] \/ \E c \in cs : c.task = t
  BY <1>2
<1>6. \A e \in execs : e.task \in Tasks
  BY DEF TypeOK, Execution
<1>7. \A p \in asrPool : p[1] \in Tasks
  BY DEF TypeOK
<1>8. \A c \in cs, p \in asrPool : c.after.token # p[2]
  BY DEF PoolTranscribes
<1> HIDE DEF cs, Started
<1>8a. \A f \in execs' : f \in execs \/ \E c \in cs : f = Started(c)
  BY <1>2
<1>9. OpenRequests'
  BY <1>2 DEF OpenRequests
<1>10. OwnersKnown'
  <2>1. ASSUME NEW e \in execs, task'[e.task].token = e.token
        PROVE  task'[e.task].owner = worker \/ (e.kind = "web" /\ task'[e.task].owner = Null)
    BY <1>1, <1>3, <1>5, <1>6, <2>1 DEF OwnersKnown
  <2>2. ASSUME NEW c \in cs
        PROVE  /\ Started(c).kind = "web"
               /\ task'[Started(c).task].owner \in {Null, worker}
    BY <1>3, <1>4
  <2>3. ASSUME NEW p \in asrPool, task'[p[1]].token = p[2]
        PROVE  task'[p[1]].owner = worker
    BY <1>3, <1>5, <1>7, <1>8, <2>3 DEF OwnersKnown
  <2>4. \A f \in execs' : task'[f.task].token = f.token
          => task'[f.task].owner = worker \/ (f.kind = "web" /\ task'[f.task].owner = Null)
    BY <1>8a, <2>1, <2>2
  <2> QED BY <1>2, <2>3, <2>4 DEF OwnersKnown
<1>11. PoolTranscribes'
  BY <1>2, <1>4, <1>8 DEF PoolTranscribes
<1>12. CancelledHasOwner'
  <2>1. ASSUME NEW t \in Tasks, task'[t].stage = "CANCELLING" PROVE task'[t] = task[t]
    BY <1>3, <1>5, <2>1
  <2> QED BY <2>1 DEF CancelledHasOwner
<1>13. WebRenders'
  BY <1>2, <1>4 DEF WebRenders
<1>14. TicksRead'
  <2>1. ASSUME NEW d \in pending["scheduler"], NEW e \in execs, e.kind = "worker",
               e.task = d.task, task'[d.task].token = e.token
        PROVE  d.before.token = e.token
    BY <1>1, <1>3, <1>5, <1>6, <2>1 DEF TicksRead
  <2>2. ASSUME NEW d \in pending["scheduler"], NEW p \in asrPool,
               p[1] = d.task, task'[d.task].token = p[2]
        PROVE  d.before.token = p[2]
    BY <1>3, <1>5, <1>7, <1>8, <2>2 DEF TicksRead
  <2>3. \A f \in execs' : f \in execs \/ f.kind = "web"
    BY <1>4, <1>8a
  <2>4. pending'["scheduler"] = pending["scheduler"] /\ asrPool' = asrPool
    BY <1>2
  <2>5. \A d \in pending["scheduler"], f \in execs' :
          f.kind = "worker" /\ f.task = d.task /\ task'[d.task].token = f.token
            => d.before.token = f.token
    BY <2>1, <2>3
  <2> QED BY <2>2, <2>4, <2>5 DEF TicksRead
<1> QED BY <1>9, <1>10, <1>11, <1>12, <1>13, <1>14

\* The invariant is inductive, together with types and tokens.
LEMMA LeaseSoundStep ==
  ASSUME TypeOK, PendingSound, UniqueTokens, LeaseSound, [Next]_vars
  PROVE  LeaseSound'
<1>1. TypeOK' /\ OpenTicks'
  BY TypeStep, TicksStep DEF LeaseSound
<1>2. CASE Restart
  <2>1. /\ execs' = {} /\ asrPool' = {} /\ task' = task
        /\ pending'["web"] = {} /\ pending'["scheduler"] = {}
    BY <1>2 DEF Restart, db, Writers
  <2>2. TicksRead' /\ OpenRequests' /\ WebRenders' /\ OwnersKnown' /\ PoolTranscribes'
    BY <2>1 DEF TicksRead, OpenRequests, WebRenders, OwnersKnown, PoolTranscribes
  <2>3. CancelledHasOwner'
    BY <2>1 DEF LeaseSound, CancelledHasOwner
  <2> QED BY <1>1, <2>2, <2>3 DEF LeaseSound
<1>3. CASE Claiming
  BY <1>1, <1>3, ClaimSound, RequestSound, RenderSound DEF Claiming, LeaseSound
<1>4. CASE ~Claiming /\ ~Restart
  BY <1>1, <1>4, StepQuiet, QuietSound DEF LeaseSound
<1> QED BY <1>2, <1>3, <1>4

-----------------------------------------------------------------------------
(* Who charges crashes.                                                    *)

\* Only recovery, and the end of an execution whose model process crashed,
\* raise a budget; every other step leaves it or clears it.
LEMMA OnlyCrashesCount ==
  ASSUME TypeOK, [Next]_vars, NEW t \in Tasks, NEW s \in ActiveStages,
         budget'[t][s].consumed > budget[t][s].consumed
  PROVE  RecoverStale \/ \E e \in execs : AsrProcessCrash(e)
<1>1. budget \in [Tasks -> [ActiveStages -> Budget]] /\ budget[t][s].consumed \in Nat
  BY DEF TypeOK, Budget
<1>2. budget'[t][s] # budget[t][s] /\ budget'[t][s] # NoBudget
  BY <1>1 DEF NoBudget
<1>3. budget' # budget
  BY <1>2
<1>4. ASSUME NEW e \in execs PROVE budget' # BudgetCleared(e)
  BY <1>1, <1>2 DEF BudgetCleared
<1>5. ASSUME NEW w \in Writers PROVE ~Flush(w)
  BY <1>2 DEF Flush
<1>6. ASSUME NEW ts, NEW next PROVE ~Decide(ts, next)
  BY <1>3 DEF Decide, db
<1>7. CASE SchedulerStep
  BY <1>3, <1>5, <1>6, <1>7
     DEF SchedulerStep, AdvanceRecorded, AdvanceTranscribed, AdvanceCandidate, AdvanceApproved,
         AdvanceRendered, SyncUploads, Advance, FlushScheduler, Writers, AdvanceAwaitingReview,
         RetryExpired, PopAndClaim
<1>8. CASE UserStep
  <2>1. ASSUME NEW u \in Tasks PROVE ~RetryTask(u)
    BY <1>1, <1>2 DEF RetryTask
  <2>2. ASSUME NEW u \in Tasks PROVE ~(CancelTask(u) \/ SubmitReview(u) \/ RequestRender(u) \/ ConfirmPublished(u))
    BY <1>3 DEF CancelTask, SubmitReview, RequestRender, ConfirmPublished, db
  <2> QED BY <1>5, <1>8, <2>1, <2>2 DEF UserStep, FlushRenderRequest, Writers
<1>9. CASE Lifecycle
  BY <1>3, <1>9 DEF Lifecycle, RequestStop, ReleaseStoppedComputations, Start, Restart, db
<1>10. ASSUME NEW e \in execs, ExecutionStep(e) PROVE AsrProcessCrash(e)
  <2>1. ~Commit(e)
    BY <1>3, <1>4 DEF Commit, CommitTranscript, CommitSignalPass, CommitHighlight, CommitRender,
                      CommitPublishAndAdvance
  <2>2. ~(RefuseUpload(e) \/ LoseLease(e) \/ FailExecution(e) \/ ShutdownInterrupts(e) \/ CancelRender(e))
    BY <1>3 DEF RefuseUpload, LoseLease, FailExecution, ShutdownInterrupts, CancelRender, db
  <2>3. ~(\/ ReleaseUnstartedClaim(e) \/ AbandonRequest(e) \/ StartExecution(e) \/ Heartbeat(e)
          \/ SaveAsrCheckpoint(e) \/ SendUpload(e) \/ SettleExecution(e))
    BY <1>3 DEF ReleaseUnstartedClaim, AbandonRequest, StartExecution, Heartbeat,
                SaveAsrCheckpoint, SendUpload, SettleExecution, db
  <2>4. ~FlushPublisher(e)
    BY <1>5 DEF FlushPublisher, Writers
  <2> QED BY <1>10, <2>1, <2>2, <2>3, <2>4 DEF ExecutionStep, BodyStep
<1>12. ASSUME NEW u \in Tasks, Age(u) \/ RecordUploadResult(u) PROVE FALSE
  BY <1>3, <1>12 DEF Age, RecordUploadResult
<1>13. ASSUME NEW p \in asrPool, PoolReap(p) PROVE FALSE
  BY <1>3, <1>13 DEF PoolReap, db
<1>14. CASE UNCHANGED vars
  BY <1>3, <1>14 DEF vars, db
<1> QED BY <1>7, <1>8, <1>9, <1>10, <1>12, <1>13, <1>14 DEF Next

\* Recovery finds the threads under a lease, and its model process, unless the
\* row names no owner; an execution that reports a crash of its model process
\* works under the lease itself, and alone.
LEMMA ChargedIsGone ==
  ASSUME TypeOK, UniqueTokens, LeaseSound, [Next]_vars, NEW t \in Tasks, NEW s \in ActiveStages,
         NEW k \in Tokens, budget'[t][s].consumed > budget[t][s].consumed, task[t].token = k
  PROVE  /\ ThreadOf(t, k)' => Disowned(t, k)
         /\ <<t, k>> \in asrPool' => ThreadOf(t, k)
<1>1. budget \in [Tasks -> [ActiveStages -> Budget]] /\ budget[t][s].consumed \in Nat
  BY DEF TypeOK, Budget
<1>2. CASE RecoverStale
  <2>1. ~Busy(t) /\ execs' = execs /\ asrPool' = asrPool
    BY <1>1, <1>2 DEF RecoverStale, proc
  <2>2. task[t].owner = worker => ~Registered(t, k) /\ ~InPool(t, k)
    BY <2>1, NullIsNoToken DEF Busy
  <2>3. ThreadOf(t, k) => Registered(t, k)
    BY DEF ThreadOf, Alive, Registered
  <2>4. ThreadOf(t, k) => task[t].owner = worker \/ Disowned(t, k)
    BY DEF ThreadOf, Disowned, Alive, LeaseSound, OwnersKnown
  <2>5. <<t, k>> \in asrPool => task[t].owner = worker
    BY DEF LeaseSound, OwnersKnown
  <2>6. ThreadOf(t, k)' => ThreadOf(t, k)
    BY <2>1 DEF ThreadOf, Alive
  <2> QED BY <2>1, <2>2, <2>3, <2>4, <2>5, <2>6 DEF InPool
<1>3. ASSUME NEW e \in execs, AsrProcessCrash(e)
      PROVE  ~ThreadOf(t, k)' /\ ThreadOf(t, k)
  <2>1. budget' = [budget EXCEPT ![e.task][e.stage] = CrashCounted(budget[e.task][e.stage], e.token)]
    BY <1>3 DEF AsrProcessCrash
  <2>2. e.task = t
    BY <1>1, <2>1
  <2>3. e.token = k
    BY <1>3, <2>2 DEF AsrProcessCrash, Owns
  <2>4. Alive(e) /\ execs' = Moved(e, "ended")
    BY <1>3 DEF AsrProcessCrash, BodyEnds
  <2>5. InPhase(e, "ended").phase = "ended"
    BY ExecsType DEF InPhase, Execution, Phases
  <2>6. \A f \in execs' : f.token = k => f.phase = "ended"
    BY <2>3, <2>4, <2>5 DEF Moved, UniqueTokens
  <2> QED BY <2>2, <2>3, <2>4, <2>6 DEF ThreadOf, Alive
<1> QED BY <1>2, <1>3, OnlyCrashesCount

-----------------------------------------------------------------------------
(* Who reports cancellations.                                              *)

\* A cancellation becomes final only in the two steps that look for what
\* still works, and both find everything that does.
LEMMA SettledIsGone ==
  ASSUME TypeOK, PendingSound, UniqueTokens, LeaseSound, [Next]_vars,
         NEW t \in Tasks, NEW k \in Tokens,
         task[t].stage = "CANCELLING", task[t].token = k, task'[t].stage = "CANCELLED"
  PROVE  ~Working(t, k)'
<1>1. task'[t] # task[t] /\ task[t] \in Row
  BY DEF TypeOK
<1>2. ~Restart
  BY <1>1 DEF Restart, db
<1>3. ~Claiming
  <2>1. ASSUME NEW u \in Tasks, PopAndClaim(u) PROVE FALSE
    <3>1. t # u
      BY <2>1 DEF PopAndClaim, QueueStages
    <3> QED BY <1>1, <2>1, <3>1 DEF PopAndClaim, TypeOK
  <2>2. ASSUME NEW u \in Tasks, RequestRender(u) PROVE FALSE
    BY <1>1, <2>2 DEF RequestRender, db
  <2>3. CASE FlushRenderRequest
    <3> DEFINE cs == pending["web"]
               ChangeOf(u) == CHOOSE c \in cs : c.task = u
    <3>1. task' = [u \in Tasks |-> IF u \in {c.task : c \in cs}
                                  THEN Overlaid(task[u], ChangeOf(u)) ELSE task[u]]
      BY <2>3 DEF FlushRenderRequest, Flush
    <3>2. ChangeOf(t) \in cs /\ task'[t] = Overlaid(task[t], ChangeOf(t))
      BY <1>1, <3>1
    <3>3. ASSUME NEW c \in cs PROVE Overlaid(task[t], c).stage = "RENDERING"
      BY DEF Overlaid, LeaseSound, OpenRequests
    <3> QED BY <3>2, <3>3
  <2> QED BY <2>1, <2>2, <2>3 DEF Claiming
<1>4. Settling
  BY <1>2, <1>3, StepQuiet DEF LeaseSound, Calm
<1>5. CASE RecoverStale
  <2>1. ~Busy(t) /\ execs' = execs /\ asrPool' = asrPool
    BY <1>1, <1>5 DEF RecoverStale, proc, ActiveStages, SettledStages
  <2>2. ASSUME Working(t, k) PROVE FALSE
    <3>1. task[t].owner \in {Null, worker}
      BY <2>2 DEF Working, ThreadOf, Alive, LeaseSound, OwnersKnown
    <3>2. task[t].owner = worker
      BY <3>1 DEF LeaseSound, CancelledHasOwner
    <3>3. Registered(t, k) \/ InPool(t, k)
      BY <2>2 DEF Working, ThreadOf, Alive, Registered, InPool
    <3> QED BY <2>1, <3>2, <3>3, NullIsNoToken DEF Busy
  <2> QED BY <2>1, <2>2 DEF Working, ThreadOf, Alive
<1>6. ASSUME NEW e \in execs, SettleExecution(e) PROVE ~Working(t, k)'
  <2>1. /\ e.task = t /\ task[t].token = e.token
        /\ ~(e.stage = "TRANSCRIBING" /\ InPool(e.task, e.token))
    BY <1>1, <1>6 DEF SettleExecution, TypeOK
  <2>2. execs' = execs \ {e} /\ asrPool' = asrPool
    BY <1>6 DEF SettleExecution
  <2>3. \A f \in execs' : f.token # k
    BY <2>1, <2>2 DEF UniqueTokens
  <2>4. <<t, k>> \notin asrPool
    BY <2>1 DEF InPool, LeaseSound, PoolTranscribes
  <2> QED BY <2>2, <2>3, <2>4 DEF Working, ThreadOf
<1> QED BY <1>4, <1>5, <1>6 DEF Settling

-----------------------------------------------------------------------------
(* The steps as Leases describes them.                                     *)

\* Rows that stay keep their leases and cancellations.
LEMMA SameViews ==
  ASSUME NEW t \in Tasks, task'[t] = task[t]
  PROVE  LeaseOf(t)' = LeaseOf(t) /\ CancelOf(t)' = CancelOf(t)
BY DEF LeaseOf, CancelOf

\* What the phases of the executions come to.
LEMMA PairFacts ==
  ASSUME UniqueTokens, NEW phases
  PROVE  /\ \A f \in execs : f.phase \in phases => <<f.task, f.token>> \in PairsIn(phases)
         /\ \A p \in PairsIn(phases) :
              \E f \in execs : f.phase \in phases /\ p = <<f.task, f.token>> /\ p[2] = f.token
         /\ \A f \in execs : f.phase \notin phases => <<f.task, f.token>> \notin PairsIn(phases)
<1>1. \A p \in PairsIn(phases) :
        \E f \in execs : f.phase \in phases /\ p = <<f.task, f.token>> /\ p[2] = f.token
  BY DEF PairsIn
<1>2. \A f \in execs : f.phase \in phases => <<f.task, f.token>> \in PairsIn(phases)
  BY DEF PairsIn
<1>3. ASSUME NEW f \in execs, f.phase \notin phases, <<f.task, f.token>> \in PairsIn(phases)
      PROVE  FALSE
  <2>1. PICK g \in execs : g.phase \in phases /\ <<f.task, f.token>> = <<g.task, g.token>>
    BY <1>1, <1>3
  <2> QED BY <1>3, <2>1 DEF UniqueTokens
<1> QED BY <1>1, <1>2, <1>3

LEMMA PairsMoved ==
  ASSUME TypeOK, UniqueTokens, NEW e \in execs, NEW phase \in Phases, NEW phases,
         execs' = Moved(e, phase)
  PROVE  PairsIn(phases)' = (PairsIn(phases) \ {<<e.task, e.token>>})
                              \cup (IF phase \in phases THEN {<<e.task, e.token>>} ELSE {})
<1> DEFINE moved == InPhase(e, phase)
<1>1. moved.task = e.task /\ moved.token = e.token /\ moved.phase = phase
  BY ExecsType DEF InPhase, Execution
<1>2. execs' = (execs \ {e}) \cup {moved}
  BY DEF Moved
<1>3. \A f \in execs \ {e} : <<f.task, f.token>> # <<e.task, e.token>>
  BY DEF UniqueTokens
<1> HIDE DEF moved
<1> QED BY <1>1, <1>2, <1>3 DEF PairsIn

LEMMA PairsGone ==
  ASSUME UniqueTokens, NEW e \in execs, NEW phases, execs' = execs \ {e}
  PROVE  PairsIn(phases)' = PairsIn(phases) \ {<<e.task, e.token>>}
<1>1. \A f \in execs \ {e} : <<f.task, f.token>> # <<e.task, e.token>>
  BY DEF UniqueTokens
<1> QED BY <1>1 DEF PairsIn

LEMMA PairsSame ==
  ASSUME NEW phases, execs' = execs
  PROVE  PairsIn(phases)' = PairsIn(phases)
BY DEF PairsIn

LEMMA PairsNew ==
  ASSUME NEW new, new.phase = "claimed", execs' = execs \cup {new}
  PROVE  /\ PairsIn({"claimed"})' = PairsIn({"claimed"}) \cup {<<new.task, new.token>>}
         /\ PairsIn({"running", "sent", "refused"})' = PairsIn({"running", "sent", "refused"})
         /\ PairsIn({"refused"})' = PairsIn({"refused"})
BY DEF PairsIn

\* A step that leaves the work alone and settles no cancellation too early.
LEMMA ManageStep ==
  ASSUME TypeOK, ActiveHasLease', \A t \in Tasks : Loose(task[t], task'[t]),
         \A t \in Tasks : task[t].stage = "CANCELLING" /\ task'[t].stage = "CANCELLED"
                            => ~Working(t, task[t].token),
         PairsIn({"claimed"})' = PairsIn({"claimed"}),
         PairsIn({"running", "sent", "refused"})' = PairsIn({"running", "sent", "refused"}),
         PairsIn({"refused"})' = PairsIn({"refused"}),
         asrPool' = asrPool
  PROVE  Promise!Manage
<1>1. ASSUME NEW t \in Tasks PROVE LeaseOf(t)' \in {LeaseOf(t), Null}
  BY DEF Loose, LeaseOf
<1>2. ASSUME NEW t \in Tasks, CancelOf(t)' = "asked" PROVE LeaseOf(t)' # Null
  <2>1. task'[t].stage = "CANCELLING"
    BY <1>2 DEF CancelOf
  <2>2. task'[t].stage \in LeasedStages /\ task'[t].token # Null
    BY <2>1 DEF ActiveHasLease, HasLease, LeasedStages
  <2> QED BY <2>2 DEF LeaseOf
<1>3. ASSUME NEW t \in Tasks, CancelOf(t) = "asked", CancelOf(t)' = "done"
      PROVE  <<t, LeaseOf(t)>> \notin PairsIn({"running", "sent", "refused"}) \cup asrPool
  <2>1. task[t].stage = "CANCELLING" /\ task'[t].stage = "CANCELLED"
    BY <1>3 DEF CancelOf
  <2>2. LeaseOf(t) = task[t].token
    BY <2>1 DEF LeaseOf, LeasedStages
  <2>3. ~Working(t, task[t].token)
    BY <2>1
  <2> QED BY <2>2, <2>3 DEF Working, ThreadOf, Alive, PairsIn
<1> QED BY <1>1, <1>2, <1>3 DEF Promise!Manage, Promise!work, Promise!AtWork

\* The steps that change nothing of what works, and their rows.
LEMMA ManageSteps ==
  ASSUME TypeOK, PendingSound, ActiveHasLease, UniqueTokens, LeaseSound, [Next]_vars,
         ~Claiming, ~Restart,
         PairsIn({"claimed"})' = PairsIn({"claimed"}),
         PairsIn({"running", "sent", "refused"})' = PairsIn({"running", "sent", "refused"}),
         PairsIn({"refused"})' = PairsIn({"refused"}),
         asrPool' = asrPool
  PROVE  Promise!Manage
<1>1. ActiveHasLease' /\ \A t \in Tasks : Loose(task[t], task'[t])
  BY LeaseStep, StepQuiet DEF LeaseSound, Quiet, Mild
<1>2. ASSUME NEW t \in Tasks, task[t].stage = "CANCELLING", task'[t].stage = "CANCELLED"
      PROVE  ~Working(t, task[t].token)
  <2>1. task[t].token \in Tokens
    BY <1>2 DEF ActiveHasLease, HasLease, LeasedStages, TypeOK, Row
  <2>2. PICK k \in Tokens : k = task[t].token
    BY <2>1
  <2>3. ~Working(t, k)'
    BY <1>2, <2>2, SettledIsGone
  <2>4. ~ThreadOf(t, k)' /\ <<t, k>> \notin asrPool
    BY <2>3 DEF Working
  <2>5. <<t, k>> \notin PairsIn({"running", "sent", "refused"})'
    BY <2>4 DEF ThreadOf, Alive, PairsIn
  <2>6. ~Working(t, k)
    BY <2>4, <2>5 DEF Working, ThreadOf, Alive, PairsIn
  <2> QED BY <2>2, <2>6
<1> QED BY <1>1, <1>2, ManageStep

LEMMA WorkerIsSomebody == ASSUME TypeOK PROVE worker # Null
BY BoundsAssumption DEF TypeOK, worker, Null

\* What the holder of a lease makes of its row: it is done with it, or it
\* asks itself to be cancelled.
LeftBehind(e, row) ==
  \/ Freed(row) /\ row.stage # "CANCELLED"
  \/ row.stage = "CANCELLING" /\ row.token = e.token

LEMMA RowsLeft ==
  ASSUME NEW row \in Row, NEW e
  PROVE  /\ \A s \in Stages \ LeasedStages :
              s # "CANCELLED" => LeftBehind(e, Enqueued(row, s)) /\ LeftBehind(e, Resumed(row, s))
         /\ \A s \in Stages \ LeasedStages, asr \in AsrModes :
              s # "CANCELLED" => LeftBehind(e, [Enqueued(row, s) EXCEPT !.asr = asr])
         /\ \A permanent \in BOOLEAN : LeftBehind(e, MarkedFailed(row, permanent))
         /\ LeftBehind(e, WithoutAsr(row))
         /\ /\ row.stage \in CancellableActiveStages /\ row.owner # Null
            /\ row.token = e.token /\ e.token # Null
            => LeftBehind(e, CancellationRequested(row))
<1>1. ASSUME NEW s \in Stages \ LeasedStages, s # "CANCELLED"
      PROVE  /\ LeftBehind(e, Enqueued(row, s)) /\ LeftBehind(e, Resumed(row, s))
             /\ \A asr \in AsrModes : LeftBehind(e, [Enqueued(row, s) EXCEPT !.asr = asr])
  <2>1. Freed(Enqueued(row, s)) /\ Freed(Resumed(row, s))
    BY RowsFreed
  <2>2. Enqueued(row, s).stage = s /\ Resumed(row, s).stage = s /\ Enqueued(row, s) \in Row
    BY RowLeases, RowOps
  <2>3. ASSUME NEW asr \in AsrModes
        PROVE  /\ Freed([Enqueued(row, s) EXCEPT !.asr = asr])
               /\ [Enqueued(row, s) EXCEPT !.asr = asr].stage = s
    BY <2>1, <2>2 DEF Freed, Row
  <2> QED BY <1>1, <2>1, <2>2, <2>3 DEF LeftBehind
<1>2. ASSUME NEW permanent \in BOOLEAN PROVE LeftBehind(e, MarkedFailed(row, permanent))
  <2>1. Freed(MarkedFailed(row, permanent))
    BY RowsFreed
  <2>2. MarkedFailed(row, permanent).stage # "CANCELLED"
    BY RowLeases
  <2> QED BY <2>1, <2>2 DEF LeftBehind
<1>3. LeftBehind(e, WithoutAsr(row))
  <2>1. Freed(WithoutAsr(row))
    BY RowsFreed
  <2>2. WithoutAsr(row).stage # "CANCELLED"
    BY RowLeases
  <2> QED BY <2>1, <2>2 DEF LeftBehind
<1>4. ASSUME row.stage \in CancellableActiveStages, row.owner # Null,
             row.token = e.token, e.token # Null
      PROVE  LeftBehind(e, CancellationRequested(row))
  <2> DEFINE marked == IF row.stage \in {"TRANSIENT_FAILED", "STALE"}
                       THEN row ELSE [row EXCEPT !.failed = row.stage]
  <2>1. marked \in Row /\ marked.token = row.token
    BY DEF Row
  <2>2. CancellationRequested(row) = Enqueued(marked, "CANCELLING")
    BY <1>4 DEF CancellationRequested
  <2> HIDE DEF marked
  <2>3. /\ Enqueued(marked, "CANCELLING").token = marked.token
        /\ Enqueued(marked, "CANCELLING").stage = "CANCELLING"
    BY <2>1 DEF Enqueued, Row
  <2> QED BY <1>4, <2>1, <2>2, <2>3 DEF LeftBehind
<1> QED BY <1>1, <1>2, <1>3, <1>4

\* What the end of a body does to its row, and to what works, unless it is
\* that of a refused publication.
LEMMA BodyWrites ==
  ASSUME TypeOK, WebRenders, NEW e \in execs, BodyStep(e), ~RefuseUpload(e), ~FlushPublisher(e)
  PROVE  /\ Alive(e) /\ e.phase # "refused" /\ execs' = Moved(e, "ended")
         /\ asrPool' \in {asrPool, asrPool \ {<<e.task, e.token>>}}
         /\ \/ task' = task
            \/ \E row : /\ Owns(e) /\ LeftBehind(e, row)
                        /\ task' = [task EXCEPT ![e.task] = row]
<1> DEFINE row == task[e.task]
           Ended == /\ Alive(e) /\ e.phase # "refused" /\ execs' = Moved(e, "ended")
                    /\ asrPool' \in {asrPool, asrPool \ {<<e.task, e.token>>}}
           Written == \E r : /\ Owns(e) /\ LeftBehind(e, r)
                             /\ task' = [task EXCEPT ![e.task] = r]
<1>1. row \in Row /\ e.task \in Tasks /\ e.stage \in ActiveStages /\ e.token \in Tokens
      /\ e.phase \in Phases
  BY ExecsType DEF Phases, Execution
<1>2. ASSUME NEW r, NEW b, BodyEnds(e, r, b)
      PROVE  Ended /\ task' = [task EXCEPT ![e.task] = r]
  BY <1>2 DEF BodyEnds, PoolAfter
<1>3. ASSUME NEW r, NEW b, BodyEnds(e, r, b), Owns(e), LeftBehind(e, r)
      PROVE  Ended /\ Written
  BY <1>2, <1>3
<1>4. ASSUME NEW b, BodyEnds(e, row, b) PROVE Ended /\ task' = task
  BY <1>2, <1>4 DEF TypeOK
<1>5. /\ {"QUEUED_FOR_TRANS", "TRANSCRIBED", "CANDIDATE_CREATED", "COMPLETED", "RENDERED",
          "AWAITING_PUBLISH_CONFIRMATION"} \subseteq Stages \ LeasedStages
      /\ {"background", "settled", "hotspot"} \subseteq AsrModes
  BY RestingStages DEF AsrModes
<1>6. /\ \A s \in Stages \ LeasedStages :
           s # "CANCELLED" => LeftBehind(e, Enqueued(row, s)) /\ LeftBehind(e, Resumed(row, s))
      /\ \A s \in Stages \ LeasedStages, asr \in AsrModes :
           s # "CANCELLED" => LeftBehind(e, [Enqueued(row, s) EXCEPT !.asr = asr])
      /\ \A permanent \in BOOLEAN : LeftBehind(e, MarkedFailed(row, permanent))
      /\ LeftBehind(e, WithoutAsr(row))
  BY <1>1, RowsLeft
<1>7. Owns(e) /\ e.stage = "RENDERING" => LeftBehind(e, CancellationRequested(row))
  <2>1. SUFFICES ASSUME Owns(e), e.stage = "RENDERING"
                 PROVE  LeftBehind(e, CancellationRequested(row))
    OBVIOUS
  <2>2. /\ row.stage \in CancellableActiveStages /\ row.owner # Null
        /\ row.token = e.token /\ e.token # Null
    BY <1>1, <2>1, NullIsNoToken, WorkerIsSomebody DEF Owns, CancellableActiveStages
  <2> QED BY <1>1, <2>2, RowsLeft
<1> SUFFICES Ended /\ (task' = task \/ Written)
  OBVIOUS
<1> HIDE DEF Ended, Written, row
<1>8. CASE CommitTranscript(e)
  BY <1>3, <1>5, <1>6, <1>8 DEF CommitTranscript, row
<1>9. CASE CommitSignalPass(e)
  BY <1>3, <1>5, <1>6, <1>9 DEF CommitSignalPass, row
<1>10. CASE CommitHighlight(e)
  BY <1>3, <1>5, <1>6, <1>10 DEF CommitHighlight, row
<1>11. CASE CommitRender(e)
  BY <1>3, <1>5, <1>6, <1>11 DEF CommitRender, row
<1>12. CASE CommitPublishAndAdvance(e)
  <2>1. \/ BodyEnds(e, Enqueued(row, "COMPLETED"), FALSE)
        \/ BodyEnds(e, Enqueued(row, "AWAITING_PUBLISH_CONFIRMATION"), FALSE)
        \/ \E permanent \in BOOLEAN : BodyEnds(e, MarkedFailed(row, permanent), FALSE)
        \/ BodyEnds(e, row, FALSE)
    BY <1>12 DEF CommitPublishAndAdvance, row
  <2>2. Owns(e)
    BY <1>12 DEF CommitPublishAndAdvance
  <2> QED BY <1>3, <1>4, <1>5, <1>6, <2>1, <2>2
<1>14. CASE LoseLease(e)
  BY <1>4, <1>14 DEF LoseLease, row
<1>15. CASE FailExecution(e)
  BY <1>3, <1>6, <1>15 DEF FailExecution, row
<1>16. CASE AsrProcessCrash(e)
  BY <1>3, <1>6, <1>16 DEF AsrProcessCrash, row
<1>17. CASE ShutdownInterrupts(e)
  <2>1. ResumeStage(e.stage) \in Stages \ LeasedStages /\ ResumeStage(e.stage) # "CANCELLED"
    BY <1>1, StageFacts DEF ResumeStage, ActiveStages
  <2>2. Owns(e) /\ (BodyEnds(e, Resumed(row, ResumeStage(e.stage)), TRUE) \/ BodyEnds(e, row, TRUE))
    BY <1>17 DEF ShutdownInterrupts, row
  <2> QED BY <1>3, <1>4, <1>6, <2>1, <2>2
<1>18. CASE CancelRender(e)
  BY <1>3, <1>7, <1>18 DEF CancelRender, WebRenders, row
<1> QED BY <1>8, <1>9, <1>10, <1>11, <1>12, <1>14, <1>15, <1>16, <1>17, <1>18
        DEF BodyStep, Commit

\* The lease that e was given is the one of its row.
LEMMA OwnLease ==
  ASSUME TypeOK, NEW e \in execs, Owns(e)
  PROVE  LeaseOf(e.task) = e.token /\ CancelOf(e.task) = "no"
<1>1. e.stage \in ActiveStages
  BY ExecsType DEF Phases, Execution
<1> QED BY <1>1 DEF Owns, LeaseOf, CancelOf, LeasedStages, ActiveStages

LEMMA OtherRows ==
  ASSUME TypeOK, NEW t \in Tasks, NEW row, task' = [task EXCEPT ![t] = row]
  PROVE  /\ task'[t] = row
         /\ \A u \in Tasks \ {t} : task'[u] = task[u]
         /\ \A u \in Tasks \ {t} : LeaseOf(u)' = LeaseOf(u) /\ CancelOf(u)' = CancelOf(u)
<1>1. task'[t] = row /\ \A u \in Tasks \ {t} : task'[u] = task[u]
  BY DEF TypeOK
<1> QED BY <1>1, SameViews

\* A body ends.
LEMMA EndStep ==
  ASSUME TypeOK, WebRenders, UniqueTokens, NEW e \in execs, BodyStep(e),
         ~RefuseUpload(e), ~FlushPublisher(e)
  PROVE  \E t \in Tasks, k \in Tokens : Promise!End(t, k)
<1>1. e.task \in Tasks /\ e.token \in Tokens
  BY ExecsType DEF Phases, Execution
<1>2. /\ Alive(e) /\ e.phase # "refused" /\ execs' = Moved(e, "ended")
      /\ asrPool' \in {asrPool, asrPool \ {<<e.task, e.token>>}}
      /\ \/ task' = task
         \/ \E row : /\ Owns(e) /\ LeftBehind(e, row)
                     /\ task' = [task EXCEPT ![e.task] = row]
  BY BodyWrites
<1>3. /\ PairsIn({"claimed"})' = PairsIn({"claimed"}) \ {<<e.task, e.token>>}
      /\ PairsIn({"running", "sent", "refused"})' = PairsIn({"running", "sent", "refused"}) \ {<<e.task, e.token>>}
      /\ PairsIn({"refused"})' = PairsIn({"refused"}) \ {<<e.task, e.token>>}
  BY <1>2, PairsMoved DEF Phases
<1>4. /\ <<e.task, e.token>> \in PairsIn({"running", "sent", "refused"})
      /\ <<e.task, e.token>> \notin PairsIn({"claimed"})
      /\ <<e.task, e.token>> \notin PairsIn({"refused"})
  BY <1>2, PairFacts DEF Alive
<1>5. PairsIn({"claimed"})' = PairsIn({"claimed"}) /\ PairsIn({"refused"})' = PairsIn({"refused"})
  BY <1>3, <1>4
<1>6. \/ /\ task' = task
         /\ \A t \in Tasks : LeaseOf(t)' = LeaseOf(t) /\ CancelOf(t)' = CancelOf(t)
      \/ /\ LeaseOf(e.task) = e.token /\ CancelOf(e.task) = "no"
         /\ LeaseOf(e.task)' \in {e.token, Null}
         /\ \/ CancelOf(e.task)' = "no"
            \/ CancelOf(e.task)' = "asked" /\ LeaseOf(e.task)' = e.token
         /\ \A u \in Tasks \ {e.task} :
              task'[u] = task[u] /\ LeaseOf(u)' = LeaseOf(u) /\ CancelOf(u)' = CancelOf(u)
  <2>1. CASE task' = task
    BY <2>1, SameViews
  <2>2. ASSUME NEW row, Owns(e), LeftBehind(e, row), task' = [task EXCEPT ![e.task] = row]
        PROVE  /\ LeaseOf(e.task) = e.token /\ CancelOf(e.task) = "no"
               /\ LeaseOf(e.task)' \in {e.token, Null}
               /\ \/ CancelOf(e.task)' = "no"
                  \/ CancelOf(e.task)' = "asked" /\ LeaseOf(e.task)' = e.token
               /\ \A u \in Tasks \ {e.task} :
                    task'[u] = task[u] /\ LeaseOf(u)' = LeaseOf(u) /\ CancelOf(u)' = CancelOf(u)
    <3>1. task'[e.task] = row
      BY <1>1, <2>2, OtherRows
    <3>2. CASE Freed(row) /\ row.stage # "CANCELLED"
      <4>1. LeaseOf(e.task)' = Null /\ CancelOf(e.task)' = "no"
        BY <3>1, <3>2 DEF Freed, LeaseOf, CancelOf, LeasedStages
      <4> QED BY <1>1, <2>2, <4>1, OwnLease, OtherRows
    <3>3. CASE row.stage = "CANCELLING" /\ row.token = e.token
      <4>1. LeaseOf(e.task)' = e.token /\ CancelOf(e.task)' = "asked"
        BY <3>1, <3>3 DEF LeaseOf, CancelOf, LeasedStages
      <4> QED BY <1>1, <2>2, <4>1, OwnLease, OtherRows
    <3> QED BY <2>2, <3>2, <3>3 DEF LeftBehind
  <2> QED BY <1>2, <2>1, <2>2
<1>7. Promise!End(e.task, e.token)
  BY <1>1, <1>2, <1>3, <1>4, <1>5, <1>6 DEF Promise!End, Promise!OnlyTask
<1> QED BY <1>1, <1>7

\* A publication is refused.
LEMMA DecideStep ==
  ASSUME TypeOK, UniqueTokens, NEW e \in execs, RefuseUpload(e)
  PROVE  \E t \in Tasks, k \in Tokens : Promise!Decide(t, k)
<1>1. e.task \in Tasks /\ e.token \in Tokens
  BY ExecsType DEF Phases, Execution
<1>2. /\ e.phase = "running" /\ Owns(e) /\ execs' = Moved(e, "refused")
      /\ task' = task /\ asrPool' = asrPool
  BY DEF RefuseUpload, db
<1>3. /\ PairsIn({"claimed"})' = PairsIn({"claimed"}) \ {<<e.task, e.token>>}
      /\ PairsIn({"running", "sent", "refused"})' =
           (PairsIn({"running", "sent", "refused"}) \ {<<e.task, e.token>>}) \cup {<<e.task, e.token>>}
      /\ PairsIn({"refused"})' = (PairsIn({"refused"}) \ {<<e.task, e.token>>}) \cup {<<e.task, e.token>>}
  BY <1>2, PairsMoved DEF Phases
<1>4. /\ <<e.task, e.token>> \in PairsIn({"running", "sent", "refused"})
      /\ <<e.task, e.token>> \notin PairsIn({"claimed"}) /\ <<e.task, e.token>> \notin PairsIn({"refused"})
  BY <1>2, PairFacts
<1>5. /\ PairsIn({"claimed"})' = PairsIn({"claimed"})
      /\ PairsIn({"running", "sent", "refused"})' = PairsIn({"running", "sent", "refused"})
      /\ PairsIn({"refused"})' = PairsIn({"refused"}) \cup {<<e.task, e.token>>}
  BY <1>3, <1>4
<1>6. \A t \in Tasks : LeaseOf(t)' = LeaseOf(t) /\ CancelOf(t)' = CancelOf(t)
  BY <1>2, SameViews
<1>7. LeaseOf(e.task) = e.token /\ CancelOf(e.task) = "no"
  BY <1>2, OwnLease
<1>8. Promise!Decide(e.task, e.token)
  BY <1>1, <1>2, <1>4, <1>5, <1>6, <1>7 DEF Promise!Decide
<1> QED BY <1>1, <1>8

\* Its failure is written, whatever has become of the row.
LEMMA EndLateStep ==
  ASSUME TypeOK, PendingSound, OpenTicks, UniqueTokens, NEW e \in execs, FlushPublisher(e)
  PROVE  \E t \in Tasks, k \in Tokens : Promise!EndLate(t, k)
<1> DEFINE cs == pending["publisher"]
           ChangeOf(t) == CHOOSE c \in cs : c.task = t
<1>1. e.task \in Tasks /\ e.token \in Tokens
  BY ExecsType DEF Phases, Execution
<1>2. /\ e.phase = "refused" /\ execs' = Moved(e, "ended") /\ asrPool' = asrPool
      /\ {c.task : c \in cs} = {e.task}
      /\ task' = [t \in Tasks |-> IF t \in {c.task : c \in cs}
                                  THEN Overlaid(task[t], ChangeOf(t)) ELSE task[t]]
  BY DEF FlushPublisher, Flush
<1>3. /\ PairsIn({"claimed"})' = PairsIn({"claimed"}) \ {<<e.task, e.token>>}
      /\ PairsIn({"running", "sent", "refused"})' = PairsIn({"running", "sent", "refused"}) \ {<<e.task, e.token>>}
      /\ PairsIn({"refused"})' = PairsIn({"refused"}) \ {<<e.task, e.token>>}
  BY <1>2, PairsMoved DEF Phases
<1>4. <<e.task, e.token>> \in PairsIn({"refused"}) /\ <<e.task, e.token>> \notin PairsIn({"claimed"})
  BY <1>2, PairFacts
<1>5. PairsIn({"claimed"})' = PairsIn({"claimed"})
  BY <1>3, <1>4
<1>6. /\ ChangeOf(e.task) \in cs
      /\ task'[e.task] = Overlaid(task[e.task], ChangeOf(e.task))
      /\ \A u \in Tasks \ {e.task} : task'[u] = task[u]
  <2>1. e.task \in {c.task : c \in cs}
    BY <1>2
  <2> QED BY <1>1, <1>2, <2>1
<1>7. LeaseOf(e.task)' = Null /\ CancelOf(e.task)' = "no"
  <2>1. ASSUME NEW c \in cs
        PROVE  /\ Overlaid(task[e.task], c).stage \notin LeasedStages
               /\ Overlaid(task[e.task], c).stage # "CANCELLED"
    <3>1. /\ c.after.stage \notin LeasedStages /\ c.after.stage # "CANCELLED"
          /\ c.before.stage # c.after.stage
      BY DEF OpenTicks, PendingSound
    <3>2. Overlaid(task[e.task], c).stage = c.after.stage
      BY <3>1 DEF Overlaid
    <3> QED BY <3>1, <3>2
  <2> HIDE DEF cs, ChangeOf
  <2>2. task'[e.task].stage \notin LeasedStages /\ task'[e.task].stage # "CANCELLED"
    BY <1>6, <2>1
  <2> QED BY <2>2 DEF LeaseOf, CancelOf, LeasedStages
<1>8. \A u \in Tasks \ {e.task} :
        task'[u] = task[u] /\ LeaseOf(u)' = LeaseOf(u) /\ CancelOf(u)' = CancelOf(u)
  BY <1>6, SameViews
<1>9. Promise!EndLate(e.task, e.token)
  BY <1>1, <1>2, <1>3, <1>4, <1>5, <1>7, <1>8 DEF Promise!EndLate, Promise!OnlyTask
<1> QED BY <1>1, <1>9

\* An execution starts.
LEMMA BeginStep ==
  ASSUME TypeOK, UniqueTokens, NEW e \in execs, StartExecution(e)
  PROVE  \E t \in Tasks, k \in Tokens : Promise!Begin(t, k)
<1>1. e.task \in Tasks /\ e.token \in Tokens
  BY ExecsType DEF Phases, Execution
<1>2. /\ e.phase = "claimed" /\ execs' = Moved(e, "running") /\ task' = task
      /\ \/ asrPool' = asrPool
         \/ Owns(e) /\ asrPool' = asrPool \cup {<<e.task, e.token>>}
  BY DEF StartExecution, db
<1>3. /\ PairsIn({"claimed"})' = PairsIn({"claimed"}) \ {<<e.task, e.token>>}
      /\ PairsIn({"running", "sent", "refused"})' =
           (PairsIn({"running", "sent", "refused"}) \ {<<e.task, e.token>>}) \cup {<<e.task, e.token>>}
      /\ PairsIn({"refused"})' = PairsIn({"refused"}) \ {<<e.task, e.token>>}
  BY <1>2, PairsMoved DEF Phases
<1>4. <<e.task, e.token>> \in PairsIn({"claimed"}) /\ <<e.task, e.token>> \notin PairsIn({"refused"})
  BY <1>2, PairFacts
<1>5. \A t \in Tasks : LeaseOf(t)' = LeaseOf(t) /\ CancelOf(t)' = CancelOf(t)
  BY <1>2, SameViews
<1>6. asrPool' = asrPool \/ (LeaseOf(e.task) = e.token
                              /\ asrPool' = asrPool \cup {<<e.task, e.token>>})
  BY <1>2, OwnLease
<1>7. /\ PairsIn({"running", "sent", "refused"})' = PairsIn({"running", "sent", "refused"}) \cup {<<e.task, e.token>>}
      /\ PairsIn({"refused"})' = PairsIn({"refused"})
  BY <1>3, <1>4
<1>8. Promise!Begin(e.task, e.token)
  BY <1>1, <1>2, <1>3, <1>4, <1>5, <1>6, <1>7 DEF Promise!Begin
<1> QED BY <1>1, <1>8

\* A claim is given up before its execution starts.
LEMMA WithdrawStep ==
  ASSUME TypeOK, UniqueTokens, NEW e \in execs, ReleaseUnstartedClaim(e) \/ AbandonRequest(e)
  PROVE  \E t \in Tasks, k \in Tokens : Promise!Withdraw(t, k)
<1> DEFINE row     == task[e.task]
           queued  == CHOOSE q \in QueueStages : ActiveStage(q) = e.stage
           retaken == [Resumed(row, queued) EXCEPT !.attempts = IF @ > 0 THEN @ - 1 ELSE 0]
           Taken   == /\ row.token = e.token /\ row.stage = e.stage
                      /\ task' = [task EXCEPT ![e.task] = retaken]
<1>1. e.task \in Tasks /\ e.token \in Tokens /\ e.stage \in ActiveStages /\ row \in Row
  BY ExecsType DEF Phases, Execution
<1>2. /\ e.phase = "claimed" /\ execs' = execs \ {e} /\ asrPool' = asrPool
      /\ task' = task \/ Taken
  BY DEF ReleaseUnstartedClaim, AbandonRequest, db
<1>3. /\ PairsIn({"claimed"})' = PairsIn({"claimed"}) \ {<<e.task, e.token>>}
      /\ PairsIn({"running", "sent", "refused"})' = PairsIn({"running", "sent", "refused"}) \ {<<e.task, e.token>>}
      /\ PairsIn({"refused"})' = PairsIn({"refused"}) \ {<<e.task, e.token>>}
  BY <1>2, PairsGone
<1>4. /\ <<e.task, e.token>> \in PairsIn({"claimed"})
      /\ <<e.task, e.token>> \notin PairsIn({"running", "sent", "refused"})
      /\ <<e.task, e.token>> \notin PairsIn({"refused"})
  BY <1>2, PairFacts
<1>5. PairsIn({"running", "sent", "refused"})' = PairsIn({"running", "sent", "refused"}) /\ PairsIn({"refused"})' = PairsIn({"refused"})
  BY <1>3, <1>4
<1>6. retaken.stage \in QueueStages
  <2>1. queued \in QueueStages
    BY <1>1, StageFacts
  <2>2. Resumed(row, queued) \in Row /\ Resumed(row, queued).stage = queued
    <3> HIDE DEF row, queued
    <3> QED BY <1>1, <2>1, RowOps, RowLeases, StageFacts
  <2> HIDE DEF queued, row
  <2> QED BY <2>1, <2>2 DEF Row
<1>7. CASE task' = task
  <2>1. \A t \in Tasks : LeaseOf(t)' = LeaseOf(t) /\ CancelOf(t)' = CancelOf(t)
    BY <1>7, SameViews
  <2>2. Promise!Withdraw(e.task, e.token)
    BY <1>1, <1>2, <1>3, <1>4, <1>5, <1>7, <2>1 DEF Promise!Withdraw
  <2> QED BY <1>1, <2>2
<1>8. CASE Taken
  <2>1. LeaseOf(e.task) = e.token /\ CancelOf(e.task) = "no"
    BY <1>1, <1>8 DEF LeaseOf, CancelOf, LeasedStages, ActiveStages
  <2>2. /\ task'[e.task] = retaken
        /\ \A u \in Tasks \ {e.task} :
             task'[u] = task[u] /\ LeaseOf(u)' = LeaseOf(u) /\ CancelOf(u)' = CancelOf(u)
    <3>1. task' = [task EXCEPT ![e.task] = retaken]
      BY <1>8
    <3> HIDE DEF retaken
    <3> QED BY <1>1, <3>1, OtherRows
  <2> HIDE DEF retaken
  <2>3. LeaseOf(e.task)' = Null /\ CancelOf(e.task)' = "no"
    BY <1>6, <2>2 DEF LeaseOf, CancelOf, LeasedStages, ActiveStages, QueueStages
  <2>4. [t \in Tasks |-> CancelOf(t)]' = [t \in Tasks |-> CancelOf(t)]
    <3>1. \A u \in Tasks : CancelOf(u)' = CancelOf(u)
      BY <2>1, <2>2, <2>3
    <3> QED BY <3>1
  <2>5. Promise!Withdraw(e.task, e.token)
    BY <1>1, <1>2, <1>3, <1>4, <1>5, <2>1, <2>2, <2>3, <2>4 DEF Promise!Withdraw, Promise!OnlyTask
  <2> QED BY <1>1, <2>5
<1> QED BY <1>2, <1>7, <1>8

\* The pool sees a process exit.
LEMMA ReapStep ==
  ASSUME TypeOK, NEW p \in asrPool, PoolReap(p)
  PROVE  \E t \in Tasks, k \in Tokens : Promise!Reap(t, k)
<1>1. p[1] \in Tasks /\ p[2] \in Tokens /\ p = <<p[1], p[2]>>
  BY DEF TypeOK
<1>2. task' = task /\ execs' = execs /\ asrPool' = asrPool \ {p}
  BY DEF PoolReap, db
<1>3. p \notin PairsIn({"running", "sent", "refused"})
  BY DEF PoolReap, PairsIn, Alive
<1>4. \A t \in Tasks : LeaseOf(t)' = LeaseOf(t) /\ CancelOf(t)' = CancelOf(t)
  BY <1>2, SameViews
<1>5. Promise!Reap(p[1], p[2])
  BY <1>1, <1>2, <1>3, <1>4, PairsSame DEF Promise!Reap
<1> QED BY <1>1, <1>5

\* The process is lost.
LEMMA LoseStep ==
  ASSUME Restart
  PROVE  Promise!Lose
<1>1. execs' = {} /\ asrPool' = {} /\ task' = task
  BY DEF Restart, db
<1>2. PairsIn({"claimed"})' = {} /\ PairsIn({"running", "sent", "refused"})' = {} /\ PairsIn({"refused"})' = {}
  BY <1>1 DEF PairsIn
<1>3. \A t \in Tasks : LeaseOf(t)' = LeaseOf(t) /\ CancelOf(t)' = CancelOf(t)
  BY <1>1, SameViews
<1> QED BY <1>1, <1>2, <1>3 DEF Promise!Lose

\* A row is claimed under a token that nothing remembers.
LEMMA GrantStep ==
  ASSUME TypeOK, NEW t \in Tasks, NEW new, NEW row,
         row.stage \in ActiveStages, row.token \in Tokens,
         new.task = t, new.token = row.token, new.phase = "claimed",
         task'[t] = row, \A u \in Tasks \ {t} : task'[u] = task[u],
         execs' = execs \cup {new}, asrPool' = asrPool,
         \A u \in Tasks : task[u].token # row.token,
         \A e \in execs : e.token # row.token,
         \A p \in asrPool : p[2] # row.token
  PROVE  \E u \in Tasks, k \in Tokens : Promise!Grant(u, k)
<1>1. \A u \in Tasks : LeaseOf(u) # row.token
  BY NullIsNoToken DEF LeaseOf
<1>2. \A p \in PairsIn({"claimed"}) \cup PairsIn({"running", "sent", "refused"}) \cup asrPool : p[2] # row.token
  BY DEF PairsIn
<1>3. LeaseOf(t)' = row.token /\ CancelOf(t)' = "no"
  BY DEF LeaseOf, CancelOf, LeasedStages, ActiveStages
<1>4. \A u \in Tasks \ {t} :
        task'[u] = task[u] /\ LeaseOf(u)' = LeaseOf(u) /\ CancelOf(u)' = CancelOf(u)
  BY SameViews
<1>5. /\ PairsIn({"claimed"})' = PairsIn({"claimed"}) \cup {<<t, row.token>>}
      /\ PairsIn({"running", "sent", "refused"})' = PairsIn({"running", "sent", "refused"})
      /\ PairsIn({"refused"})' = PairsIn({"refused"})
  BY PairsNew
<1>6. Promise!Grant(t, row.token)
  BY <1>1, <1>2, <1>3, <1>4, <1>5 DEF Promise!Grant, Promise!Fresh, Promise!OnlyTask
<1> QED BY <1>6

\* The two claims: of the queue by the worker, of a reviewed task by a request.
LEMMA ClaimStep ==
  ASSUME TypeOK, NEW t \in Tasks, PopAndClaim(t)
  PROVE  \E u \in Tasks, k \in Tokens : Promise!Grant(u, k)
<1> DEFINE active == ActiveStage(task[t].stage)
           row == Claimed(task[t], active, worker, FreshToken)
           new == [task |-> t, token |-> row.token, stage |-> active,
                   kind |-> "worker", phase |-> "claimed"]
<1>1. /\ active \in ActiveStages /\ active \in Stages /\ worker \in Nat
      /\ FreshToken \in Tokens /\ FreshToken \notin TokensInUse /\ task[t] \in Row
  BY StageFacts, WorkerType, FreshTokenFacts DEF PopAndClaim, TypeOK
<1>2. row.stage = active /\ row.token = FreshToken
  <2> HIDE DEF active
  <2> QED BY <1>1, ClaimedType
<1>3. task' = [task EXCEPT ![t] = row] /\ execs' = execs \cup {new} /\ asrPool' = asrPool
  BY DEF PopAndClaim
<1>4. new.task = t /\ new.token = row.token /\ new.phase = "claimed"
  OBVIOUS
<1>5. /\ \A u \in Tasks : task[u].token # FreshToken
      /\ \A e \in execs : e.token # FreshToken
      /\ \A p \in asrPool : p[2] # FreshToken
  BY <1>1 DEF TokensInUse
<1> HIDE DEF row, new, active
<1>6. task'[t] = row /\ \A u \in Tasks \ {t} : task'[u] = task[u]
  BY <1>3, OtherRows
<1> QED BY <1>1, <1>2, <1>3, <1>4, <1>5, <1>6, GrantStep

LEMMA RenderStep ==
  ASSUME TypeOK, PendingSound, UniqueTokens, OpenRequests, PoolTranscribes, FlushRenderRequest
  PROVE  \E u \in Tasks, k \in Tokens : Promise!Grant(u, k)
<1> DEFINE cs == pending["web"]
           ChangeOf(t) == CHOOSE c \in cs : c.task = t
           Started(c) == [task |-> c.task, token |-> c.after.token, stage |-> "RENDERING",
                          kind |-> "web", phase |-> "claimed"]
<1>1. PICK c \in cs : cs = {c}
  <2>1. cs # {} /\ \A c, d \in cs : c = d
    BY DEF FlushRenderRequest, Flush, UniqueTokens
  <2> QED BY <2>1
<1>2. c \in Change /\ c.task \in Tasks /\ c.after.token \in Tokens
  BY <1>1 DEF TypeOK, Writers, Change, PendingSound
<1>3. /\ task' = [t \in Tasks |-> IF t \in {d.task : d \in cs}
                                 THEN Overlaid(task[t], ChangeOf(t)) ELSE task[t]]
      /\ execs' = execs \cup {Started(d) : d \in cs}
      /\ asrPool' = asrPool
  BY DEF FlushRenderRequest, Flush
<1>4. ChangeOf(c.task) = c /\ execs' = execs \cup {Started(c)}
  BY <1>1, <1>3
<1> DEFINE row == Overlaid(task[c.task], c)
<1>5. task'[c.task] = row /\ \A u \in Tasks \ {c.task} : task'[u] = task[u]
  BY <1>1, <1>2, <1>3, <1>4
<1>6. row.stage = "RENDERING" /\ row.token = c.after.token
  BY <1>1 DEF Overlaid, OpenRequests, PendingSound
<1>7. /\ Started(c).task = c.task /\ Started(c).token = row.token /\ Started(c).phase = "claimed"
  BY <1>6
<1>8. /\ \A u \in Tasks : task[u].token # row.token
      /\ \A e \in execs : e.token # row.token
      /\ \A p \in asrPool : p[2] # row.token
  BY <1>1, <1>6 DEF OpenRequests, UniqueTokens, PoolTranscribes
<1>9. row.stage \in ActiveStages /\ row.token \in Tokens /\ asrPool' = asrPool
  BY <1>2, <1>3, <1>6 DEF ActiveStages
<1> DEFINE new == Started(c)
<1>10. new.task = c.task /\ new.token = row.token /\ new.phase = "claimed" /\ execs' = execs \cup {new}
  BY <1>4, <1>7
<1> HIDE DEF row, new
<1> QED BY <1>2, <1>5, <1>8, <1>9, <1>10, GrantStep

\* The steps of the scheduler, of people and of the process that neither claim
\* nor lose anything leave the executions and the pool as they are.
LEMMA WorkStays ==
  ASSUME TypeOK, ~Claiming, ~Restart,
         \/ SchedulerStep \/ UserStep \/ Lifecycle
         \/ \E t \in Tasks : Age(t) \/ RecordUploadResult(t)
         \/ UNCHANGED vars
  PROVE  execs' = execs /\ asrPool' = asrPool
<1>1. ASSUME NEW ts, NEW next, Decide(ts, next) PROVE execs' = execs /\ asrPool' = asrPool
  BY <1>1 DEF Decide
<1>2. ASSUME NEW w, Flush(w) PROVE asrPool' = asrPool
  BY <1>2 DEF Flush
<1>3. UNCHANGED proc => execs' = execs /\ asrPool' = asrPool
  BY DEF proc
<1>4. CASE SchedulerStep
  <2>1. CASE AdvanceRecorded \/ AdvanceTranscribed \/ AdvanceCandidate \/ AdvanceApproved
             \/ AdvanceRendered \/ SyncUploads
    BY <1>1, <2>1 DEF AdvanceRecorded, AdvanceTranscribed, AdvanceCandidate, AdvanceApproved,
                      AdvanceRendered, SyncUploads, Advance
  <2>2. CASE FlushScheduler
    BY <1>2, <2>2 DEF FlushScheduler
  <2>3. CASE AdvanceAwaitingReview \/ RetryExpired \/ RecoverStale
    BY <1>3, <2>3 DEF AdvanceAwaitingReview, RetryExpired, RecoverStale
  <2> QED BY <1>4, <2>1, <2>2, <2>3 DEF SchedulerStep, Claiming
<1>5. CASE UserStep
  BY <1>3, <1>5 DEF UserStep, Claiming, CancelTask, RetryTask, SubmitReview, ConfirmPublished
<1>6. CASE Lifecycle
  BY <1>3, <1>6 DEF Lifecycle, RequestStop, ReleaseStoppedComputations, Start
<1>8. ASSUME NEW t \in Tasks, Age(t) \/ RecordUploadResult(t)
      PROVE  execs' = execs /\ asrPool' = asrPool
  BY <1>3, <1>8 DEF Age, RecordUploadResult
<1>9. CASE UNCHANGED vars
  BY <1>3, <1>9 DEF vars
<1> QED BY <1>4, <1>5, <1>6, <1>8, <1>9

\* Every step of the queue is a step of Leases, or none.
LEMMA PromiseStep ==
  ASSUME TypeOK, PendingSound, ActiveHasLease, UniqueTokens, LeaseSound, [Next]_vars
  PROVE  [Promise!Next]_(Promise!vars)
<1>1. WebRenders /\ OpenTicks /\ OpenRequests /\ PoolTranscribes
  BY DEF LeaseSound
<1>2. CASE Restart
  <2>1. Promise!Lose
    BY <1>2, LoseStep
  <2> QED BY <2>1 DEF Promise!Next
<1>3. ASSUME NEW t \in Tasks, RequestRender(t) PROVE UNCHANGED Promise!vars
  <2>1. task' = task /\ execs' = execs /\ asrPool' = asrPool
    BY <1>3 DEF RequestRender, db
  <2>2. \A u \in Tasks : LeaseOf(u)' = LeaseOf(u) /\ CancelOf(u)' = CancelOf(u)
    BY <2>1, SameViews
  <2> QED BY <2>1, <2>2, PairsSame DEF Promise!vars, Promise!work
<1>4. CASE Claiming
  <2>1. CASE \E t \in Tasks : PopAndClaim(t)
    BY <2>1, ClaimStep DEF Promise!Next
  <2>2. CASE FlushRenderRequest
    BY <1>1, <2>2, RenderStep DEF Promise!Next
  <2> QED BY <1>3, <1>4, <2>1, <2>2 DEF Claiming
<1> DEFINE Alike == /\ PairsIn({"claimed"})' = PairsIn({"claimed"})
                    /\ PairsIn({"running", "sent", "refused"})' = PairsIn({"running", "sent", "refused"})
                    /\ PairsIn({"refused"})' = PairsIn({"refused"})
                    /\ asrPool' = asrPool
<1>5. ASSUME ~Claiming, ~Restart, Alike PROVE [Promise!Next]_(Promise!vars)
  <2>1. Promise!Manage
    BY <1>5, ManageSteps
  <2> QED BY <2>1 DEF Promise!Next
<1>6. execs' = execs /\ asrPool' = asrPool => Alike
  BY PairsSame
<1>7. ASSUME ~Claiming, ~Restart, NEW e \in execs, ExecutionStep(e)
      PROVE  [Promise!Next]_(Promise!vars)
  <2>1. CASE BodyStep(e)
    <3>1. CASE RefuseUpload(e)
      BY <3>1, DecideStep DEF Promise!Next
    <3>2. CASE FlushPublisher(e)
      BY <1>1, <3>2, EndLateStep DEF Promise!Next
    <3> QED BY <1>1, <2>1, <3>1, <3>2, EndStep DEF Promise!Next
  <2>2. CASE StartExecution(e)
    BY <2>2, BeginStep DEF Promise!Next
  <2>3. CASE ReleaseUnstartedClaim(e) \/ AbandonRequest(e)
    BY <2>3, WithdrawStep DEF Promise!Next
  <2>4. CASE Heartbeat(e) \/ SaveAsrCheckpoint(e)
    <3>1. execs' = execs /\ asrPool' = asrPool
      BY <2>4 DEF Heartbeat, SaveAsrCheckpoint, proc
    <3> QED BY <1>5, <1>6, <1>7, <3>1
  <2>5. CASE SendUpload(e)
    <3>1. e.phase = "running" /\ execs' = Moved(e, "sent") /\ asrPool' = asrPool
      BY <2>5 DEF SendUpload
    <3>2. /\ PairsIn({"claimed"})' = PairsIn({"claimed"}) \ {<<e.task, e.token>>}
          /\ PairsIn({"running", "sent", "refused"})' =
               (PairsIn({"running", "sent", "refused"}) \ {<<e.task, e.token>>}) \cup {<<e.task, e.token>>}
          /\ PairsIn({"refused"})' = PairsIn({"refused"}) \ {<<e.task, e.token>>}
      BY <3>1, PairsMoved DEF Phases
    <3>3. /\ <<e.task, e.token>> \notin PairsIn({"claimed"})
          /\ <<e.task, e.token>> \in PairsIn({"running", "sent", "refused"})
          /\ <<e.task, e.token>> \notin PairsIn({"refused"})
      BY <3>1, PairFacts
    <3>4. Alike
      BY <3>1, <3>2, <3>3
    <3> QED BY <1>5, <1>7, <3>4
  <2>6. CASE SettleExecution(e)
    <3>1. e.phase = "ended" /\ execs' = execs \ {e} /\ asrPool' = asrPool
      BY <2>6 DEF SettleExecution
    <3>2. /\ PairsIn({"claimed"})' = PairsIn({"claimed"}) \ {<<e.task, e.token>>}
          /\ PairsIn({"running", "sent", "refused"})' = PairsIn({"running", "sent", "refused"}) \ {<<e.task, e.token>>}
          /\ PairsIn({"refused"})' = PairsIn({"refused"}) \ {<<e.task, e.token>>}
      BY <3>1, PairsGone
    <3>3. /\ <<e.task, e.token>> \notin PairsIn({"claimed"})
          /\ <<e.task, e.token>> \notin PairsIn({"running", "sent", "refused"})
          /\ <<e.task, e.token>> \notin PairsIn({"refused"})
      BY <3>1, PairFacts
    <3>4. Alike
      BY <3>1, <3>2, <3>3
    <3> QED BY <1>5, <1>7, <3>4
  <2> QED BY <1>7, <2>1, <2>2, <2>3, <2>4, <2>5, <2>6 DEF ExecutionStep
<1>8. ASSUME NEW p \in asrPool, PoolReap(p) PROVE [Promise!Next]_(Promise!vars)
  BY <1>8, ReapStep DEF Promise!Next
<1>9. ASSUME ~Claiming, ~Restart,
             \/ SchedulerStep \/ UserStep \/ Lifecycle
             \/ \E t \in Tasks : Age(t) \/ RecordUploadResult(t)
             \/ UNCHANGED vars
      PROVE  [Promise!Next]_(Promise!vars)
  <2>1. execs' = execs /\ asrPool' = asrPool
    BY <1>9, WorkStays
  <2> HIDE DEF Alike
  <2> QED BY <1>5, <1>6, <1>9, <2>1
<1> QED BY <1>2, <1>4, <1>7, <1>8, <1>9 DEF Next

-----------------------------------------------------------------------------
(* The theorems.                                                           *)

\* Whatever single columns the late writes of handlers put beside each other,
\* a row that names the token of a live execution, or of work in the ASR pool,
\* names this process as its owner (or nobody, beside the token of a rendering
\* for a web request), and a task being cancelled always names an owner.
THEOREM LeasesAreKnown == Spec => []LeaseSound
<1>1. Init => LeaseSound
  <2> SUFFICES ASSUME Init PROVE LeaseSound
    OBVIOUS
  <2>1. OpenTicks /\ TicksRead /\ OpenRequests /\ WebRenders /\ OwnersKnown /\ PoolTranscribes
    BY DEF Init, OpenTicks, TicksRead, OpenRequests, WebRenders, OwnersKnown, PoolTranscribes, Writers
  <2>2. CancelledHasOwner
    <3>1. ASSUME NEW t \in Tasks PROVE task[t].stage \in InitialStages
      BY DEF Init
    <3>2. "CANCELLING" \notin InitialStages
      BY InitialAssumption DEF QueueStages, WaitingStages
    <3> QED BY <3>1, <3>2 DEF CancelledHasOwner
  <2> QED BY <2>1, <2>2 DEF LeaseSound
<1>2. TypeOK /\ PendingSound /\ UniqueTokens /\ LeaseSound /\ [Next]_vars => LeaseSound'
  BY LeaseSoundStep
<1> QED BY <1>1, <1>2, TypesAndPending, TokensAreUnique, PTL DEF Spec

\* A crash is charged, by stale recovery or by an execution whose model
\* process died, only when no thread works under the lease it is charged for,
\* and no model process but that of the execution that reports it.  The one
\* exception is proved to be the only one: a rendering for a web request whose
\* row has lost its owner.
THEOREM ChargesAreReal == Spec => CrashesAreReal
<1>1. TypeOK /\ UniqueTokens /\ LeaseSound /\ [Next]_vars =>
        [\A t \in Tasks, s \in ActiveStages, k \in Tokens :
           budget'[t][s].consumed > budget[t][s].consumed /\ task[t].token = k
           => /\ ThreadOf(t, k)' => Disowned(t, k)
              /\ <<t, k>> \in asrPool' => ThreadOf(t, k)]_vars
  BY ChargedIsGone
<1> QED BY <1>1, TypeCorrect, TokensAreUnique, LeasesAreKnown, PTL DEF Spec, CrashesAreReal

\* A cancellation is reported as done only when the execution that was asked
\* to stop and its model process have ended, by whichever of the two that
\* report it: the end of the execution, or stale recovery.
THEOREM CancellationsWaitForExit == Spec => CancelSettlesAfterExit
<1>1. TypeOK /\ PendingSound /\ UniqueTokens /\ LeaseSound /\ [Next]_vars =>
        [\A t \in Tasks, k \in Tokens :
           task[t].stage = "CANCELLING" /\ task[t].token = k /\ task'[t].stage = "CANCELLED"
             => ~Working(t, k)']_vars
  BY SettledIsGone
<1> QED BY <1>1, TypesAndPending, TokensAreUnique, LeasesAreKnown, PTL DEF Spec, CancelSettlesAfterExit

\* The queue keeps the promise of Leases: whatever claims, recoveries, late
\* writes, cancellations and stops do to a row, its lease is granted under a new
\* token, its work starts once, a result is stored by the holder alone, save for
\* a refused publication, which was the holder when it looked, and a cancellation
\* is reported when nothing works under its lease any more.
THEOREM QueueImplementsLeases == Spec => ImplementsLeases
<1>1. Init => Promise!Init
  <2> SUFFICES ASSUME Init PROVE Promise!Init
    OBVIOUS
  <2>1. ASSUME NEW t \in Tasks PROVE LeaseOf(t) = Null /\ CancelOf(t) = "no"
    <3>1. task[t].stage \in InitialStages /\ task[t].token = Null
      BY DEF Init
    <3>2. task[t].stage \notin {"CANCELLING", "CANCELLED"}
      BY <3>1, InitialAssumption DEF QueueStages, WaitingStages
    <3> QED BY <3>1, <3>2 DEF LeaseOf, CancelOf
  <2>2. execs = {} /\ asrPool = {}
    BY DEF Init
  <2> QED BY <2>1, <2>2 DEF Promise!Init, PairsIn
<1>2. TypeOK /\ PendingSound /\ ActiveHasLease /\ UniqueTokens /\ LeaseSound /\ [Next]_vars =>
        [Promise!Next]_(Promise!vars)
  BY PromiseStep
<1> QED BY <1>1, <1>2, TypesAndPending, LeasedWhileActive, TokensAreUnique, LeasesAreKnown,
           PTL DEF Spec, ImplementsLeases, Promise!Spec
=============================================================================
