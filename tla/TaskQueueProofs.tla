--------------------------- MODULE TaskQueueProofs ---------------------------
(***************************************************************************)
(* Proofs about the task queue, for every set of tasks and tokens and      *)
(* every bound.  First what the operators on stages and rows return, then  *)
(* the type invariant, one lemma per group of actions.                     *)
(***************************************************************************)
EXTENDS TaskQueueProperties, TLAPS

\* What the functions on stages return.
LEMMA StageFacts ==
  /\ ActiveStages \subseteq Stages
  /\ QueueStages \subseteq Stages
  /\ WaitingStages \subseteq Stages
  /\ LeasedStages \subseteq Stages
  /\ NoStage \notin Stages
  /\ \A s : ResumeStage(s) \in Stages \ LeasedStages
  /\ \A q \in QueueStages : ActiveStage(q) \in ActiveStages
  /\ \A a \in ActiveStages : \E q \in QueueStages : ActiveStage(q) = a
  /\ QueueStages \cap LeasedStages = {}
<1>1. ActiveStages \subseteq Stages /\ QueueStages \subseteq Stages /\ WaitingStages \subseteq Stages
  BY DEF Stages
<1>2. LeasedStages \subseteq Stages
  BY <1>1 DEF LeasedStages, Stages
<1>3. NoStage \notin Stages
  BY DEF NoStage, Stages, QueueStages, ActiveStages, WaitingStages, SettledStages
<1>4. ASSUME NEW s PROVE ResumeStage(s) \in Stages \ LeasedStages
  BY DEF ResumeStage, LeasedStages, Stages, QueueStages, ActiveStages, WaitingStages, SettledStages
<1>5. ASSUME NEW q \in QueueStages PROVE ActiveStage(q) \in ActiveStages
  BY DEF ActiveStage, QueueStages, ActiveStages
<1>6. /\ ActiveStage("QUEUED_FOR_TRANS") = "TRANSCRIBING"
      /\ ActiveStage("QUEUED_FOR_ANALYSIS") = "ANALYZING"
      /\ ActiveStage("QUEUED_FOR_RENDER") = "RENDERING"
      /\ ActiveStage("QUEUED_FOR_PUBLISH") = "PUBLISHING"
  BY DEF ActiveStage
<1>7. \A a \in ActiveStages : \E q \in QueueStages : ActiveStage(q) = a
  BY <1>6 DEF QueueStages, ActiveStages
<1>8. QueueStages \cap LeasedStages = {}
  BY DEF QueueStages, LeasedStages, ActiveStages
<1> QED BY <1>1, <1>2, <1>3, <1>4, <1>5, <1>7, <1>8

\* The operators on rows return rows.
LEMMA RowOps ==
  ASSUME NEW row \in Row
  PROVE  /\ Released(row) \in Row
         /\ \A s \in Stages : Enqueued(row, s) \in Row /\ Resumed(row, s) \in Row
         /\ \A permanent \in BOOLEAN : MarkedFailed(row, permanent) \in Row
         /\ WithoutAsr(row) \in Row
         /\ CancellationRequested(row) \in Row
<1>1. ASSUME NEW r \in Row PROVE Released(r) \in Row
  BY DEF Released, Row, Null
<1>2. ASSUME NEW r \in Row, NEW s \in Stages PROVE Enqueued(r, s) \in Row
  <2>1. [r EXCEPT !.stage = s, !.attempts = 0] \in Row
    BY DEF Row
  <2> QED BY <2>1, <1>1 DEF Enqueued
<1>3. ASSUME NEW s \in Stages PROVE Resumed(row, s) \in Row
  <2>1. [row EXCEPT !.stage = s] \in Row
    BY DEF Row
  <2> QED BY <2>1, <1>1 DEF Resumed
<1>4. ASSUME NEW permanent \in BOOLEAN PROVE MarkedFailed(row, permanent) \in Row
  <2>1. [row EXCEPT !.failed = row.stage,
                    !.stage  = IF permanent THEN "FAILED" ELSE "TRANSIENT_FAILED"] \in Row
    BY DEF Row, Stages, SettledStages
  <2> QED BY <2>1, <1>1 DEF MarkedFailed
<1>5. WithoutAsr(row) \in Row
  <2>1. "TRANSCRIBED" \in Stages /\ "unavailable" \in AsrModes
    BY DEF Stages, WaitingStages, AsrModes
  <2>2. Enqueued(row, "TRANSCRIBED") \in Row
    BY <2>1, <1>2
  <2> QED BY <2>1, <2>2 DEF WithoutAsr, Row
<1>6. CancellationRequested(row) \in Row
  <2>1. [row EXCEPT !.failed = row.stage] \in Row
    BY DEF Row
  <2>2. "CANCELLING" \in Stages /\ "CANCELLED" \in Stages
    BY DEF Stages, SettledStages
  <2> QED BY <2>1, <2>2, <1>2 DEF CancellationRequested
<1> QED BY <1>1, <1>2, <1>3, <1>4, <1>5, <1>6

LEMMA ClaimedType ==
  ASSUME NEW row \in Row, NEW active \in Stages, NEW w \in Nat, NEW k \in Tokens
  PROVE  /\ Claimed(row, active, w, k) \in Row
         /\ Claimed(row, active, w, k).stage = active
         /\ Claimed(row, active, w, k).token = k
         /\ Claimed(row, active, w, k).owner = w
<1>1. row.attempts + 1 \in Nat
  BY DEF Row
<1> QED BY <1>1 DEF Claimed, Row

LEMMA OverlaidType ==
  ASSUME NEW row \in Row, NEW c \in Change
  PROVE  Overlaid(row, c) \in Row
<1>1. c.before \in Row /\ c.after \in Row
  BY DEF Change
<1> QED BY <1>1 DEF Overlaid, Row

LEMMA CountedType ==
  ASSUME NEW b \in Budget, NEW k \in Tokens \cup {Null}
  PROVE  CrashCounted(b, k) \in Budget
BY DEF CrashCounted, Budget

-----------------------------------------------------------------------------
(* The type invariant.                                                     *)

LEMMA WorkerType == TypeOK => worker \in Nat
BY BoundsAssumption DEF TypeOK, worker

\* The token of a new lease is one that nothing remembers.
LEMMA FreshTokenFacts ==
  ASSUME Tokens \ TokensInUse # {}
  PROVE  FreshToken \in Tokens /\ FreshToken \notin TokensInUse
BY DEF FreshToken

LEMMA ExecsType ==
  ASSUME TypeOK, NEW e \in execs, NEW phase \in Phases
  PROVE  /\ e \in Execution
         /\ task[e.task] \in Row
         /\ Moved(e, phase) \subseteq Execution
<1>1. e \in Execution /\ execs \subseteq Execution /\ task \in [Tasks -> Row]
  BY DEF TypeOK
<1>2. InPhase(e, phase) \in Execution
  BY <1>1 DEF InPhase, Execution
<1> QED BY <1>1, <1>2 DEF Moved, Execution

LEMMA BodyEndsType ==
  ASSUME TypeOK, NEW e \in execs, NEW row \in Row, NEW interrupted \in BOOLEAN,
         BodyEnds(e, row, interrupted)
  PROVE  /\ task' \in [Tasks -> Row]
         /\ execs' \subseteq Execution
         /\ asrPool' \subseteq Tasks \X Tokens
         /\ mode' = mode /\ pending' = pending
         /\ requests' = requests /\ crashes' = crashes /\ stops' = stops
<1>1. task \in [Tasks -> Row] /\ asrPool \subseteq Tasks \X Tokens
  BY DEF TypeOK
<1>2. "ended" \in Phases
  BY DEF Phases
<1>3. Moved(e, "ended") \subseteq Execution
  BY <1>2, ExecsType
<1>4. asrPool' \subseteq asrPool
  BY DEF BodyEnds, PoolAfter
<1> QED BY <1>1, <1>3, <1>4 DEF BodyEnds, bounds

LEMMA BudgetClearedType ==
  ASSUME TypeOK, NEW e \in execs
  PROVE  BudgetCleared(e) \in [Tasks -> [ActiveStages -> Budget]]
<1>1. e \in Execution /\ budget \in [Tasks -> [ActiveStages -> Budget]]
  BY DEF TypeOK
<1>2. NoBudget \in Budget
  BY DEF NoBudget, Budget, Null
<1> QED BY <1>1, <1>2 DEF BudgetCleared, Execution

LEMMA InitType == Init => TypeOK
<1> SUFFICES ASSUME Init PROVE TypeOK
  OBVIOUS
<1>1. task \in [Tasks -> Row]
  <2>1. PICK s \in [Tasks -> InitialStages] :
          task = [t \in Tasks |->
                   [stage |-> s[t], owner |-> Null, token |-> Null, attempts |-> 0,
                    failed |-> NoStage, aged |-> FALSE,
                    asr |-> CASE s[t] = "RECORDED" -> "none"
                              [] s[t] = "QUEUED_FOR_TRANS" -> "background"
                              [] OTHER -> "settled"]]
    BY DEF Init
  <2>2. InitialStages \subseteq Stages
    BY InitialAssumption, StageFacts
  <2>3. ASSUME NEW t \in Tasks PROVE task[t] \in Row
    <3>1. s[t] \in Stages
      BY <2>2
    <3>2. (CASE s[t] = "RECORDED" -> "none"
             [] s[t] = "QUEUED_FOR_TRANS" -> "background"
             [] OTHER -> "settled") \in AsrModes
      BY DEF AsrModes
    <3> QED BY <2>1, <3>1, <3>2 DEF Row, Null
  <2> QED BY <2>1, <2>3
<1>2. budget \in [Tasks -> [ActiveStages -> Budget]]
  BY DEF Init, NoBudget, Budget, Null
<1>3. ledger \in [Tasks -> LedgerStates]
  BY DEF Init, LedgerStates
<1>4. pending \in [Writers -> SUBSET Change]
  BY DEF Init
<1> QED BY <1>1, <1>2, <1>3, <1>4, BoundsAssumption DEF Init, TypeOK

\* A flush writes rows of the right type.
LEMMA FlushType ==
  ASSUME TypeOK, NEW w \in Writers, Flush(w)
  PROVE  /\ task' \in [Tasks -> Row]
         /\ budget' \in [Tasks -> [ActiveStages -> Budget]]
         /\ pending' \in [Writers -> SUBSET Change]
         /\ UNCHANGED <<savedAsr, ledger, asrPool, mode, bounds>>
<1> DEFINE cs == pending[w]
           ChangeOf(t) == CHOOSE c \in cs : c.task = t
<1>1. cs \subseteq Change
  BY DEF TypeOK
<1>2. task' \in [Tasks -> Row]
  <2>1. ASSUME NEW t \in Tasks
        PROVE  (IF t \in {c.task : c \in cs} THEN Overlaid(task[t], ChangeOf(t)) ELSE task[t]) \in Row
    <3>1. task[t] \in Row
      BY DEF TypeOK
    <3>2. CASE t \in {c.task : c \in cs}
      <4>1. ChangeOf(t) \in Change
        BY <1>1, <3>2
      <4> QED BY <3>1, <3>2, <4>1, OverlaidType
    <3> QED BY <3>1, <3>2
  <2>2. task' = [t \in Tasks |-> IF t \in {c.task : c \in cs}
                                 THEN Overlaid(task[t], ChangeOf(t)) ELSE task[t]]
    BY DEF Flush
  <2> QED BY <2>1, <2>2
<1>3. NoBudget \in Budget
  BY DEF NoBudget, Budget, Null
<1>4. budget' \in [Tasks -> [ActiveStages -> Budget]]
  <2>1. budget' = [t \in Tasks |-> [s \in ActiveStages |->
                    IF \E c \in cs : c.task = t /\ c.before.stage = s /\ c.after.stage = "COMPLETED"
                    THEN NoBudget ELSE budget[t][s]]]
    BY DEF Flush
  <2>2. \A t \in Tasks, s \in ActiveStages : budget[t][s] \in Budget
    BY DEF TypeOK
  <2> QED BY <1>3, <2>1, <2>2
<1>5. pending' \in [Writers -> SUBSET Change]
  BY DEF Flush, TypeOK
<1> QED BY <1>2, <1>4, <1>5 DEF Flush

\* How the body of an execution may end: type correctness of the commits.
LEMMA CommitType ==
  ASSUME TypeOK, NEW e \in execs, Commit(e)
  PROVE  TypeOK'
<1> DEFINE row == task[e.task]
<1>1. e \in Execution /\ row \in Row
  BY ExecsType DEF Phases
<1>2. /\ "QUEUED_FOR_TRANS" \in Stages /\ "TRANSCRIBED" \in Stages
      /\ "CANDIDATE_CREATED" \in Stages /\ "COMPLETED" \in Stages /\ "RENDERED" \in Stages
      /\ "AWAITING_PUBLISH_CONFIRMATION" \in Stages
  BY DEF Stages, QueueStages, WaitingStages, SettledStages
<1>3. BudgetCleared(e) \in [Tasks -> [ActiveStages -> Budget]]
  BY BudgetClearedType
<1>4. \A s \in Stages, asr \in AsrModes : [Enqueued(row, s) EXCEPT !.asr = asr] \in Row
  BY <1>1, RowOps DEF Row
<1>5. FALSE \in BOOLEAN /\ TRUE \in BOOLEAN
  OBVIOUS
<1>6. CASE CommitTranscript(e)
  <2>1. PICK r \in Row : BodyEnds(e, r, FALSE)
    BY <1>1, <1>2, <1>4, <1>6 DEF CommitTranscript, AsrModes
  <2>2. budget' = budget \/ budget' = BudgetCleared(e)
    BY <1>6 DEF CommitTranscript
  <2> QED BY <1>3, <1>6, <2>1, <2>2, BodyEndsType DEF CommitTranscript, TypeOK
<1>7. CASE CommitSignalPass(e)
  <2>1. PICK r \in Row : BodyEnds(e, r, FALSE)
    BY <1>1, <1>2, <1>4, <1>7 DEF CommitSignalPass, AsrModes
  <2> QED BY <1>7, <2>1, BodyEndsType DEF CommitSignalPass, TypeOK
<1>8. CASE CommitHighlight(e)
  <2>1. PICK r \in Row : BodyEnds(e, r, FALSE)
    BY <1>1, <1>2, <1>8, RowOps DEF CommitHighlight
  <2> QED BY <1>3, <1>8, <2>1, BodyEndsType DEF CommitHighlight, TypeOK
<1>9. CASE CommitRender(e)
  <2>1. PICK r \in Row : BodyEnds(e, r, FALSE)
    BY <1>1, <1>2, <1>9, RowOps DEF CommitRender
  <2>2. ledger' \in [Tasks -> LedgerStates]
    BY <1>9 DEF CommitRender, TypeOK, LedgerStates
  <2> QED BY <1>3, <1>9, <2>1, <2>2, BodyEndsType DEF CommitRender, TypeOK
<1>10. CASE CommitPublishAndAdvance(e)
  <2>1. PICK r \in Row : BodyEnds(e, r, FALSE)
    BY <1>1, <1>2, <1>10, RowOps DEF CommitPublishAndAdvance
  <2>2. budget' = budget \/ budget' = BudgetCleared(e)
    BY <1>10 DEF CommitPublishAndAdvance
  <2> QED BY <1>3, <1>10, <2>1, <2>2, BodyEndsType DEF CommitPublishAndAdvance, TypeOK
<1> QED BY <1>6, <1>7, <1>8, <1>9, <1>10 DEF Commit

\* The other ways in which it may end.
LEMMA BodyStepType ==
  ASSUME TypeOK, NEW e \in execs, BodyStep(e)
  PROVE  TypeOK'
<1> DEFINE row == task[e.task]
<1>1. e \in Execution /\ row \in Row /\ Moved(e, "ended") \subseteq Execution
  BY ExecsType DEF Phases
<1>2. ASSUME NEW r \in Row, NEW b \in BOOLEAN, BodyEnds(e, r, b), UNCHANGED <<savedAsr, ledger>>,
             budget' \in [Tasks -> [ActiveStages -> Budget]]
      PROVE  TypeOK'
  BY <1>2, BodyEndsType DEF TypeOK
<1>3. CASE Commit(e)
  BY <1>3, CommitType
<1>4. CASE RefuseUpload(e)
  <2>1. PICK permanent \in BOOLEAN :
          pending' = [pending EXCEPT !["publisher"] = {Refusal(e, permanent)}]
    BY <1>4 DEF RefuseUpload
  <2>2. Refusal(e, permanent) \in Change
    BY <1>1, RowOps DEF Refusal, Change, Execution
  <2>3. pending' \in [Writers -> SUBSET Change]
    BY <2>1, <2>2 DEF TypeOK
  <2>4. Moved(e, "refused") \subseteq Execution
    BY ExecsType DEF Phases
  <2> QED BY <1>4, <2>3, <2>4 DEF RefuseUpload, TypeOK, db, bounds
<1>5. CASE LoseLease(e)
  BY <1>1, <1>2, <1>5 DEF LoseLease, TypeOK
<1>6. CASE FailExecution(e)
  <2>1. PICK r \in Row : BodyEnds(e, r, TRUE)
    BY <1>1, <1>6, RowOps DEF FailExecution
  <2> QED BY <1>2, <1>6, <2>1 DEF FailExecution, TypeOK
<1>7. CASE AsrProcessCrash(e)
  <2> DEFINE counted == CrashCounted(budget[e.task][e.stage], e.token)
  <2>1. budget[e.task][e.stage] \in Budget /\ e.token \in Tokens \cup {Null}
    BY <1>1 DEF TypeOK, Execution
  <2>2. counted \in Budget
    BY <2>1, CountedType
  <2>3. PICK r \in Row : BodyEnds(e, r, TRUE)
    BY <1>1, <1>7, RowOps DEF AsrProcessCrash
  <2>4. budget' \in [Tasks -> [ActiveStages -> Budget]]
    BY <1>1, <1>7, <2>2 DEF AsrProcessCrash, TypeOK, Execution
  <2> QED BY <1>2, <1>7, <2>3, <2>4 DEF AsrProcessCrash
<1>8. CASE ShutdownInterrupts(e)
  <2>1. PICK r \in Row : BodyEnds(e, r, TRUE)
    BY <1>1, <1>8, RowOps, StageFacts DEF ShutdownInterrupts
  <2> QED BY <1>2, <1>8, <2>1 DEF ShutdownInterrupts, TypeOK
<1>9. CASE CancelRender(e)
  <2>1. CancellationRequested(row) \in Row
    BY <1>1, RowOps
  <2> QED BY <1>2, <1>9, <2>1 DEF CancelRender, TypeOK
<1>10. CASE FlushPublisher(e)
  <2>1. "publisher" \in Writers /\ Flush("publisher") /\ execs' = Moved(e, "ended")
    BY <1>10 DEF FlushPublisher, Writers
  <2> QED BY <1>1, <2>1, FlushType DEF TypeOK, bounds
<1> QED BY <1>3, <1>4, <1>5, <1>6, <1>7, <1>8, <1>9, <1>10 DEF BodyStep

LEMMA ExecutionType ==
  ASSUME TypeOK, NEW e \in execs, ExecutionStep(e)
  PROVE  TypeOK'
<1> DEFINE row == task[e.task]
<1>1. /\ e \in Execution /\ row \in Row
      /\ Moved(e, "running") \subseteq Execution
      /\ Moved(e, "sent") \subseteq Execution
  BY ExecsType DEF Phases
<1>2. e.task \in Tasks /\ e.token \in Tokens /\ e.stage \in ActiveStages
  BY <1>1 DEF Execution
<1>3. CASE ReleaseUnstartedClaim(e)
  <2> DEFINE queued  == CHOOSE q \in QueueStages : ActiveStage(q) = e.stage
             retaken == [Resumed(row, queued) EXCEPT !.attempts = IF @ > 0 THEN @ - 1 ELSE 0]
  <2>1. queued \in Stages
    BY <1>2, StageFacts
  <2>2. Resumed(row, queued) \in Row
    BY <1>1, <2>1, RowOps
  <2>3. Resumed(row, queued).attempts \in Nat
    BY <2>2 DEF Row
  <2> DEFINE n == IF Resumed(row, queued).attempts > 0 THEN Resumed(row, queued).attempts - 1 ELSE 0
  <2>4. n \in Nat
    BY <2>3
  <2>5. retaken = [Resumed(row, queued) EXCEPT !.attempts = n]
    OBVIOUS
  <2>6. retaken \in Row
    <3> HIDE DEF n, queued
    <3> QED BY <2>2, <2>4, <2>5 DEF Row
  <2>7. task' = [task EXCEPT ![e.task] = retaken] \/ task' = task
    BY <1>3 DEF ReleaseUnstartedClaim
  <2> HIDE DEF retaken
  <2>8. task' \in [Tasks -> Row]
    BY <1>2, <2>6, <2>7 DEF TypeOK
  <2> QED BY <1>3, <2>8 DEF ReleaseUnstartedClaim, TypeOK, bounds
<1>4. CASE AbandonRequest(e)
  BY <1>4 DEF AbandonRequest, TypeOK, db, bounds
<1>5. CASE StartExecution(e)
  BY <1>1, <1>2, <1>5 DEF StartExecution, TypeOK, db, bounds
<1>6. CASE Heartbeat(e)
  <2>1. [row EXCEPT !.aged = FALSE] \in Row
    BY <1>1 DEF Row
  <2>2. task' = [task EXCEPT ![e.task] = [row EXCEPT !.aged = FALSE]]
    BY <1>2, <1>6 DEF Heartbeat
  <2> QED BY <1>2, <1>6, <2>1, <2>2 DEF Heartbeat, TypeOK, proc, bounds
<1>7. CASE SaveAsrCheckpoint(e)
  BY <1>2, <1>7 DEF SaveAsrCheckpoint, TypeOK, proc, bounds
<1>8. CASE SendUpload(e)
  BY <1>1, <1>8 DEF SendUpload, TypeOK, LedgerStates, bounds
<1>9. CASE BodyStep(e)
  BY <1>9, BodyStepType
<1>10. CASE SettleExecution(e)
  <2>1. Enqueued(row, "CANCELLED") \in Row
    BY <1>1, RowOps DEF Stages, SettledStages
  <2>2. task' = [task EXCEPT ![e.task] = Enqueued(row, "CANCELLED")] \/ task' = task
    BY <1>10 DEF SettleExecution
  <2> QED BY <1>2, <1>10, <2>1, <2>2 DEF SettleExecution, TypeOK, bounds
<1> QED BY <1>3, <1>4, <1>5, <1>6, <1>7, <1>8, <1>9, <1>10 DEF ExecutionStep

\* Reading rows and deciding what they become.
LEMMA DecideType ==
  ASSUME TypeOK, NEW ts \in SUBSET Tasks, NEW next,
         \A t \in ts : next[t] \in Row,
         Decide(ts, next)
  PROVE  TypeOK'
<1>1. \A t \in ts : [task |-> t, before |-> task[t], after |-> next[t]] \in Change
  BY DEF TypeOK, Change
<1>2. pending' \in [Writers -> SUBSET Change]
  BY <1>1 DEF Decide, TypeOK
<1> QED BY <1>2 DEF Decide, TypeOK, db, bounds

LEMMA AdvanceType ==
  ASSUME TypeOK, NEW stage, NEW targets \in SUBSET Stages, Advance(stage, targets)
  PROVE  TypeOK'
<1>0. PICK ts \in SUBSET InStage(stage) :
        \E to \in [ts -> targets] : Decide(ts, [t \in ts |-> Enqueued(task[t], to[t])])
  BY DEF Advance
<1>1. PICK to \in [ts -> targets] : Decide(ts, [t \in ts |-> Enqueued(task[t], to[t])])
  BY <1>0
<1>2. ts \in SUBSET Tasks
  BY DEF InStage
<1>3. \A t \in ts : [u \in ts |-> Enqueued(task[u], to[u])][t] \in Row
  BY <1>2, RowOps DEF TypeOK
<1> QED BY <1>1, <1>2, <1>3, DecideType

\* The tick of the scheduler.
LEMMA SchedulerType ==
  ASSUME TypeOK, SchedulerStep
  PROVE  TypeOK'
<1>1. /\ {"QUEUED_FOR_ANALYSIS", "AWAITING_REVIEW", "APPROVED", "APPROVED_WAITING_RENDER",
          "QUEUED_FOR_RENDER", "AWAITING_PUBLISH_CONFIRMATION", "QUEUED_FOR_PUBLISH",
          "COMPLETED", "CANCELLED", "FAILED", "TRANSCRIBED"} \subseteq Stages
      /\ \A t \in Tasks : task[t] \in Row
  BY DEF Stages, QueueStages, WaitingStages, SettledStages, TypeOK
<1>2. ASSUME task' \in [Tasks -> Row], UNCHANGED <<budget, savedAsr, ledger, proc, bounds>>
      PROVE  TypeOK'
  BY <1>2 DEF TypeOK, proc, bounds
<1>3. CASE AdvanceRecorded
  <2>1. PICK ts \in SUBSET InStage("RECORDED") :
          Decide(ts, [t \in ts |-> [Enqueued(task[t], "QUEUED_FOR_ANALYSIS") EXCEPT !.asr = "pending"]])
    BY <1>3 DEF AdvanceRecorded
  <2>2. ts \in SUBSET Tasks
    BY DEF InStage
  <2>3. ASSUME NEW t \in ts
        PROVE  [Enqueued(task[t], "QUEUED_FOR_ANALYSIS") EXCEPT !.asr = "pending"] \in Row
    <3>1. Enqueued(task[t], "QUEUED_FOR_ANALYSIS") \in Row
      BY <1>1, <2>2, RowOps
    <3> QED BY <3>1 DEF Row, AsrModes
  <2> QED BY <2>1, <2>2, <2>3, DecideType
<1>4. CASE AdvanceTranscribed
  BY <1>1, <1>4, AdvanceType DEF AdvanceTranscribed, IfAutomatic
<1>5. CASE AdvanceCandidate
  BY <1>1, <1>5, AdvanceType DEF AdvanceCandidate, IfAutomatic
<1>6. CASE AdvanceApproved
  BY <1>1, <1>6, AdvanceType DEF AdvanceApproved, IfAutomatic
<1>7. CASE AdvanceRendered
  BY <1>1, <1>7, AdvanceType DEF AdvanceRendered, IfAutomatic
<1>8. CASE SyncUploads
  <2> DEFINE known == {t \in Tasks :
                /\ task[t].stage \in {"PUBLISHING", "QUEUED_FOR_PUBLISH", "RENDERED",
                                      "AWAITING_PUBLISH_CONFIRMATION"}
                /\ \/ ledger[t] \in {"success", "failed"}
                   \/ /\ ledger[t] = "reconciliation"
                      /\ task[t].stage # "AWAITING_PUBLISH_CONFIRMATION"}
             next == [t \in known |->
                CASE ledger[t] = "success"        -> Enqueued(task[t], "COMPLETED")
                  [] ledger[t] = "reconciliation" -> Enqueued(task[t], "AWAITING_PUBLISH_CONFIRMATION")
                  [] ledger[t] = "failed"         -> MarkedFailed(task[t], TRUE)]
  <2>1. Decide(known, next)
    BY <1>8 DEF SyncUploads
  <2>2. ASSUME NEW t \in known PROVE next[t] \in Row
    <3>1. /\ Enqueued(task[t], "COMPLETED") \in Row
          /\ Enqueued(task[t], "AWAITING_PUBLISH_CONFIRMATION") \in Row
          /\ MarkedFailed(task[t], TRUE) \in Row
      BY <1>1, RowOps
    <3>2. ledger[t] \in {"success", "failed", "reconciliation"}
      OBVIOUS
    <3> QED BY <3>1, <3>2
  <2> HIDE DEF next
  <2> QED BY <2>1, <2>2, DecideType
<1>9. CASE FlushScheduler
  <2>1. "scheduler" \in Writers /\ Flush("scheduler") /\ execs' = execs
    BY <1>9 DEF FlushScheduler, Writers
  <2> QED BY <2>1, FlushType DEF TypeOK, bounds
<1>10. CASE AdvanceAwaitingReview
  <2>1. PICK ts \in SUBSET InStage("AWAITING_REVIEW") :
          task' = [t \in Tasks |-> IF t \in ts THEN Enqueued(task[t], "APPROVED") ELSE task[t]]
    BY <1>10 DEF AdvanceAwaitingReview
  <2>2. \A t \in Tasks : Enqueued(task[t], "APPROVED") \in Row
    BY <1>1, RowOps
  <2> QED BY <1>1, <1>2, <1>10, <2>1, <2>2 DEF AdvanceAwaitingReview
<1>11. CASE RetryExpired
  <2>1. PICK due \in SUBSET InStage("TRANSIENT_FAILED") :
          task' = [t \in Tasks |->
            LET row == task[t] IN
            IF t \notin due THEN row
            ELSE IF row.attempts < MaxRetries THEN Resumed(row, ResumeStage(row.failed))
            ELSE IF row.failed = "TRANSCRIBING" THEN WithoutAsr(row)
            ELSE Resumed(row, "FAILED")]
    BY <1>11 DEF RetryExpired
  <2>2. \A t \in Tasks : /\ Resumed(task[t], ResumeStage(task[t].failed)) \in Row
                         /\ WithoutAsr(task[t]) \in Row
                         /\ Resumed(task[t], "FAILED") \in Row
    BY <1>1, RowOps, StageFacts
  <2>3. task' \in [Tasks -> Row]
    BY <1>1, <2>1, <2>2
  <2> QED BY <1>2, <1>11, <2>3 DEF RetryExpired
<1>12. CASE RecoverStale
  <2> DEFINE counted(t) == CrashCounted(budget[t][task[t].stage], task[t].token)
  <2>1. ASSUME NEW t \in Tasks PROVE task'[t] \in Row
    <3>1. /\ Enqueued(task[t], "CANCELLED") \in Row
          /\ Released(task[t]) \in Row
          /\ \A b : Recovered(t, b) \in Row
      BY <1>1, RowOps, StageFacts DEF Recovered
    <3> QED BY <1>1, <1>12, <3>1 DEF RecoverStale
  <2>2. ASSUME NEW t \in Tasks PROVE budget'[t] \in [ActiveStages -> Budget]
    <3>1. budget[t] \in [ActiveStages -> Budget] /\ task[t].token \in Tokens \cup {Null}
      BY <1>1 DEF TypeOK, Row
    <3>2. CASE task[t].stage \in ActiveStages
      <4>1. counted(t) \in Budget
        BY <3>1, <3>2, CountedType
      <4>2. [budget[t] EXCEPT ![task[t].stage] = counted(t)] \in [ActiveStages -> Budget]
        BY <3>1, <4>1
      <4> QED BY <1>12, <3>1, <4>2 DEF RecoverStale
    <3>3. CASE task[t].stage \notin ActiveStages
      BY <1>12, <3>1, <3>3 DEF RecoverStale
    <3> QED BY <3>2, <3>3
  <2>3. task' \in [Tasks -> Row] /\ budget' \in [Tasks -> [ActiveStages -> Budget]]
    <3>1. task' = [t \in Tasks |-> task'[t]] /\ budget' = [t \in Tasks |-> budget'[t]]
      BY <1>12 DEF RecoverStale
    <3> QED BY <2>1, <2>2, <3>1
  <2> QED BY <1>12, <2>3 DEF RecoverStale, TypeOK, proc, bounds
<1>13. ASSUME NEW t \in Tasks, PopAndClaim(t)
       PROVE  TypeOK'
  <2> DEFINE active == ActiveStage(task[t].stage)
             row    == Claimed(task[t], active, worker, FreshToken)
             new    == [task |-> t, token |-> row.token, stage |-> active,
                        kind |-> "worker", phase |-> "claimed"]
  <2>1. active \in ActiveStages /\ active \in Stages /\ worker \in Nat /\ FreshToken \in Tokens
    BY <1>13, StageFacts, WorkerType, FreshTokenFacts DEF PopAndClaim
  <2>2. row \in Row /\ row.token = FreshToken
    BY <1>1, <2>1, ClaimedType
  <2>3. new \in Execution
    <3> HIDE DEF active, row
    <3> QED BY <2>1, <2>2 DEF Execution, Kinds, Phases
  <2>4. task' = [task EXCEPT ![t] = row] /\ execs' = execs \cup {new}
    BY <1>13 DEF PopAndClaim
  <2> HIDE DEF row, new
  <2> QED BY <1>13, <2>2, <2>3, <2>4 DEF PopAndClaim, TypeOK, bounds
<1> QED BY <1>3, <1>4, <1>5, <1>6, <1>7, <1>8, <1>9, <1>10, <1>11, <1>12, <1>13 DEF SchedulerStep

\* People and web requests.
LEMMA UserType ==
  ASSUME TypeOK, PendingSound, UserStep
  PROVE  TypeOK'
<1>1. /\ {"QUEUED_FOR_RENDER", "APPROVED", "REVIEWED_WAITING_ACTION", "COMPLETED", "RENDERING"}
           \subseteq Stages
      /\ \A t \in Tasks : task[t] \in Row
  BY DEF Stages, QueueStages, WaitingStages, SettledStages, ActiveStages, TypeOK
<1>2. requests < MaxRequests => requests + 1 \in 0 .. MaxRequests
  BY BoundsAssumption DEF TypeOK
<1>3. ASSUME NEW t \in Tasks, CancelTask(t) PROVE TypeOK'
  <2>1. CancellationRequested(task[t]) \in Row
    BY <1>1, RowOps
  <2> QED BY <1>2, <1>3, <2>1 DEF CancelTask, Requested, TypeOK, proc
<1>4. ASSUME NEW t \in Tasks, RetryTask(t) PROVE TypeOK'
  <2> DEFINE back == Resumed(task[t], ResumeStage(IF task[t].failed = NoStage
                                                  THEN task[t].stage ELSE task[t].failed))
  <2>1. back \in Row
    BY <1>1, RowOps, StageFacts
  <2>2. [back EXCEPT !.attempts = 0] \in Row
    <3> HIDE DEF back
    <3> QED BY <2>1 DEF Row
  <2>3. task' = [task EXCEPT ![t] = [back EXCEPT !.attempts = 0]]
    BY <1>4 DEF RetryTask
  <2>4. [s \in ActiveStages |-> NoBudget] \in [ActiveStages -> Budget]
    BY DEF NoBudget, Budget, Null
  <2>5. budget' = [budget EXCEPT ![t] = [s \in ActiveStages |-> NoBudget]]
    BY <1>4 DEF RetryTask
  <2> HIDE DEF back
  <2> QED BY <1>2, <1>4, <2>2, <2>3, <2>4, <2>5 DEF RetryTask, Requested, TypeOK, proc
<1>5. ASSUME NEW t \in Tasks, SubmitReview(t) PROVE TypeOK'
  <2>1. PICK to \in {"QUEUED_FOR_RENDER", "APPROVED", "REVIEWED_WAITING_ACTION"} :
          task' = [task EXCEPT ![t] = Enqueued(task[t], to)]
    BY <1>5 DEF SubmitReview
  <2>2. Enqueued(task[t], to) \in Row
    BY <1>1, RowOps
  <2> QED BY <1>2, <1>5, <2>1, <2>2 DEF SubmitReview, Requested, TypeOK, proc
<1>6. ASSUME NEW t \in Tasks, RequestRender(t) PROVE TypeOK'
  <2> DEFINE claim == Claimed(Enqueued(task[t], "QUEUED_FOR_RENDER"), "RENDERING", worker, FreshToken)
             c     == [task |-> t, before |-> task[t], after |-> claim]
  <2>1. claim \in Row
    BY <1>1, <1>6, RowOps, WorkerType, FreshTokenFacts, ClaimedType DEF RequestRender
  <2>2. c \in Change
    <3> HIDE DEF claim
    <3> QED BY <1>1, <2>1 DEF Change
  <2>3. pending' = [pending EXCEPT !["web"] = {c}]
    BY <1>6 DEF RequestRender
  <2> HIDE DEF c
  <2>4. pending' \in [Writers -> SUBSET Change]
    BY <2>2, <2>3 DEF TypeOK
  <2>5. requests' \in 0 .. MaxRequests
    BY <1>2, <1>6 DEF RequestRender, Requested
  <2>6. UNCHANGED <<db, execs, asrPool, mode, crashes, stops>>
    BY <1>6 DEF RequestRender
  <2> QED BY <2>4, <2>5, <2>6 DEF TypeOK, db
<1>7. ASSUME NEW t \in Tasks, ConfirmPublished(t) PROVE TypeOK'
  <2>1. Resumed(task[t], "COMPLETED") \in Row
    BY <1>1, RowOps
  <2>2. ledger' \in [Tasks -> LedgerStates]
    BY <1>7 DEF ConfirmPublished, TypeOK, LedgerStates
  <2> QED BY <1>2, <1>7, <2>1, <2>2 DEF ConfirmPublished, Requested, TypeOK, proc
<1>8. CASE FlushRenderRequest
  <2> DEFINE new == {[task |-> c.task, token |-> c.after.token, stage |-> "RENDERING",
                      kind |-> "web", phase |-> "claimed"] : c \in pending["web"]}
  <2>1. "web" \in Writers /\ Flush("web") /\ execs' = execs \cup new
    BY <1>8 DEF FlushRenderRequest, Writers
  <2>2. new \subseteq Execution
    <3>1. ASSUME NEW c \in pending["web"] PROVE c.task \in Tasks /\ c.after.token \in Tokens
      BY DEF PendingSound, TypeOK, Change, Writers
    <3> QED BY <3>1 DEF Execution, ActiveStages, Kinds, Phases
  <2> QED BY <2>1, <2>2, FlushType DEF TypeOK, bounds
<1> QED BY <1>3, <1>4, <1>5, <1>6, <1>7, <1>8 DEF UserStep

LEMMA LifecycleType ==
  ASSUME TypeOK, Lifecycle
  PROVE  TypeOK'
<1>1. CASE RequestStop
  BY <1>1, BoundsAssumption DEF RequestStop, TypeOK, db
<1>2. CASE ReleaseStoppedComputations
  <2>1. \A t \in Tasks : task[t] \in Row /\ Resumed(task[t], ResumeStage(task[t].stage)) \in Row
    BY RowOps, StageFacts DEF TypeOK
  <2>2. task' \in [Tasks -> Row]
    BY <1>2, <2>1 DEF ReleaseStoppedComputations
  <2> QED BY <1>2, <2>2 DEF ReleaseStoppedComputations, TypeOK, proc, bounds
<1>3. CASE Start
  BY <1>3 DEF Start, TypeOK, db, bounds
<1>4. CASE Restart
  BY <1>4, BoundsAssumption DEF Restart, TypeOK, db
<1> QED BY <1>1, <1>2, <1>3, <1>4 DEF Lifecycle

\* Every step keeps the types.
LEMMA TypeStep ==
  ASSUME TypeOK, PendingSound, [Next]_vars
  PROVE  TypeOK'
<1>1. CASE SchedulerStep
  BY <1>1, SchedulerType
<1>2. CASE UserStep
  BY <1>2, UserType
<1>3. CASE Lifecycle
  BY <1>3, LifecycleType
<1>4. CASE \E e \in execs : ExecutionStep(e)
  BY <1>4, ExecutionType
<1>6. ASSUME NEW t \in Tasks, Age(t) PROVE TypeOK'
  <2>1. [task[t] EXCEPT !.aged = TRUE] \in Row
    BY DEF TypeOK, Row
  <2>2. task' = [task EXCEPT ![t] = [task[t] EXCEPT !.aged = TRUE]]
    BY <1>6 DEF Age
  <2> QED BY <1>6, <2>1, <2>2 DEF Age, TypeOK, proc, bounds
<1>7. ASSUME NEW t \in Tasks, RecordUploadResult(t) PROVE TypeOK'
  <2>1. PICK r \in LedgerStates : ledger' = [ledger EXCEPT ![t] = r]
    BY <1>7 DEF RecordUploadResult, LedgerStates
  <2> QED BY <1>7, <2>1 DEF RecordUploadResult, TypeOK, proc, bounds
<1>8. ASSUME NEW p \in asrPool, PoolReap(p) PROVE TypeOK'
  BY <1>8 DEF PoolReap, TypeOK, db, bounds
<1>9. CASE UNCHANGED vars
  BY <1>9 DEF vars, db, proc, bounds, TypeOK
<1> QED BY <1>1, <1>2, <1>3, <1>4, <1>6, <1>7, <1>8, <1>9 DEF Next

-----------------------------------------------------------------------------
(* What open transactions are about to write.                              *)

\* The stage, and so the need of a lease, that an operator on rows leaves.
LEMMA RowLeases ==
  ASSUME NEW row \in Row
  PROVE  /\ Released(row).stage = row.stage
         /\ \A s \in Stages : Enqueued(row, s).stage = s /\ Resumed(row, s).stage = s
         /\ \A permanent \in BOOLEAN :
              MarkedFailed(row, permanent).stage = IF permanent THEN "FAILED" ELSE "TRANSIENT_FAILED"
         /\ WithoutAsr(row).stage = "TRANSCRIBED"
         /\ HasLease(CancellationRequested(row))
<1>1. ASSUME NEW r \in Row PROVE Released(r).stage = r.stage
  BY DEF Released, Row
<1>2. ASSUME NEW r \in Row, NEW s \in Stages PROVE Enqueued(r, s).stage = s
  <2>1. /\ [r EXCEPT !.stage = s, !.attempts = 0] \in Row
        /\ [r EXCEPT !.stage = s, !.attempts = 0].stage = s
    BY DEF Row
  <2> QED BY <2>1, <1>1 DEF Enqueued
<1>3. ASSUME NEW s \in Stages PROVE Resumed(row, s).stage = s
  <2>1. [row EXCEPT !.stage = s] \in Row /\ [row EXCEPT !.stage = s].stage = s
    BY DEF Row
  <2> QED BY <2>1, <1>1 DEF Resumed
<1>4. ASSUME NEW permanent \in BOOLEAN
      PROVE  MarkedFailed(row, permanent).stage = IF permanent THEN "FAILED" ELSE "TRANSIENT_FAILED"
  <2> DEFINE r == [row EXCEPT !.failed = row.stage,
                              !.stage  = IF permanent THEN "FAILED" ELSE "TRANSIENT_FAILED"]
  <2>1. r \in Row /\ r.stage = IF permanent THEN "FAILED" ELSE "TRANSIENT_FAILED"
    BY DEF Row, Stages, SettledStages
  <2>2. MarkedFailed(row, permanent) = Released(r)
    BY DEF MarkedFailed
  <2> HIDE DEF r
  <2> QED BY <2>1, <2>2, <1>1
<1>5. WithoutAsr(row).stage = "TRANSCRIBED"
  <2>1. "TRANSCRIBED" \in Stages
    BY DEF Stages, WaitingStages
  <2>2. Enqueued(row, "TRANSCRIBED") \in Row /\ Enqueued(row, "TRANSCRIBED").stage = "TRANSCRIBED"
    BY <2>1, <1>2, RowOps
  <2> HIDE DEF Enqueued
  <2> QED BY <2>2 DEF WithoutAsr, Row
<1>6. HasLease(CancellationRequested(row))
  <2> DEFINE held   == /\ row.stage \in CancellableActiveStages
                       /\ row.owner # Null
                       /\ row.token # Null
             marked == IF row.stage \in {"TRANSIENT_FAILED", "STALE"}
                       THEN row ELSE [row EXCEPT !.failed = row.stage]
  <2>1. marked \in Row /\ marked.token = row.token
    BY DEF Row
  <2>2. CancellationRequested(row) = Enqueued(marked, IF held THEN "CANCELLING" ELSE "CANCELLED")
    BY DEF CancellationRequested
  <2>3. CASE held
    <3>1. row.token # Null /\ CancellationRequested(row) = Enqueued(marked, "CANCELLING")
      BY <2>2, <2>3
    <3> HIDE DEF marked
    <3>2. Enqueued(marked, "CANCELLING").token = marked.token
      BY <2>1 DEF Enqueued, Row
    <3> QED BY <2>1, <3>1, <3>2 DEF HasLease
  <2>4. CASE ~held
    <3>1. CancellationRequested(row) = Enqueued(marked, "CANCELLED")
      BY <2>2, <2>4
    <3>2. Enqueued(marked, "CANCELLED").stage = "CANCELLED"
      BY <2>1, <1>2 DEF Stages, SettledStages
    <3> QED BY <3>1, <3>2 DEF HasLease, LeasedStages, ActiveStages
  <2> QED BY <2>3, <2>4
<1> QED BY <1>1, <1>2, <1>3, <1>4, <1>5, <1>6

LEMMA DecideSound ==
  ASSUME TypeOK, PendingSound, NEW ts \in SUBSET Tasks, NEW next,
         \A t \in ts : next[t].stage \notin LeasedStages /\ next[t].stage # task[t].stage,
         Decide(ts, next)
  PROVE  PendingSound'
<1> DEFINE read == {[task |-> t, before |-> task[t], after |-> next[t]] : t \in ts}
<1>1. pending' = [pending EXCEPT !["scheduler"] = read] /\ pending \in [Writers -> SUBSET Change]
  BY DEF Decide, TypeOK
<1>2. \A c \in read : c.after.stage \notin LeasedStages /\ c.before.stage # c.after.stage
  OBVIOUS
<1> HIDE DEF read
<1> QED BY <1>1, <1>2 DEF PendingSound, Writers

LEMMA AdvanceSound ==
  ASSUME TypeOK, PendingSound, NEW stage, NEW targets \in SUBSET (Stages \ LeasedStages),
         stage \notin targets, Advance(stage, targets)
  PROVE  PendingSound'
<1>0. PICK ts \in SUBSET InStage(stage) :
        \E to \in [ts -> targets] : Decide(ts, [t \in ts |-> Enqueued(task[t], to[t])])
  BY DEF Advance
<1>1. PICK to \in [ts -> targets] : Decide(ts, [t \in ts |-> Enqueued(task[t], to[t])])
  BY <1>0
<1>2. ts \in SUBSET Tasks /\ \A t \in ts : task[t].stage = stage /\ task[t] \in Row
  BY DEF InStage, TypeOK
<1>3. ASSUME NEW t \in ts
      PROVE  /\ [u \in ts |-> Enqueued(task[u], to[u])][t].stage \notin LeasedStages
             /\ [u \in ts |-> Enqueued(task[u], to[u])][t].stage # task[t].stage
  BY <1>2, RowLeases
<1> QED BY <1>1, <1>2, <1>3, DecideSound

\* No step makes what is about to be written unsound: the rows that handlers
\* read are frozen in `pending`, whatever happens to the rows themselves.
LEMMA PendingStep ==
  ASSUME TypeOK, PendingSound, [Next]_vars
  PROVE  PendingSound'
<1>1. /\ {"QUEUED_FOR_ANALYSIS", "AWAITING_REVIEW", "APPROVED", "APPROVED_WAITING_RENDER",
          "QUEUED_FOR_RENDER", "AWAITING_PUBLISH_CONFIRMATION", "QUEUED_FOR_PUBLISH",
          "COMPLETED", "CANCELLED", "FAILED", "TRANSIENT_FAILED", "TRANSCRIBED"}
           \subseteq Stages \ LeasedStages
      /\ \A t \in Tasks : task[t] \in Row
      /\ pending \in [Writers -> SUBSET Change]
  BY DEF Stages, QueueStages, WaitingStages, SettledStages, ActiveStages, LeasedStages, TypeOK
<1>2. ASSUME pending' = pending PROVE PendingSound'
  BY <1>2 DEF PendingSound
<1>3. ASSUME NEW w \in Writers, Flush(w) PROVE PendingSound'
  BY <1>1, <1>3 DEF Flush, PendingSound, Writers
<1>4. CASE AdvanceRecorded
  <2>1. PICK ts \in SUBSET InStage("RECORDED") :
          Decide(ts, [t \in ts |-> [Enqueued(task[t], "QUEUED_FOR_ANALYSIS") EXCEPT !.asr = "pending"]])
    BY <1>4 DEF AdvanceRecorded
  <2>2. ts \in SUBSET Tasks /\ \A t \in ts : task[t].stage = "RECORDED"
    BY DEF InStage
  <2>3. ASSUME NEW t \in ts
        PROVE  [Enqueued(task[t], "QUEUED_FOR_ANALYSIS") EXCEPT !.asr = "pending"].stage
                 = "QUEUED_FOR_ANALYSIS"
    <3>1. /\ Enqueued(task[t], "QUEUED_FOR_ANALYSIS") \in Row
          /\ Enqueued(task[t], "QUEUED_FOR_ANALYSIS").stage = "QUEUED_FOR_ANALYSIS"
      BY <1>1, <2>2, RowOps, RowLeases
    <3> QED BY <3>1 DEF Row
  <2> QED BY <1>1, <2>1, <2>2, <2>3, DecideSound
<1>5. CASE AdvanceTranscribed
  BY <1>1, <1>5, AdvanceSound DEF AdvanceTranscribed, IfAutomatic
<1>6. CASE AdvanceCandidate
  BY <1>1, <1>6, AdvanceSound DEF AdvanceCandidate, IfAutomatic
<1>7. CASE AdvanceApproved
  BY <1>1, <1>7, AdvanceSound DEF AdvanceApproved, IfAutomatic
<1>8. CASE AdvanceRendered
  BY <1>1, <1>8, AdvanceSound DEF AdvanceRendered, IfAutomatic
<1>9. CASE SyncUploads
  <2> DEFINE known == {t \in Tasks :
                /\ task[t].stage \in {"PUBLISHING", "QUEUED_FOR_PUBLISH", "RENDERED",
                                      "AWAITING_PUBLISH_CONFIRMATION"}
                /\ \/ ledger[t] \in {"success", "failed"}
                   \/ /\ ledger[t] = "reconciliation"
                      /\ task[t].stage # "AWAITING_PUBLISH_CONFIRMATION"}
             next == [t \in known |->
                CASE ledger[t] = "success"        -> Enqueued(task[t], "COMPLETED")
                  [] ledger[t] = "reconciliation" -> Enqueued(task[t], "AWAITING_PUBLISH_CONFIRMATION")
                  [] ledger[t] = "failed"         -> MarkedFailed(task[t], TRUE)]
  <2>1. Decide(known, next)
    BY <1>9 DEF SyncUploads
  <2>2. ASSUME NEW t \in known
        PROVE  next[t].stage \notin LeasedStages /\ next[t].stage # task[t].stage
    <3>0. task[t] \in Row /\ "COMPLETED" \in Stages /\ "AWAITING_PUBLISH_CONFIRMATION" \in Stages
      BY <1>1
    <3>1. /\ Enqueued(task[t], "COMPLETED").stage = "COMPLETED"
          /\ Enqueued(task[t], "AWAITING_PUBLISH_CONFIRMATION").stage = "AWAITING_PUBLISH_CONFIRMATION"
          /\ MarkedFailed(task[t], TRUE).stage = "FAILED"
      <4> HIDE DEF known, next
      <4> QED BY <3>0, RowLeases
    <3>2. \/ /\ next[t] = Enqueued(task[t], "COMPLETED")
             /\ ledger[t] = "success"
          \/ /\ next[t] = Enqueued(task[t], "AWAITING_PUBLISH_CONFIRMATION")
             /\ ledger[t] = "reconciliation"
          \/ /\ next[t] = MarkedFailed(task[t], TRUE)
             /\ ledger[t] = "failed"
      OBVIOUS
    <3>3. task[t].stage \notin {"COMPLETED", "FAILED"}
      OBVIOUS
    <3>4. ledger[t] = "reconciliation" => task[t].stage # "AWAITING_PUBLISH_CONFIRMATION"
      OBVIOUS
    <3> HIDE DEF next, known
    <3> QED BY <1>1, <3>1, <3>2, <3>3, <3>4
  <2> HIDE DEF next
  <2> QED BY <2>1, <2>2, DecideSound
<1>10. ASSUME NEW e \in execs, RefuseUpload(e) PROVE PendingSound'
  <2> DEFINE row == task[e.task]
  <2>1. PICK permanent \in BOOLEAN :
          pending' = [pending EXCEPT !["publisher"] =
                        {[task |-> e.task, before |-> row, after |-> MarkedFailed(row, permanent)]}]
    BY <1>10 DEF RefuseUpload, Refusal
  <2>2. row \in Row /\ row.stage = "PUBLISHING"
    BY <1>10, ExecsType DEF RefuseUpload, Owns, Phases
  <2>3. MarkedFailed(row, permanent).stage \in {"FAILED", "TRANSIENT_FAILED"}
    BY <2>2, RowLeases
  <2> QED BY <1>1, <2>1, <2>2, <2>3 DEF PendingSound, Writers
<1>11. ASSUME NEW t \in Tasks, RequestRender(t) PROVE PendingSound'
  <2> DEFINE claim == Claimed(Enqueued(task[t], "QUEUED_FOR_RENDER"), "RENDERING", worker, FreshToken)
  <2>1. claim.token = FreshToken
    <3>1. "RENDERING" \in Stages /\ Enqueued(task[t], "QUEUED_FOR_RENDER") \in Row
      BY <1>1, RowOps DEF Stages, ActiveStages
    <3> QED BY <1>11, <3>1, WorkerType, FreshTokenFacts, ClaimedType DEF RequestRender
  <2>2. FreshToken \in Tokens /\ FreshToken # task[t].token
    BY <1>11, FreshTokenFacts DEF RequestRender, TokensInUse
  <2>3. pending' = [pending EXCEPT !["web"] = {[task |-> t, before |-> task[t], after |-> claim]}]
    BY <1>11 DEF RequestRender
  <2> HIDE DEF claim
  <2> QED BY <1>1, <2>1, <2>2, <2>3 DEF PendingSound, Writers
<1>12. CASE Restart
  BY <1>12 DEF Restart, PendingSound, Writers
<1>13. CASE SchedulerStep
  <2>1. CASE AdvanceAwaitingReview \/ RetryExpired \/ RecoverStale \/ \E t \in Tasks : PopAndClaim(t)
    <3>1. pending' = pending
      BY <2>1 DEF AdvanceAwaitingReview, RetryExpired, RecoverStale, PopAndClaim, proc
    <3> QED BY <3>1, <1>2
  <2>2. CASE FlushScheduler
    BY <1>3, <2>2 DEF FlushScheduler, Writers
  <2> QED BY <1>4, <1>5, <1>6, <1>7, <1>8, <1>9, <1>13, <2>1, <2>2 DEF SchedulerStep
<1>14. CASE UserStep
  <2>1. ASSUME NEW t \in Tasks, CancelTask(t) \/ RetryTask(t) \/ SubmitReview(t) \/ ConfirmPublished(t)
        PROVE  pending' = pending
    BY <2>1 DEF CancelTask, RetryTask, SubmitReview, ConfirmPublished, proc
  <2>2. CASE FlushRenderRequest
    BY <1>3, <2>2 DEF FlushRenderRequest, Writers
  <2> QED BY <1>2, <1>11, <1>14, <2>1, <2>2 DEF UserStep
<1>15. CASE Lifecycle
  <2>1. CASE RequestStop \/ ReleaseStoppedComputations \/ Start
    <3>1. pending' = pending
      BY <2>1 DEF RequestStop, ReleaseStoppedComputations, Start, proc
    <3> QED BY <3>1, <1>2
  <2> QED BY <1>12, <1>15, <2>1 DEF Lifecycle
<1>16. ASSUME NEW e \in execs, ExecutionStep(e) PROVE PendingSound'
  <2>1. CASE RefuseUpload(e)
    BY <1>10, <2>1
  <2>2. CASE FlushPublisher(e)
    BY <1>3, <2>2 DEF FlushPublisher, Writers
  <2>3. CASE ~RefuseUpload(e) /\ ~FlushPublisher(e)
    <3>1. ASSUME Commit(e) PROVE pending' = pending
      BY <3>1 DEF Commit, CommitTranscript, CommitSignalPass, CommitHighlight, CommitRender,
                  CommitPublishAndAdvance, BodyEnds
    <3>2. ASSUME BodyStep(e) PROVE pending' = pending
      BY <2>3, <3>1, <3>2 DEF BodyStep, LoseLease, FailExecution, AsrProcessCrash,
                              ShutdownInterrupts, CancelRender, BodyEnds
    <3>3. pending' = pending
      BY <1>16, <3>2 DEF ExecutionStep, ReleaseUnstartedClaim, AbandonRequest, StartExecution,
                         Heartbeat, SaveAsrCheckpoint, SendUpload, SettleExecution, proc
    <3> QED BY <3>3, <1>2
  <2> QED BY <2>1, <2>2, <2>3
<1>18. ASSUME NEW t \in Tasks, Age(t) \/ RecordUploadResult(t) PROVE pending' = pending
  BY <1>18 DEF Age, RecordUploadResult, proc
<1>19. ASSUME NEW p \in asrPool, PoolReap(p) PROVE pending' = pending
  BY <1>19 DEF PoolReap
<1>20. CASE UNCHANGED vars
  BY <1>2, <1>20 DEF vars, proc
<1> QED BY <1>2, <1>13, <1>14, <1>15, <1>16, <1>18, <1>19, <1>20 DEF Next

-----------------------------------------------------------------------------
(* Rows in a stage of work carry the token of a lease.                     *)

LEMMA NullIsNoToken == Null \notin Tokens
BY TokensAssumption DEF Null

\* A late write keeps that: it either leaves the stages of work or brings a
\* token of its own, and the stage it writes is never the one it read.
LEMMA OverlaidLease ==
  ASSUME NEW row \in Row, NEW c \in Change,
         \/ c.after.stage \notin LeasedStages /\ c.before.stage # c.after.stage
         \/ c.after.token \in Tokens /\ c.before.token # c.after.token
  PROVE  HasLease(Overlaid(row, c))
<1>1. CASE c.after.stage \notin LeasedStages /\ c.before.stage # c.after.stage
  <2>1. Overlaid(row, c).stage = c.after.stage
    BY <1>1 DEF Overlaid
  <2> QED BY <1>1, <2>1 DEF HasLease
<1>2. CASE c.after.token \in Tokens /\ c.before.token # c.after.token
  <2>1. Overlaid(row, c).token = c.after.token
    BY <1>2 DEF Overlaid
  <2> QED BY <1>2, <2>1, NullIsNoToken DEF HasLease
<1> QED BY <1>1, <1>2

LEMMA FlushLease ==
  ASSUME TypeOK, PendingSound, ActiveHasLease, NEW w \in Writers, Flush(w)
  PROVE  ActiveHasLease'
<1> DEFINE cs == pending[w]
           ChangeOf(t) == CHOOSE c \in cs : c.task = t
<1>1. cs \subseteq Change
  BY DEF TypeOK
<1>2. \A c \in cs : \/ c.after.stage \notin LeasedStages /\ c.before.stage # c.after.stage
                    \/ c.after.token \in Tokens /\ c.before.token # c.after.token
  BY DEF PendingSound, Writers
<1>3. task' = [t \in Tasks |-> IF t \in {c.task : c \in cs}
                              THEN Overlaid(task[t], ChangeOf(t)) ELSE task[t]]
  BY DEF Flush
<1>4. ASSUME NEW t \in Tasks PROVE HasLease(task'[t])
  <2>1. task[t] \in Row /\ HasLease(task[t])
    BY DEF TypeOK, ActiveHasLease
  <2>2. CASE t \in {c.task : c \in cs}
    <3>1. ChangeOf(t) \in cs
      BY <2>2
    <3>2. HasLease(Overlaid(task[t], ChangeOf(t)))
      <4> HIDE DEF cs, ChangeOf
      <4> QED BY <1>1, <1>2, <2>1, <3>1, OverlaidLease
    <3> QED BY <1>3, <2>2, <3>2
  <2> QED BY <1>3, <2>1, <2>2
<1> QED BY <1>4 DEF ActiveHasLease, HasLease

\* One row is written and has its lease.
LEMMA WriteLease ==
  ASSUME TypeOK, ActiveHasLease, NEW t \in Tasks, NEW row,
         HasLease(row), task' = [task EXCEPT ![t] = row]
  PROVE  ActiveHasLease'
<1>1. \A u \in Tasks : task'[u] = row \/ task'[u] = task[u]
  BY DEF TypeOK
<1> QED BY <1>1 DEF ActiveHasLease, HasLease

\* Stages in which no row needs a lease.
LEMMA RestingStages ==
  /\ {"QUEUED_FOR_TRANS", "TRANSCRIBED", "CANDIDATE_CREATED", "COMPLETED", "RENDERED",
      "AWAITING_PUBLISH_CONFIRMATION", "APPROVED", "QUEUED_FOR_RENDER",
      "REVIEWED_WAITING_ACTION", "CANCELLED", "FAILED", "TRANSIENT_FAILED"}
       \subseteq Stages \ LeasedStages
  /\ SettledStages \cap LeasedStages = {}
  /\ "TRANSIENT_FAILED" \notin LeasedStages
BY DEF Stages, QueueStages, WaitingStages, SettledStages, ActiveStages, LeasedStages

\* The rows the operators make for those stages need none.
LEMMA RestingRows ==
  ASSUME NEW row \in Row
  PROVE  /\ \A s \in Stages \ LeasedStages : HasLease(Enqueued(row, s)) /\ HasLease(Resumed(row, s))
         /\ \A s : HasLease(Resumed(row, ResumeStage(s)))
         /\ \A permanent \in BOOLEAN : HasLease(MarkedFailed(row, permanent))
         /\ HasLease(WithoutAsr(row))
         /\ HasLease(CancellationRequested(row))
BY RowLeases, StageFacts, RestingStages DEF HasLease

LEMMA BodyLease ==
  ASSUME TypeOK, PendingSound, ActiveHasLease, NEW e \in execs, BodyStep(e)
  PROVE  ActiveHasLease'
<1> DEFINE row == task[e.task]
<1>1. row \in Row /\ e.task \in Tasks /\ HasLease(row)
  BY ExecsType DEF Phases, Execution, ActiveHasLease
<1>2. ASSUME NEW r, HasLease(r), NEW b, BodyEnds(e, r, b) PROVE ActiveHasLease'
  BY <1>1, <1>2, WriteLease DEF BodyEnds
<1>3. ASSUME NEW s \in Stages \ LeasedStages, NEW asr
      PROVE  HasLease([Enqueued(row, s) EXCEPT !.asr = asr])
  <2>1. Enqueued(row, s) \in Row /\ Enqueued(row, s).stage = s
    BY <1>1, RowOps, RowLeases
  <2>2. [Enqueued(row, s) EXCEPT !.asr = asr].stage = s
    BY <2>1 DEF Row
  <2> QED BY <2>2 DEF HasLease
<1>4. CASE Commit(e)
  <2>1. CASE CommitTranscript(e)
    BY <1>2, <1>3, <2>1, RestingStages DEF CommitTranscript
  <2>2. CASE CommitSignalPass(e)
    BY <1>2, <1>3, <2>2, RestingStages DEF CommitSignalPass
  <2>3. CASE CommitHighlight(e)
    BY <1>1, <1>2, <2>3, RestingStages, RestingRows DEF CommitHighlight
  <2>4. CASE CommitRender(e)
    BY <1>1, <1>2, <2>4, RestingStages, RestingRows DEF CommitRender
  <2>5. CASE CommitPublishAndAdvance(e)
    BY <1>1, <1>2, <2>5, RestingStages, RestingRows DEF CommitPublishAndAdvance
  <2> QED BY <1>4, <2>1, <2>2, <2>3, <2>4, <2>5 DEF Commit
<1>5. CASE RefuseUpload(e)
  BY <1>5 DEF RefuseUpload, db, ActiveHasLease, HasLease
<1>6. CASE LoseLease(e)
  BY <1>1, <1>2, <1>6 DEF LoseLease
<1>7. CASE FailExecution(e)
  BY <1>1, <1>2, <1>7, RestingRows DEF FailExecution
<1>8. CASE AsrProcessCrash(e)
  BY <1>1, <1>2, <1>8, RestingRows DEF AsrProcessCrash
<1>9. CASE ShutdownInterrupts(e)
  BY <1>1, <1>2, <1>9, RestingRows DEF ShutdownInterrupts
<1>10. CASE CancelRender(e)
  BY <1>1, <1>2, <1>10, RestingRows DEF CancelRender
<1>11. CASE FlushPublisher(e)
  BY <1>11, FlushLease DEF FlushPublisher, Writers
<1> QED BY <1>4, <1>5, <1>6, <1>7, <1>8, <1>9, <1>10, <1>11 DEF BodyStep

LEMMA LeaseStep ==
  ASSUME TypeOK, PendingSound, ActiveHasLease, [Next]_vars
  PROVE  ActiveHasLease'
<1>1. \A t \in Tasks : task[t] \in Row /\ HasLease(task[t])
  BY DEF TypeOK, ActiveHasLease
<1>2. ASSUME task' = task PROVE ActiveHasLease'
  BY <1>2 DEF ActiveHasLease, HasLease
<1>3. ASSUME \A t \in Tasks : HasLease(task'[t]) PROVE ActiveHasLease'
  BY <1>3 DEF ActiveHasLease, HasLease
<1>4. ASSUME NEW ts, NEW next, Decide(ts, next) PROVE task' = task
  BY <1>4 DEF Decide, db
<1>5. CASE SchedulerStep
  <2>1. CASE \/ AdvanceRecorded \/ AdvanceTranscribed \/ AdvanceCandidate
            \/ AdvanceApproved \/ AdvanceRendered \/ SyncUploads
    <3>1. task' = task
      BY <1>4, <2>1 DEF AdvanceRecorded, AdvanceTranscribed, AdvanceCandidate, AdvanceApproved,
                        AdvanceRendered, SyncUploads, Advance
    <3> QED BY <3>1, <1>2
  <2>2. CASE FlushScheduler
    BY <2>2, FlushLease DEF FlushScheduler, Writers
  <2>3. CASE AdvanceAwaitingReview
    <3>1. \A t \in Tasks : task'[t] = task[t] \/ task'[t] = Enqueued(task[t], "APPROVED")
      BY <2>3 DEF AdvanceAwaitingReview
    <3> QED BY <1>1, <1>3, <3>1, RestingStages, RestingRows
  <2>4. CASE RetryExpired
    <3>1. ASSUME NEW t \in Tasks
          PROVE  \/ task'[t] = task[t]
                 \/ task'[t] = Resumed(task[t], ResumeStage(task[t].failed))
                 \/ task'[t] = WithoutAsr(task[t])
                 \/ task'[t] = Resumed(task[t], "FAILED")
      BY <2>4 DEF RetryExpired
    <3> QED BY <1>1, <1>3, <3>1, RestingStages, RestingRows
  <2>5. CASE RecoverStale
    <3>1. ASSUME NEW t \in Tasks PROVE HasLease(task'[t])
      <4>1. \A b : HasLease(Recovered(t, b))
        BY <1>1, RestingRows DEF Recovered
      <4>2. HasLease(Enqueued(task[t], "CANCELLED"))
        BY <1>1, RestingStages, RestingRows
      <4>3. task[t].stage \in SettledStages \cup {"TRANSIENT_FAILED"} => HasLease(Released(task[t]))
        BY <1>1, RowLeases, RestingStages DEF HasLease
      <4> QED BY <1>1, <2>5, <4>1, <4>2, <4>3 DEF RecoverStale
    <3> QED BY <3>1, <1>3
  <2>6. ASSUME NEW t \in Tasks, PopAndClaim(t) PROVE ActiveHasLease'
    <3> DEFINE row == Claimed(task[t], ActiveStage(task[t].stage), worker, FreshToken)
    <3>1. /\ ActiveStage(task[t].stage) \in Stages
          /\ worker \in Nat /\ FreshToken \in Tokens
      BY <2>6, StageFacts, WorkerType, FreshTokenFacts DEF PopAndClaim
    <3>2. row.token = FreshToken
      BY <1>1, <3>1, ClaimedType
    <3>3. task' = [task EXCEPT ![t] = row]
      BY <2>6 DEF PopAndClaim
    <3> HIDE DEF row
    <3> QED BY <3>1, <3>2, <3>3, NullIsNoToken, WriteLease DEF HasLease
  <2> QED BY <1>5, <2>1, <2>2, <2>3, <2>4, <2>5, <2>6 DEF SchedulerStep
<1>6. CASE UserStep
  <2>1. ASSUME NEW t \in Tasks, CancelTask(t) PROVE ActiveHasLease'
    BY <1>1, <2>1, RestingRows, WriteLease DEF CancelTask
  <2>2. ASSUME NEW t \in Tasks, RetryTask(t) PROVE ActiveHasLease'
    <3> DEFINE s    == ResumeStage(IF task[t].failed = NoStage THEN task[t].stage ELSE task[t].failed)
               back == Resumed(task[t], s)
    <3>1. back \in Row /\ back.stage = s /\ s \notin LeasedStages
      BY <1>1, StageFacts, RowOps, RowLeases
    <3>2. task' = [task EXCEPT ![t] = [back EXCEPT !.attempts = 0]]
      BY <2>2 DEF RetryTask
    <3> HIDE DEF back, s
    <3>3. HasLease([back EXCEPT !.attempts = 0])
      BY <3>1 DEF HasLease, Row
    <3> QED BY <3>2, <3>3, WriteLease
  <2>3. ASSUME NEW t \in Tasks, SubmitReview(t) PROVE ActiveHasLease'
    <3>1. PICK to \in {"QUEUED_FOR_RENDER", "APPROVED", "REVIEWED_WAITING_ACTION"} :
            task' = [task EXCEPT ![t] = Enqueued(task[t], to)]
      BY <2>3 DEF SubmitReview
    <3> QED BY <1>1, <3>1, RestingStages, RestingRows, WriteLease
  <2>4. ASSUME NEW t \in Tasks, RequestRender(t) PROVE ActiveHasLease'
    BY <1>2, <2>4 DEF RequestRender, db
  <2>5. ASSUME NEW t \in Tasks, ConfirmPublished(t) PROVE ActiveHasLease'
    BY <1>1, <2>5, RestingStages, RestingRows, WriteLease DEF ConfirmPublished
  <2>6. CASE FlushRenderRequest
    BY <2>6, FlushLease DEF FlushRenderRequest, Writers
  <2> QED BY <1>6, <2>1, <2>2, <2>3, <2>4, <2>5, <2>6 DEF UserStep
<1>7. CASE Lifecycle
  <2>1. CASE ReleaseStoppedComputations
    <3>1. \A t \in Tasks : task'[t] = task[t] \/ task'[t] = Resumed(task[t], ResumeStage(task[t].stage))
      BY <2>1 DEF ReleaseStoppedComputations
    <3> QED BY <1>1, <1>3, <3>1, RestingRows
  <2>2. CASE RequestStop \/ Start \/ Restart
    BY <1>2, <2>2 DEF RequestStop, Start, Restart, db
  <2> QED BY <1>7, <2>1, <2>2 DEF Lifecycle
<1>8. ASSUME NEW e \in execs, ExecutionStep(e) PROVE ActiveHasLease'
  <2> DEFINE row == task[e.task]
  <2>0. row \in Row /\ e.task \in Tasks /\ HasLease(row) /\ e.stage \in ActiveStages
    BY ExecsType DEF Phases, Execution, ActiveHasLease
  <2>1. CASE ReleaseUnstartedClaim(e)
    <3> DEFINE queued == CHOOSE q \in QueueStages : ActiveStage(q) = e.stage
               back   == Resumed(row, queued)
               n      == IF back.attempts > 0 THEN back.attempts - 1 ELSE 0
    <3>1. queued \in QueueStages
      BY <2>0, StageFacts
    <3>2. back \in Row /\ back.stage \notin LeasedStages
      <4> HIDE DEF queued
      <4>1. queued \in Stages /\ queued \notin LeasedStages
        BY <3>1, StageFacts
      <4> QED BY <2>0, <4>1, RowOps, RowLeases
    <3>3. task' = [task EXCEPT ![e.task] = [back EXCEPT !.attempts = n]] \/ task' = task
      BY <2>1 DEF ReleaseUnstartedClaim
    <3> HIDE DEF n, back
    <3>4. HasLease([back EXCEPT !.attempts = n])
      BY <3>2 DEF HasLease, Row
    <3> QED BY <1>2, <2>0, <3>3, <3>4, WriteLease
  <2>2. CASE AbandonRequest(e) \/ StartExecution(e) \/ SaveAsrCheckpoint(e) \/ SendUpload(e)
    BY <1>2, <2>2 DEF AbandonRequest, StartExecution, SaveAsrCheckpoint, SendUpload, db
  <2>3. CASE Heartbeat(e)
    <3>1. task' = [task EXCEPT ![e.task] = [row EXCEPT !.aged = FALSE]]
      BY <2>3 DEF Heartbeat
    <3>2. HasLease([row EXCEPT !.aged = FALSE])
      BY <2>0 DEF HasLease, Row
    <3> QED BY <2>0, <3>1, <3>2, WriteLease
  <2>4. CASE BodyStep(e)
    BY <2>4, BodyLease
  <2>5. CASE SettleExecution(e)
    <3>1. task' = [task EXCEPT ![e.task] = Enqueued(row, "CANCELLED")] \/ task' = task
      BY <2>5 DEF SettleExecution
    <3>2. HasLease(Enqueued(row, "CANCELLED"))
      BY <2>0, RestingStages, RestingRows
    <3> QED BY <1>2, <2>0, <3>1, <3>2, WriteLease
  <2> QED BY <1>8, <2>1, <2>2, <2>3, <2>4, <2>5 DEF ExecutionStep
<1>10. ASSUME NEW t \in Tasks, Age(t) PROVE ActiveHasLease'
  <2>1. task' = [task EXCEPT ![t] = [task[t] EXCEPT !.aged = TRUE]]
    BY <1>10 DEF Age
  <2>2. HasLease([task[t] EXCEPT !.aged = TRUE])
    BY <1>1 DEF HasLease, Row
  <2> QED BY <2>1, <2>2, WriteLease
<1>11. ASSUME NEW t \in Tasks, RecordUploadResult(t) PROVE task' = task
  BY <1>11 DEF RecordUploadResult
<1>12. ASSUME NEW p \in asrPool, PoolReap(p) PROVE task' = task
  BY <1>12 DEF PoolReap, db
<1>13. CASE UNCHANGED vars
  BY <1>2, <1>13 DEF vars, db
<1> QED BY <1>2, <1>5, <1>6, <1>7, <1>8, <1>10, <1>11, <1>12, <1>13 DEF Next

-----------------------------------------------------------------------------
(* No two executions share a lease.                                        *)

\* The steps of executions that exist take none of their tokens elsewhere.
LEMMA SameTokens ==
  ASSUME TypeOK, UniqueTokens,
         \/ execs' \subseteq execs
         \/ \E e \in execs, phase \in Phases : execs' = Moved(e, phase),
         pending'["web"] \subseteq pending["web"]
  PROVE  UniqueTokens'
<1>1. CASE execs' \subseteq execs
  BY <1>1 DEF UniqueTokens
<1>2. ASSUME NEW e \in execs, NEW phase \in Phases, execs' = Moved(e, phase)
      PROVE  UniqueTokens'
  <2>1. InPhase(e, phase).token = e.token
    BY ExecsType DEF InPhase, Execution
  <2>2. \A f \in execs' : f = InPhase(e, phase) \/ (f \in execs /\ f # e)
    BY <1>2 DEF Moved
  <2> QED BY <2>1, <2>2 DEF UniqueTokens
<1> QED BY <1>1, <1>2

LEMMA BodyTokens ==
  ASSUME TypeOK, UniqueTokens, NEW e \in execs, BodyStep(e)
  PROVE  UniqueTokens'
<1>1. {"ended", "refused"} \subseteq Phases
  BY DEF Phases
<1>2. /\ \E phase \in {"ended", "refused"} : execs' = Moved(e, phase)
      /\ pending'["web"] = pending["web"]
  <2>1. ASSUME Commit(e) PROVE execs' = Moved(e, "ended") /\ pending' = pending
    BY <2>1 DEF Commit, CommitTranscript, CommitSignalPass, CommitHighlight, CommitRender,
                CommitPublishAndAdvance, BodyEnds
  <2>2. CASE RefuseUpload(e)
    BY <2>2 DEF RefuseUpload, TypeOK, Writers
  <2>3. CASE FlushPublisher(e)
    BY <2>3 DEF FlushPublisher, Flush, TypeOK, Writers
  <2> QED BY <2>1, <2>2, <2>3 DEF BodyStep, LoseLease, FailExecution, AsrProcessCrash, ShutdownInterrupts,
                            CancelRender, BodyEnds
<1> QED BY <1>1, <1>2, SameTokens

\* Only a claim brings a new token, and nothing remembers the one it draws.
LEMMA TokensStep ==
  ASSUME TypeOK, UniqueTokens, [Next]_vars
  PROVE  UniqueTokens'
<1>1. /\ \A e \in execs : e.token \in TokensInUse
      /\ \A c \in pending["web"] : c.after.token \in TokensInUse
  BY DEF TokensInUse, Writers
<1>2. ASSUME UNCHANGED execs, pending'["web"] \subseteq pending["web"] PROVE UniqueTokens'
  BY <1>2, SameTokens
<1>3. ASSUME NEW w \in Writers, Flush(w) PROVE pending'["web"] \subseteq pending["web"]
  BY <1>3 DEF Flush, TypeOK
<1>4. ASSUME NEW ts, NEW next, Decide(ts, next) PROVE UNCHANGED execs /\ pending'["web"] = pending["web"]
  BY <1>4 DEF Decide, TypeOK, Writers
<1>5. CASE SchedulerStep
  <2>1. CASE \/ AdvanceRecorded \/ AdvanceTranscribed \/ AdvanceCandidate
            \/ AdvanceApproved \/ AdvanceRendered \/ SyncUploads
    <3>1. UNCHANGED execs /\ pending'["web"] = pending["web"]
      BY <1>4, <2>1 DEF AdvanceRecorded, AdvanceTranscribed, AdvanceCandidate, AdvanceApproved,
                        AdvanceRendered, SyncUploads, Advance
    <3> QED BY <3>1, <1>2
  <2>2. CASE FlushScheduler
    BY <1>2, <1>3, <2>2 DEF FlushScheduler, Writers
  <2>3. CASE AdvanceAwaitingReview \/ RetryExpired \/ RecoverStale
    <3>1. UNCHANGED <<execs, pending>>
      BY <2>3 DEF AdvanceAwaitingReview, RetryExpired, RecoverStale, proc
    <3> QED BY <3>1, <1>2
  <2>4. ASSUME NEW t \in Tasks, PopAndClaim(t) PROVE UniqueTokens'
    <3> DEFINE row == Claimed(task[t], ActiveStage(task[t].stage), worker, FreshToken)
               new == [task |-> t, token |-> row.token, stage |-> ActiveStage(task[t].stage),
                       kind |-> "worker", phase |-> "claimed"]
    <3>1. /\ ActiveStage(task[t].stage) \in Stages /\ task[t] \in Row
          /\ worker \in Nat /\ FreshToken \in Tokens /\ FreshToken \notin TokensInUse
      BY <2>4, StageFacts, WorkerType, FreshTokenFacts DEF PopAndClaim, TypeOK
    <3>2. row.token = FreshToken
      BY <3>1, ClaimedType
    <3>3. execs' = execs \cup {new} /\ pending' = pending
      BY <2>4 DEF PopAndClaim
    <3>4. new.token = FreshToken
      BY <3>2
    <3> HIDE DEF new, row
    <3> QED BY <1>1, <3>1, <3>3, <3>4 DEF UniqueTokens
  <2> QED BY <1>5, <2>1, <2>2, <2>3, <2>4 DEF SchedulerStep
<1>6. CASE UserStep
  <2>1. ASSUME NEW t \in Tasks, CancelTask(t) \/ RetryTask(t) \/ SubmitReview(t) \/ ConfirmPublished(t)
        PROVE  UniqueTokens'
    <3>1. UNCHANGED <<execs, pending>>
      BY <2>1 DEF CancelTask, RetryTask, SubmitReview, ConfirmPublished, proc
    <3> QED BY <3>1, <1>2
  <2>2. ASSUME NEW t \in Tasks, RequestRender(t) PROVE UniqueTokens'
    <3> DEFINE claim == Claimed(Enqueued(task[t], "QUEUED_FOR_RENDER"), "RENDERING", worker, FreshToken)
    <3>1. /\ "RENDERING" \in Stages /\ Enqueued(task[t], "QUEUED_FOR_RENDER") \in Row
          /\ worker \in Nat /\ FreshToken \in Tokens /\ FreshToken \notin TokensInUse
      BY <2>2, RowOps, RestingStages, WorkerType, FreshTokenFacts DEF RequestRender, TypeOK, Stages, ActiveStages
    <3>2. claim.token = FreshToken
      BY <3>1, ClaimedType
    <3>3. execs' = execs /\ pending'["web"] = {[task |-> t, before |-> task[t], after |-> claim]}
      BY <2>2 DEF RequestRender, TypeOK, Writers
    <3> HIDE DEF claim
    <3> QED BY <1>1, <3>1, <3>2, <3>3 DEF UniqueTokens
  <2>3. CASE FlushRenderRequest
    <3> DEFINE Started(c) == [task |-> c.task, token |-> c.after.token, stage |-> "RENDERING",
                              kind |-> "web", phase |-> "claimed"]
    <3>1. execs' = execs \cup {Started(c) : c \in pending["web"]} /\ pending'["web"] = {}
      BY <2>3 DEF FlushRenderRequest, Flush, TypeOK, Writers
    <3>2. \A c \in pending["web"] : Started(c).token = c.after.token
      OBVIOUS
    <3> HIDE DEF Started
    <3> QED BY <3>1, <3>2 DEF UniqueTokens
  <2> QED BY <1>6, <2>1, <2>2, <2>3 DEF UserStep
<1>7. CASE Lifecycle
  <2>1. CASE RequestStop \/ ReleaseStoppedComputations \/ Start
    <3>1. UNCHANGED <<execs, pending>>
      BY <2>1 DEF RequestStop, ReleaseStoppedComputations, Start, proc
    <3> QED BY <3>1, <1>2
  <2>2. CASE Restart
    BY <2>2 DEF Restart, UniqueTokens, Writers
  <2> QED BY <1>7, <2>1, <2>2 DEF Lifecycle
<1>8. ASSUME NEW e \in execs, ExecutionStep(e) PROVE UniqueTokens'
  <2>1. CASE ReleaseUnstartedClaim(e) \/ AbandonRequest(e) \/ SettleExecution(e)
    <3>1. execs' \subseteq execs /\ pending' = pending
      BY <2>1 DEF ReleaseUnstartedClaim, AbandonRequest, SettleExecution
    <3> QED BY <3>1, SameTokens
  <2>2. CASE StartExecution(e) \/ SendUpload(e)
    <3>1. \E phase \in Phases : execs' = Moved(e, phase)
      BY <2>2 DEF StartExecution, SendUpload, Phases
    <3>2. pending' = pending
      BY <2>2 DEF StartExecution, SendUpload
    <3> QED BY <3>1, <3>2, SameTokens
  <2>3. CASE Heartbeat(e) \/ SaveAsrCheckpoint(e)
    <3>1. UNCHANGED <<execs, pending>>
      BY <2>3 DEF Heartbeat, SaveAsrCheckpoint, proc
    <3> QED BY <3>1, <1>2
  <2>4. CASE BodyStep(e)
    BY <2>4, BodyTokens
  <2> QED BY <1>8, <2>1, <2>2, <2>3, <2>4 DEF ExecutionStep
<1>10. ASSUME NEW t \in Tasks, Age(t) \/ RecordUploadResult(t) PROVE UNCHANGED <<execs, pending>>
  BY <1>10 DEF Age, RecordUploadResult, proc
<1>11. ASSUME NEW p \in asrPool, PoolReap(p) PROVE UNCHANGED <<execs, pending>>
  BY <1>11 DEF PoolReap
<1>12. CASE UNCHANGED vars
  BY <1>2, <1>12 DEF vars, proc
<1> QED BY <1>2, <1>5, <1>6, <1>7, <1>8, <1>10, <1>11, <1>12 DEF Next

-----------------------------------------------------------------------------
(* The theorems.                                                           *)

\* The types of rows, budgets, executions and open transactions are preserved
\* by every step, whatever the tasks, tokens and bounds, and no open
\* transaction can write a lease that another one holds into a leased stage.
THEOREM TypesAndPending == Spec => [](TypeOK /\ PendingSound)
<1>1. Init => TypeOK /\ PendingSound
  BY InitType DEF Init, PendingSound, Writers
<1>2. TypeOK /\ PendingSound /\ [Next]_vars => (TypeOK /\ PendingSound)'
  BY TypeStep, PendingStep
<1> QED BY <1>1, <1>2, PTL DEF Spec

\* Type correctness, for the state the pipeline keeps in the database and in
\* the process.
THEOREM TypeCorrect == Spec => []TypeOK
BY TypesAndPending, PTL

\* A row of segment_tasks is in a stage of work, or being cancelled, only under
\* a token, in every order of claims, commits, recovery, shutdown and the late
\* writes of the handlers that read before they lock.
THEOREM LeasedWhileActive == Spec => []ActiveHasLease
<1>1. Init => ActiveHasLease
  <2> SUFFICES ASSUME Init PROVE ActiveHasLease
    OBVIOUS
  <2>1. ASSUME NEW t \in Tasks PROVE task[t].stage \in InitialStages
    BY DEF Init
  <2>2. InitialStages \cap LeasedStages = {}
    BY InitialAssumption DEF QueueStages, WaitingStages, LeasedStages, ActiveStages
  <2> QED BY <2>1, <2>2 DEF ActiveHasLease, HasLease
<1>2. TypeOK /\ PendingSound /\ ActiveHasLease /\ [Next]_vars => ActiveHasLease'
  BY LeaseStep
<1> QED BY <1>1, <1>2, TypesAndPending, PTL DEF Spec

\* Tokens name at most one execution each, so SoleHolder holds and a row that
\* names a token names the one execution that may write under it.
THEOREM TokensAreUnique == Spec => []UniqueTokens
<1>1. Init => UniqueTokens
  BY DEF Init, UniqueTokens, Writers
<1>2. TypeOK /\ UniqueTokens /\ [Next]_vars => UniqueTokens'
  BY TokensStep
<1> QED BY <1>1, <1>2, TypeCorrect, PTL DEF Spec

\* No two executions of this process work under the same lease: tokens are
\* drawn once, and neither recovery, nor a web request that has read a row and
\* not written it yet, brings one back.
THEOREM OneHolderPerLease == Spec => []SoleHolder
<1>1. UniqueTokens => SoleHolder
  BY DEF UniqueTokens, SoleHolder
<1> QED BY <1>1, TokensAreUnique, PTL
=============================================================================
