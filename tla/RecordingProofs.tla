--------------------------- MODULE RecordingProofs ---------------------------
(***************************************************************************)
(* The safety properties of recording, for every set of people and every   *)
(* bound on generations, recoveries, requests, faults, crashes and stops.  *)
(***************************************************************************)
EXTENDS RecordingProperties, TLAPS

\* The phases in which the recorder has the lock file open.
Holds == {"recording", "supervising", "ending", "settling", "closing"}

\* The phases in which a recorder has not been given an end.
Early == {"none", "opening", "recording", "supervising"}

\* A process that does not serve yet, or no longer, records nothing and knows
\* no requests; one that stops recovers nothing.
ServiceSound ==
  /\ service \in {"down", "settling", "restarting"} =>
       /\ recorder = NoRecorder /\ stale = NoStale
       /\ \A c \in Callers : call[c] = NoCall
  /\ service # "up" => recovery = None
  /\ service \in {"down", "restarting"} => settling = None

\* Only a service that stops keeps the intents of what it stops.
KeepSound == \A c \in Callers : call[c].op = "keep" => service = "stopping"

\* The lock of the room: who starts a recording has found none.
LockSound ==
  /\ \A c, d \in Callers : call[c].inside /\ call[d].inside => c = d
  /\ service = "up" /\ (\E c \in Callers : call[c].op = "start" /\ call[c].inside) => ~IsRunning

\* The recorder works for the last intent, and nothing waits to be recovered.
RecorderSound ==
  /\ IsRunning => /\ recorder.gen \in Generations /\ recorder.gen = intent.gen
                  /\ recovery = None
  /\ ~IsRunning => recorder = NoRecorder
  /\ recorder.phase = "opening" => ~execution[recorder.gen].bound
  /\ recorder.phase \in Early => recorder.outcome = "none"

\* What there is on disk belongs to an execution that was bound.
BoundSound ==
  \A g \in Generations :
    /\ execution[g].bound => g <= intent.gen
    /\ holders[g] # {} \/ g \in tail => execution[g].bound

\* The host holds the lock file of the recorder's execution and of no other.
HostSound ==
  \A g \in Generations :
    "host" \in holders[g] <=> recorder.phase \in Holds /\ recorder.gen = g

\* Outside the supervision by its recorder, FFmpeg writes only while no service
\* has settled what an earlier one left.
FFmpegSound ==
  \A g \in Generations :
    "ffmpeg" \in holders[g] =>
      \/ service \in {"down", "settling"}
      \/ recorder.phase = "supervising" /\ recorder.gen = g

\* Who settles an execution has its lock file alone.
SettlingSound ==
  settling # None => holders[settling] = {"settler"}

\* A recorder that has drained its FFmpeg has left nothing unregistered.
DrainedSound ==
  \/ recorder.phase \in {"recording", "settling"}
  \/ recorder.phase = "ending" /\ ~recorder.tailPending
  => recorder.gen \notin tail

\* What is settled has ended first.
EndsSound ==
  /\ \A g \in Generations : execution[g].settled => execution[g].finalized
  /\ recorder.phase = "settling" => execution[recorder.gen].finalized

\* What an unlocked finish has read can still be written: the execution is bound
\* as it was, and the intent, if it should change, has at most been blocked.
StaleSound ==
  stale # NoStale =>
    /\ recorder.phase \in {"run_failed", "task_failed"} /\ stale.gen = recorder.gen
    /\ stale.execution.bound = execution[stale.gen].bound
    /\ stale.execution.finalized
    /\ stale.execution.settled => stale.gen \notin tail
    /\ stale.intent.gen = intent.gen /\ stale.intent.crashes = intent.crashes
    /\ stale.changed =>
         /\ intent.state \in {"accepted", "running", "blocked"}
         /\ stale.intent.state \in {"stopped", "cooldown", "blocked"}
         /\ stale.intent.state = "blocked" => recorder.outcome \in {"action", "failed"}

\* Losses are charged at the next start, and nothing goes on beyond the budget.
Uncharged == IF service \in {"down", "settling"} /\ Live THEN 1 ELSE 0

BudgetSound ==
  /\ Live \/ intent.state = "cooldown" \/ IsRunning => intent.crashes <= MaxRecoveries
  /\ lost <= intent.crashes + Uncharged

\* A blocked intent holds the room back, at the latest when its recorder leaves.
\* A service that stops may clear the hold; the next one sets it again.
BlockedSound ==
  intent.state = "blocked" =>
    \/ room.held
    \/ service \in {"down", "settling", "restarting", "stopping"}
    \/ IsRunning /\ recorder.outcome \in {"action", "failed"}

IInv ==
  /\ TypeOK /\ ServiceSound /\ KeepSound /\ LockSound /\ RecorderSound /\ BoundSound /\ HostSound
  /\ FFmpegSound /\ SettlingSound /\ DrainedSound /\ EndsSound /\ StaleSound
  /\ BudgetSound /\ BlockedSound /\ SettledIsComplete /\ OneWriter /\ BudgetBoundsRecovery
-----------------------------------------------------------------------------
\* What the parts of a step leave alone.

LEMMA ManagerFrame ==
  ASSUME Manager
  PROVE  /\ UNCHANGED <<execution, holders, tail, service, settling, stale, faults, crashes, stops>>
         /\ \/ ArmAutoRecording
            \/ \E c \in Callers : StartCommit(c) \/ StopEnter(c) \/ StopLeave(c)
            \/ UNCHANGED <<intent, room, occurrence, recorder, recovery, lost>>
PROOF
<1> DEFINE F == UNCHANGED <<execution, holders, tail, service, settling, stale, faults, crashes, stops>>
<1> USE DEF database, disk, memory, bounds
<1>1. CASE ArmAutoRecording BY <1>1 DEF ArmAutoRecording
<1>2. ASSUME NEW c \in Callers, Request(c) \/ StartEnter(c) \/ StartRefused(c)
      PROVE  F /\ UNCHANGED <<intent, room, occurrence, recorder, recovery, lost>>
  BY <1>2 DEF Request, StartEnter, StartRefused
<1>3. ASSUME NEW c \in Callers, StartCommit(c) PROVE F BY <1>3 DEF StartCommit
<1>4. ASSUME NEW c \in Callers, StopEnter(c) \/ StopLeave(c) PROVE F
  BY <1>4 DEF StopEnter, StopLeave
<1> QED BY <1>1, <1>2, <1>3, <1>4 DEF Manager

LEMMA WatchersFrame ==
  ASSUME Watchers
  PROVE  /\ UNCHANGED <<execution, holders, tail, service, recorder, settling, stale, lost,
                        requests, faults, crashes, stops>>
         /\ UNCHANGED <<intent, room, recovery>> \/ MonitorBlocks \/ MonitorSeesOffline
         /\ UNCHANGED occurrence \/ CompleteOccurrence
PROOF
<1> USE DEF database, disk, memory, bounds
<1>1. CASE MonitorCheck \/ MonitorIgnores \/ MonitorSeesLive
  BY <1>1 DEF MonitorCheck, MonitorIgnores, MonitorSeesLive
<1>2. CASE MonitorBlocks \/ MonitorSeesOffline BY <1>2 DEF MonitorBlocks, MonitorSeesOffline
<1>3. CASE EndRequested \/ CompleteOccurrence BY <1>3 DEF EndRequested, CompleteOccurrence
<1>4. CASE \E o \in Occurrences : RunDue(o) BY <1>4 DEF RunDue
<1> QED BY <1>1, <1>2, <1>3, <1>4 DEF Watchers

LEMMA RecordersFrame ==
  ASSUME Recorders
  PROVE  /\ UNCHANGED <<occurrence, service, call, settling, requests, crashes, stops>>
         /\ faults' \in {faults, faults + 1}
         /\ UNCHANGED execution \/ RecorderOpens \/ FinishExecution \/ QueueRecordingEnd \/ FailWrites
         /\ UNCHANGED room \/ RecorderLeaves
         /\ UNCHANGED holders \/ RecorderOpens \/ SpawnFFmpeg \/ CloseWriter
              \/ \E g \in Generations : FFmpegExits(g)
         /\ UNCHANGED tail \/ RegisterSegment \/ DrainAttempt \/ \E g \in Generations : FFmpegWrites(g)
         /\ UNCHANGED recovery \/ RecorderLeaves
         /\ UNCHANGED stale \/ FailReads \/ FailWrites \/ FailFails
         /\ UNCHANGED lost \/ RegisterSegment
         /\ UNCHANGED intent \/ RecorderOpens \/ RecorderOpenFails \/ RegisterSegment
              \/ FinishExecution \/ FailWrites
PROOF
<1> USE DEF database, disk, memory, bounds
<1>1. CASE RecorderOpens BY <1>1 DEF RecorderOpens
<1>2. CASE RecorderOpensLate BY <1>2 DEF RecorderOpensLate
<1>3. CASE RecorderOpenFails BY <1>3 DEF RecorderOpenFails, Fault
<1>4. CASE SpawnFFmpeg BY <1>4 DEF SpawnFFmpeg
<1>5. CASE RegisterSegment BY <1>5 DEF RegisterSegment
<1>6. CASE DrainAttempt BY <1>6 DEF DrainAttempt, Fault
<1>7. CASE Ends BY <1>7 DEF Ends, LoopEnds
<1>8. CASE FinishExecution BY <1>8 DEF FinishExecution, Fault
<1>9. CASE QueueRecordingEnd BY <1>9 DEF QueueRecordingEnd
<1>10. CASE CloseWriter BY <1>10 DEF CloseWriter
<1>11. CASE FailReads BY <1>11 DEF FailReads
<1>12. CASE FailWrites BY <1>12 DEF FailWrites
<1>13. CASE FailFails BY <1>13 DEF FailFails, Fault
<1>14. CASE RecorderLeaves BY <1>14 DEF RecorderLeaves
<1>15. CASE \E g \in Generations : FFmpegWrites(g) BY <1>15 DEF FFmpegWrites
<1>16. CASE \E g \in Generations : FFmpegExits(g) BY <1>16 DEF FFmpegExits
<1> QED
  BY <1>1, <1>2, <1>3, <1>4, <1>5, <1>6, <1>7, <1>8, <1>9, <1>10, <1>11, <1>12, <1>13, <1>14, <1>15,
     <1>16 DEF Recorders

LEMMA SettlementFrame ==
  ASSUME Settlement
  PROVE  /\ UNCHANGED <<occurrence, recorder, recovery, call, stale, lost, requests, crashes, stops>>
         /\ faults' \in {faults, faults + 1}
         /\ UNCHANGED <<execution, intent, room>> \/ SettleCommits
         /\ UNCHANGED tail \/ SettleRegisters
         /\ UNCHANGED service \/ SettleFails
PROOF
<1> USE DEF database, disk, memory, bounds
<1>1. CASE SettleRegisters BY <1>1 DEF SettleRegisters
<1>2. CASE SettleCommits BY <1>2 DEF SettleCommits
<1>3. CASE SettleFails BY <1>3 DEF SettleFails, Fault
<1>4. CASE \E g \in Generations : SettleClaims(g) BY <1>4 DEF SettleClaims
<1> QED BY <1>1, <1>2, <1>3, <1>4 DEF Settlement

LEMMA ServiceFrame ==
  ASSUME Service
  PROVE  /\ UNCHANGED <<execution, occurrence, tail, requests, faults>>
         /\ crashes' \in {crashes, crashes + 1} /\ stops' \in {stops, stops + 1}
         /\ UNCHANGED intent \/ PrepareRestarts \/ AutoRecover
         /\ UNCHANGED room \/ AutoRecover
         /\ UNCHANGED <<holders, stale, settling, lost>> \/ Crash
         /\ UNCHANGED recorder \/ Shutdown \/ Crash
         /\ UNCHANGED recovery \/ AutoRecover \/ Shutdown \/ Crash
         /\ UNCHANGED call \/ StopAll \/ ShutdownEnds \/ Crash
PROOF
<1> USE DEF database, disk, memory, bounds
<1>1. CASE Boot \/ BootFails BY <1>1 DEF Boot, BootFails
<1>2. CASE PrepareRestarts BY <1>2 DEF PrepareRestarts
<1>3. CASE AutoRecover BY <1>3 DEF AutoRecover
<1>4. CASE Shutdown \/ StopAll \/ ShutdownEnds BY <1>4 DEF Shutdown, StopAll, ShutdownEnds
<1>5. CASE Crash BY <1>5 DEF Crash
<1> QED BY <1>1, <1>2, <1>3, <1>4, <1>5 DEF Service
-----------------------------------------------------------------------------
\* What becomes of an intent: its generation and its budget stay, and an end
\* reaches only one that is still under way.

LEMMA EndsOfIntents ==
  ASSUME NEW i \in Intent
  PROVE  /\ Finished(i) \in Intent /\ Withdrawn(i) \in Intent
         /\ Finished(i).gen = i.gen /\ Finished(i).crashes = i.crashes
         /\ Withdrawn(i).gen = i.gen /\ Withdrawn(i).crashes = i.crashes
         /\ Withdrawn(i).state = "stopped"
         /\ Finished(i) # i =>
              /\ i.state \in {"accepted", "running"} /\ i.gen = recorder.gen
              /\ Finished(i).state \in {"stopped", "cooldown", "blocked"}
              /\ Finished(i).state = "blocked" => recorder.outcome \in {"action", "failed"}
PROOF
  BY DEF Finished, Withdrawn, FinishApplies, SameIntent, Intent, IntentStates

LEMMA CompletedTypes ==
  ASSUME NEW rows \in [Occurrences -> {"absent", "due", "triggered"}], NEW o
  PROVE  Completed(rows, o) \in [Occurrences -> {"absent", "due", "triggered"}]
PROOF BY DEF Completed

\* Types.

LEMMA TypesOfIntent ==
  ASSUME TypeOK, [Next]_vars
  PROVE  intent' \in Intent
PROOF
<1> USE DEF TypeOK, database, disk, memory
<1>0. StopIntent \in Intent BY EndsOfIntents DEF StopIntent
<1>1. ASSUME Manager PROVE intent' \in Intent
  <2>1. ASSUME NEW c \in Callers, StartCommit(c) PROVE intent' \in Intent
    BY <2>1 DEF StartCommit, Intent, IntentStates, Carried
  <2> QED BY <1>0, <1>1, <2>1 DEF Manager, ArmAutoRecording, Request, StartEnter, StartRefused, StopEnter, StopLeave
<1>2. ASSUME Watchers PROVE intent' \in Intent
  BY <1>2 DEF Watchers, MonitorCheck, MonitorIgnores, MonitorBlocks, MonitorSeesOffline,
     MonitorSeesLive, EndRequested, CompleteOccurrence, RunDue, RecoveryBecomes, Intent, IntentStates
<1>3. ASSUME Recorders PROVE intent' \in Intent
  <2>1. CASE RecorderOpens BY <2>1 DEF RecorderOpens, Intent, IntentStates
  <2>2. CASE RecorderOpenFails BY <2>2 DEF RecorderOpenFails, Intent, IntentStates
  <2>3. CASE RegisterSegment
    <3>1. intent' \in {intent, [intent EXCEPT !.crashes = 0]} BY <2>3 DEF RegisterSegment
    <3> QED BY <3>1 DEF Intent
  <2>4. CASE FinishExecution BY <2>4, EndsOfIntents DEF FinishExecution
  <2>5. CASE FailWrites BY <2>5 DEF FailWrites, NoStale
  <2>6. CASE RecorderOpensLate \/ SpawnFFmpeg \/ DrainAttempt \/ Ends \/ QueueRecordingEnd
             \/ CloseWriter \/ FailReads \/ FailFails \/ RecorderLeaves
    BY <2>6 DEF RecorderOpensLate, SpawnFFmpeg, DrainAttempt, Ends, LoopEnds, QueueRecordingEnd,
       CloseWriter, FailReads, FailFails, RecorderLeaves
  <2>7. ASSUME NEW g \in Generations, FFmpegWrites(g) \/ FFmpegExits(g) PROVE intent' \in Intent
    BY <2>7 DEF FFmpegWrites, FFmpegExits
  <2> QED BY <1>3, <2>1, <2>2, <2>3, <2>4, <2>5, <2>6, <2>7 DEF Recorders
<1>4. ASSUME Settlement PROVE intent' \in Intent
  <2>1. intent' \in {intent, [intent EXCEPT !.state = "blocked", !.resume = FALSE]}
    BY <1>4 DEF Settlement, SettleRegisters, SettleCommits, SettleFails, SettleClaims
  <2> QED BY <2>1 DEF Intent, IntentStates
<1>5. ASSUME Service PROVE intent' \in Intent
  <2>1. CASE PrepareRestarts
    <3> DEFINE spent == intent.crashes + 1
               kept  == spent <= MaxRecoveries
    <3>1. \/ intent' = intent
          \/ intent' = [intent EXCEPT !.crashes = spent, !.resume = kept,
                                      !.state = IF kept THEN "cooldown" ELSE "blocked"]
      BY <2>1 DEF PrepareRestarts
    <3>2. spent \in Nat /\ kept \in BOOLEAN BY DEF Intent
    <3> HIDE DEF spent, kept
    <3> QED BY <3>1, <3>2 DEF Intent, IntentStates
  <2> QED BY <1>0, <1>5, <2>1 DEF Service, Boot, BootFails, AutoRecover, Shutdown, StopAll,
        ShutdownEnds, Crash
<1> QED BY <1>1, <1>2, <1>3, <1>4, <1>5 DEF Next, vars


LEMMA TypesOfDatabase ==
  ASSUME TypeOK, [Next]_vars
  PROVE  /\ execution' \in [Generations -> Execution]
         /\ room' \in [auto : BOOLEAN, held : BOOLEAN, waitNext : BOOLEAN]
         /\ occurrence' \in [Occurrences -> {"absent", "due", "triggered"}]
PROOF
<1> USE DEF database, disk, memory
<1> DEFINE R == [auto : BOOLEAN, held : BOOLEAN, waitNext : BOOLEAN]
           O == [Occurrences -> {"absent", "due", "triggered"}]
           E == [Generations -> Execution]
<1>0. execution \in E /\ room \in R /\ occurrence \in O BY DEF TypeOK
<1>1. CASE Manager
  <2>1. ASSUME NEW c \in Callers, StartCommit(c) PROVE room' \in R /\ occurrence' \in O
    BY <1>0, <2>1, CompletedTypes DEF StartCommit
  <2>2. ASSUME NEW c \in Callers, StopEnter(c) PROVE room' \in R /\ occurrence' \in O
    <3>1. UNCHANGED occurrence BY <2>2 DEF StopEnter
    <3>2. room' = room \/ \E hold \in BOOLEAN : room' = [room EXCEPT !.held = hold, !.waitNext = FALSE]
      BY <2>2 DEF StopEnter
    <3> QED BY <1>0, <3>1, <3>2
  <2>3. ASSUME NEW c \in Callers, StopLeave(c) PROVE room' \in R /\ occurrence' \in O
    BY <1>0, <2>3 DEF StopLeave
  <2>4. CASE ArmAutoRecording BY <1>0, <2>4 DEF ArmAutoRecording
  <2> QED BY <1>0, <1>1, <2>1, <2>2, <2>3, <2>4, ManagerFrame
<1>2. CASE Watchers
  <2>1. CASE CompleteOccurrence BY <1>0, <2>1, CompletedTypes DEF CompleteOccurrence
  <2>2. CASE MonitorBlocks \/ MonitorSeesOffline BY <1>0, <2>2 DEF MonitorBlocks, MonitorSeesOffline
  <2> QED BY <1>0, <1>2, <2>1, <2>2, WatchersFrame
<1>3. CASE Recorders
  <2>1. room' \in R
    <3>1. CASE RecorderLeaves BY <1>0, <3>1 DEF RecorderLeaves, Holding
    <3> QED BY <1>0, <1>3, <3>1, RecordersFrame
  <2>2. execution' \in E
    <3>1. CASE FailWrites
      <4>1. stale.execution \in Execution BY <3>1 DEF FailWrites, TypeOK
      <4> QED BY <1>0, <3>1, <4>1 DEF FailWrites
    <3>2. CASE RecorderOpens \/ FinishExecution
      <4> DEFINE g == recorder.gen
      <4>1. execution' = execution \/ execution' = [execution EXCEPT ![g].bound = TRUE]
              \/ execution' = [execution EXCEPT ![g].finalized = TRUE]
        BY <3>2 DEF RecorderOpens, FinishExecution
      <4> HIDE DEF g
      <4>2. CASE execution' = execution BY <1>0, <4>2
      <4>3. CASE execution' = [execution EXCEPT ![g].bound = TRUE] BY <1>0, <4>3 DEF Execution
      <4>4. CASE execution' = [execution EXCEPT ![g].finalized = TRUE] BY <1>0, <4>4 DEF Execution
      <4> QED BY <4>1, <4>2, <4>3, <4>4
    <3>3. CASE QueueRecordingEnd
      <4>1. PICK v \in BOOLEAN : execution' = [execution EXCEPT ![recorder.gen].settled = v]
        <5>1. PICK d \in BOOLEAN : execution' = [execution EXCEPT ![recorder.gen].settled = @ \/ d]
          BY <3>3 DEF QueueRecordingEnd
        <5> WITNESS (execution[recorder.gen].settled \/ d) \in BOOLEAN
        <5> QED BY <5>1
      <4> QED BY <1>0, <4>1 DEF Execution
    <3> QED BY <1>0, <1>3, <3>1, <3>2, <3>3, RecordersFrame
  <2> QED BY <1>0, <1>3, <2>1, <2>2, RecordersFrame
<1>4. CASE Settlement
  <2>1. CASE SettleCommits
    BY <1>0, <2>1 DEF SettleCommits, Holding, Execution
  <2> QED BY <1>0, <1>4, <2>1, SettlementFrame
<1>5. CASE Service
  <2>1. CASE AutoRecover BY <1>0, <2>1 DEF AutoRecover, Holding
  <2> QED BY <1>0, <1>5, <2>1, ServiceFrame
<1> QED BY <1>0, <1>1, <1>2, <1>3, <1>4, <1>5 DEF Next, vars

LEMMA TypesOfMemory ==
  ASSUME TypeOK, [Next]_vars
  PROVE  /\ recorder' \in Recorder /\ call' \in [Callers -> Call]
         /\ recovery' \in Generations \cup {None}
         /\ settling' \in Generations \cup {None}
PROOF
<1> USE DEF database, disk, memory, None
<1> DEFINE F == [Callers -> Call]
           G == Generations \cup {None}
<1>0. recorder \in Recorder /\ call \in F /\ recovery \in G /\ settling \in G BY DEF TypeOK
<1>a. NoCall \in Call /\ NoRecorder \in Recorder BY DEF NoCall, Call, NoRecorder, Recorder, Phases, Outcomes
<1>b. Stopped(recorder) \in Recorder BY <1>0 DEF Stopped, Recorder
<1>c. {"monitor", "ender", "runner"} \subseteq Callers BY DEF Callers
<1>d. recovery \in Nat /\ recorder.gen \in Nat /\ Occurrences \subseteq Nat
  BY <1>0, BoundsAssumption DEF Recorder, Generations, Occurrences
<1>e. ASSUME NEW c \in Callers
      PROVE  [call EXCEPT ![c] = NoCall] \in F /\ [call EXCEPT ![c].inside = TRUE] \in F
  BY <1>0, <1>a DEF Call
<1>1. CASE Manager
  <2>1. ASSUME NEW c \in Callers, StartCommit(c) PROVE recorder' \in Recorder /\ recovery' \in G /\ call' \in F
    <3>1. recorder' \in Recorder /\ recovery' \in G
      BY <1>0, <2>1 DEF StartCommit, NoRecorder, Recorder, Phases, Outcomes
    <3>2. call[c].of \in Nat BY <1>0 DEF Call
    <3>3. \E d \in Call : call' = [call EXCEPT ![c] = d]
      <4>1. [NoCall EXCEPT !.op = "complete", !.of = call[c].of] \in Call BY <3>2 DEF NoCall, Call
      <4>2. \/ call' = [call EXCEPT ![c] = NoCall]
            \/ call' = [call EXCEPT ![c] = [NoCall EXCEPT !.op = "complete", !.of = call[c].of]]
        BY <2>1 DEF StartCommit
      <4> QED BY <1>a, <4>1, <4>2
    <3> QED BY <1>0, <3>1, <3>3
  <2>2. ASSUME NEW c \in Callers, StopEnter(c) PROVE recorder' \in Recorder /\ recovery' \in G /\ call' \in F
    <3>1. call' = [call EXCEPT ![c] = NoCall] \/ call' = [call EXCEPT ![c].inside = TRUE]
      BY <2>2 DEF StopEnter, Released
    <3>2. recorder' \in {recorder, Stopped(recorder)} /\ recovery' \in {recovery, None}
      BY <2>2 DEF StopEnter
    <3> QED BY <1>0, <1>b, <1>e, <3>1, <3>2
  <2>3. ASSUME NEW c \in Callers, StopLeave(c) PROVE recorder' \in Recorder /\ recovery' \in G /\ call' \in F
    BY <1>0, <1>a, <2>3 DEF StopLeave, Released
  <2>4. ASSUME NEW c \in Callers, Request(c) \/ StartEnter(c) \/ StartRefused(c) PROVE call' \in F
    <3>1. CASE Request(c) BY <1>0, <3>1 DEF Request, Call
    <3>2. CASE StartEnter(c)
      <4>1. call' = [call EXCEPT ![c] = NoCall] \/ call' = [call EXCEPT ![c].inside = TRUE]
        BY <3>2 DEF StartEnter, Released
      <4> QED BY <1>e, <4>1
    <3>3. CASE StartRefused(c) BY <1>0, <1>a, <3>3 DEF StartRefused, AfterRefusal, Call
    <3> QED BY <2>4, <3>1, <3>2, <3>3
  <2>5. CASE ArmAutoRecording BY <1>0, <2>5 DEF ArmAutoRecording
  <2> QED BY <1>0, <1>1, <2>1, <2>2, <2>3, <2>4, <2>5, ManagerFrame DEF Manager
<1>2. CASE Watchers
  <2>1. recovery' \in G
    <3>1. CASE MonitorBlocks \/ MonitorSeesOffline BY <3>1 DEF MonitorBlocks, MonitorSeesOffline
    <3> QED BY <1>0, <1>2, <3>1, WatchersFrame
  <2>2. call' \in F
    <3>1. CASE MonitorCheck \/ MonitorSeesLive
      BY <1>0, <1>c, <1>d, <3>1 DEF MonitorCheck, MonitorSeesLive, NoCall, Call
    <3>2. CASE MonitorIgnores \/ MonitorBlocks \/ MonitorSeesOffline \/ CompleteOccurrence
      BY <1>0, <1>a, <1>c, <3>2 DEF MonitorIgnores, MonitorBlocks, MonitorSeesOffline, CompleteOccurrence, Released
    <3>3. CASE EndRequested BY <1>0, <1>c, <1>d, <3>3 DEF EndRequested, Call
    <3>4. ASSUME NEW o \in Occurrences, RunDue(o) PROVE call' \in F
      BY <1>0, <1>c, <1>d, <3>4 DEF RunDue, Call
    <3> QED BY <1>2, <3>1, <3>2, <3>3, <3>4 DEF Watchers
  <2> QED BY <1>0, <1>2, <2>1, <2>2, WatchersFrame
<1>3. CASE Recorders
  <2>1. recovery' \in G
    <3>1. CASE RecorderLeaves BY <1>0, <3>1 DEF RecorderLeaves, Recorder
    <3> QED BY <1>0, <1>3, <3>1, RecordersFrame
  <2>2. recorder' \in Recorder
    <3>1. CASE RecorderOpens \/ SpawnFFmpeg \/ FailWrites \/ FailFails \/ QueueRecordingEnd \/ CloseWriter
      <4>1. \E phase \in Phases : Advance(phase)
        BY <3>1 DEF RecorderOpens, SpawnFFmpeg, FailWrites, FailFails, QueueRecordingEnd, CloseWriter,
           AfterFail, Phases
      <4> QED BY <1>0, <4>1 DEF Advance, Recorder
    <3>2. CASE RecorderOpensLate \/ RecorderOpenFails \/ Ends
      <4>1. \E phase \in Phases, outcome \in Outcomes : Outcome(phase, outcome)
        BY <3>2 DEF RecorderOpensLate, RecorderOpenFails, Ends, LoopEnds, Phases, Outcomes
      <4> QED BY <1>0, <4>1 DEF Outcome, Recorder
    <3>3. CASE FinishExecution
      <4>1. (\E phase \in Phases : Advance(phase)) \/ Outcome("closing", "failed")
        BY <3>3 DEF FinishExecution, AfterFinish, Phases
      <4> QED BY <1>0, <4>1 DEF Advance, Outcome, Recorder, Phases, Outcomes
    <3>4. CASE DrainAttempt BY <1>0, <3>4 DEF DrainAttempt, Advance, Recorder, Phases, Outcomes
    <3>5. CASE RecorderLeaves BY <1>a, <3>5 DEF RecorderLeaves
    <3>6. CASE RegisterSegment \/ FailReads BY <1>0, <3>6 DEF RegisterSegment, FailReads
    <3>7. ASSUME NEW g \in Generations, FFmpegWrites(g) \/ FFmpegExits(g) PROVE recorder' \in Recorder
      BY <1>0, <3>7 DEF FFmpegWrites, FFmpegExits
    <3> QED BY <1>3, <3>1, <3>2, <3>3, <3>4, <3>5, <3>6, <3>7 DEF Recorders
  <2> QED BY <1>0, <1>3, <2>1, <2>2, RecordersFrame
<1>4. CASE Settlement
  <2>1. settling' \in G
    BY <1>0, <1>4 DEF Settlement, SettleRegisters, SettleCommits, SettleFails, SettleClaims
  <2> QED BY <1>0, <1>4, <2>1, SettlementFrame
<1>5. CASE Service
  <2>1. CASE AutoRecover
    <3>1. intent.gen \in G BY DEF TypeOK, Intent
    <3> QED BY <1>0, <2>1, <3>1 DEF AutoRecover
  <2>2. CASE Shutdown \/ ShutdownEnds \/ Crash
    BY <1>0, <1>a, <1>b, <2>2 DEF Shutdown, ShutdownEnds, Crash
  <2>3. CASE StopAll
    <3>1. "service" \in Callers /\ "keep" \in {"none", "start", "stop", "end", "keep", "check", "complete"}
      BY DEF Callers
    <3> QED BY <1>0, <2>3, <3>1 DEF StopAll, Call
  <2> QED BY <1>0, <1>5, <2>1, <2>2, <2>3, ServiceFrame
<1> QED BY <1>0, <1>1, <1>2, <1>3, <1>4, <1>5 DEF Next, vars

LEMMA TypesStay ==
  ASSUME IInv, [Next]_vars
  PROVE  TypeOK'
PROOF
<1> DEFINE W == {"host", "ffmpeg", "settler"}
           S == {"down", "settling", "restarting", "up", "stopping"}
<1>0. TypeOK BY DEF IInv
<1>1. holders' \in [Generations -> SUBSET W]
  <2>0. holders \in [Generations -> SUBSET W] BY <1>0 DEF TypeOK
  <2>1. CASE RecorderOpens \/ SpawnFFmpeg \/ CloseWriter
    BY <2>0, <2>1 DEF RecorderOpens, SpawnFFmpeg, CloseWriter
  <2>2. ASSUME NEW g \in Generations, FFmpegExits(g) PROVE holders' \in [Generations -> SUBSET W]
    BY <2>0, <2>2 DEF FFmpegExits
  <2>3. CASE Settlement
    BY <2>0, <2>3 DEF Settlement, SettleRegisters, SettleCommits, SettleFails, SettleClaims
  <2>4. CASE Crash BY <2>0, <2>4 DEF Crash
  <2> QED BY <2>0, <2>1, <2>2, <2>3, <2>4, ManagerFrame, WatchersFrame, RecordersFrame, ServiceFrame
     DEF Next, vars, disk
<1>2. tail' \subseteq Generations
  <2>0. tail \subseteq Generations BY <1>0 DEF TypeOK
  <2>1. CASE RegisterSegment \/ DrainAttempt \/ SettleRegisters
    BY <2>0, <2>1 DEF RegisterSegment, DrainAttempt, SettleRegisters
  <2>2. ASSUME NEW g \in Generations, FFmpegWrites(g) PROVE tail' \subseteq Generations
    BY <2>0, <2>2 DEF FFmpegWrites
  <2> QED BY <2>0, <2>1, <2>2, ManagerFrame, WatchersFrame, RecordersFrame, SettlementFrame, ServiceFrame
     DEF Next, vars, disk
<1>3. service' \in S
  <2>0. service \in S BY <1>0 DEF TypeOK
  <2>1. CASE SettleFails BY <2>0, <2>1 DEF SettleFails
  <2>2. CASE Service
    BY <2>0, <2>2 DEF Service, Boot, BootFails, PrepareRestarts, AutoRecover, Shutdown, StopAll,
       ShutdownEnds, Crash
  <2> QED BY <2>0, <2>1, <2>2, ManagerFrame, WatchersFrame, RecordersFrame, SettlementFrame
     DEF Next, vars
<1>4. \/ stale' = NoStale
      \/ /\ stale'.gen \in Generations /\ stale'.execution \in Execution
         /\ stale'.intent \in Intent /\ stale'.changed \in BOOLEAN
  <2>1. CASE FailReads
    <3>1. recorder.gen \in Generations BY <2>1 DEF FailReads, IInv, RecorderSound, IsRunning
    <3>2. [execution[recorder.gen] EXCEPT !.finalized = TRUE] \in Execution
      <4>1. execution[recorder.gen] \in Execution BY <1>0, <3>1 DEF TypeOK
      <4> QED BY <4>1 DEF Execution
    <3>3. Finished(intent) \in Intent BY <1>0, EndsOfIntents DEF TypeOK
    <3>4. /\ stale'.gen = recorder.gen /\ stale'.intent = Finished(intent)
          /\ stale'.execution = [execution[recorder.gen] EXCEPT !.finalized = TRUE]
          /\ stale'.changed = (Finished(intent) # intent)
      BY <2>1, Zenon DEF FailReads
    <3>5. (Finished(intent) # intent) \in BOOLEAN OBVIOUS
    <3>6. stale'.changed \in BOOLEAN BY <3>4, <3>5, Zenon
    <3> QED BY <3>1, <3>2, <3>3, <3>4, <3>6
  <2>2. CASE FailWrites \/ FailFails \/ Crash BY <2>2 DEF FailWrites, FailFails, Crash
  <2>3. CASE UNCHANGED stale BY <1>0, <2>3 DEF TypeOK, NoStale
  <2> QED BY <2>1, <2>2, <2>3, ManagerFrame, WatchersFrame, RecordersFrame, SettlementFrame, ServiceFrame
     DEF Next, vars, memory
<1>5. lost' \in Nat
  <2>0. lost \in Nat BY <1>0 DEF TypeOK
  <2>1. ASSUME NEW c \in Callers, StartCommit(c) PROVE lost' \in Nat BY <2>0, <2>1 DEF StartCommit
  <2>2. CASE RegisterSegment BY <2>0, <2>2 DEF RegisterSegment
  <2>3. CASE Crash BY <2>0, <2>3 DEF Crash
  <2>4. ASSUME NEW c \in Callers, StopEnter(c) \/ StopLeave(c) PROVE lost' = lost
    BY <2>4 DEF StopEnter, StopLeave
  <2>5. CASE ArmAutoRecording BY <2>0, <2>5 DEF ArmAutoRecording
  <2> QED BY <2>0, <2>1, <2>2, <2>3, <2>4, <2>5, ManagerFrame, WatchersFrame, RecordersFrame,
        SettlementFrame, ServiceFrame DEF Next, vars
<1>6. {requests', faults', crashes', stops'} \subseteq Nat
  <2>0. {requests, faults, crashes, stops} \subseteq Nat BY <1>0 DEF TypeOK
  <2>1. CASE Manager
    <3>1. requests' \in {requests, requests + 1}
      BY <2>1 DEF Manager, ArmAutoRecording, Request, StartEnter, StartRefused, StartCommit, StopEnter,
         StopLeave, Ask, bounds
    <3> QED BY <2>0, <2>1, <3>1, ManagerFrame
  <2> QED BY <2>0, <2>1, WatchersFrame, RecordersFrame, SettlementFrame, ServiceFrame DEF Next, vars, bounds
<1> QED BY <1>0, <1>1, <1>2, <1>3, <1>4, <1>5, <1>6, TypesOfIntent, TypesOfDatabase, TypesOfMemory DEF TypeOK

\* Before the service serves, only an FFmpeg that outlived its host does anything
\* of a recording.
LEMMA ColdSteps ==
  ASSUME IInv, ~Looping
  PROVE  /\ ~Manager /\ ~Watchers
         /\ Recorders => \E g \in Generations : FFmpegWrites(g) \/ FFmpegExits(g)
PROOF
<1>1. /\ recorder = NoRecorder /\ stale = NoStale
      /\ \A c \in Callers : call[c] = NoCall
  BY DEF IInv, TypeOK, ServiceSound, Looping
<1>2. \A c \in Callers : call[c].op = "none" BY <1>1 DEF NoCall
<1>3. ~Manager
  BY <1>2 DEF Looping, Serving, Manager, ArmAutoRecording, Request, StartEnter, StartRefused, StartCommit,
     StopEnter, StopLeave
<1>4. ~Watchers
  BY <1>2 DEF Looping, Watchers, MonitorCheck, MonitorIgnores, MonitorBlocks, MonitorSeesOffline,
     MonitorSeesLive, MonitorResumes, EndRequested, CompleteOccurrence, RunDue, Callers
<1>5. recorder.phase = "none" BY <1>1 DEF NoRecorder
<1>6. Recorders => \E g \in Generations : FFmpegWrites(g) \/ FFmpegExits(g)
  BY <1>1, <1>5 DEF Recorders, RecorderOpens, RecorderOpensLate, RecorderOpenFails, SpawnFFmpeg,
     RegisterSegment, DrainAttempt, Ends, LoopEnds, FinishExecution, QueueRecordingEnd, CloseWriter,
     FailReads, FailWrites, FailFails, RecorderLeaves
<1> QED BY <1>3, <1>4, <1>6

LEMMA ServiceStays ==
  ASSUME IInv, [Next]_vars
  PROVE  ServiceSound'
PROOF
<1> USE DEF database, disk, memory
<1> DEFINE Idle == /\ recorder = NoRecorder /\ stale = NoStale
                   /\ \A c \in Callers : call[c] = NoCall
           Cold == {"down", "settling", "restarting"}
<1>0. /\ service \in Cold \cup {"up", "stopping"}
      /\ service \in Cold => Idle
      /\ service # "up" => recovery = None
      /\ service \in {"down", "restarting"} => settling = None
  BY DEF IInv, TypeOK, ServiceSound
<1>1. Looping <=> service \notin Cold BY <1>0 DEF Looping
<1> HIDE DEF Idle
<1>2. CASE UNCHANGED vars BY <1>0, <1>2 DEF vars, ServiceSound, Idle
<1>3. CASE Manager \/ Watchers
  <2>1. service \notin Cold /\ service' = service
    BY <1>1, <1>3, ColdSteps, ManagerFrame, WatchersFrame
  <2>2. recovery' \in {recovery, None}
    <3>1. ASSUME NEW c \in Callers, StartCommit(c) \/ StopEnter(c) \/ StopLeave(c)
          PROVE  recovery' \in {recovery, None}
      BY <3>1 DEF StartCommit, StopEnter, StopLeave
    <3>2. CASE ArmAutoRecording \/ MonitorBlocks \/ MonitorSeesOffline
      BY <3>2 DEF ArmAutoRecording, MonitorBlocks, MonitorSeesOffline
    <3> QED BY <1>3, <3>1, <3>2, ManagerFrame, WatchersFrame
  <2> QED BY <1>0, <2>1, <2>2 DEF ServiceSound
<1>4. CASE Recorders
  <2>1. service' = service /\ settling' = settling BY <1>4, RecordersFrame
  <2>2. service \in Cold => UNCHANGED <<recorder, stale, call>>
    BY <1>1, <1>4, ColdSteps DEF FFmpegWrites, FFmpegExits
  <2>3. service = "stopping" => recovery' = recovery
    BY <1>4, RecordersFrame DEF RecorderLeaves, Stopping
  <2>4. service \in Cold => recovery' = recovery
    BY <1>1, <1>4, ColdSteps DEF FFmpegWrites, FFmpegExits
  <2> QED BY <1>0, <2>1, <2>2, <2>3, <2>4 DEF ServiceSound, Idle
<1>5. CASE Settlement
  <2>1. UNCHANGED <<recorder, recovery, stale, call>> BY <1>5, SettlementFrame
  <2>2. CASE SettleFails BY <1>0, <2>1, <2>2 DEF SettleFails, ServiceSound, Idle
  <2>3. CASE ~SettleFails
    <3>1. service' = service BY <1>5, <2>3, SettlementFrame
    <3>2. service \in {"down", "restarting"} => settling' = None
      BY <1>0, <1>5, <2>3 DEF Settlement, SettleRegisters, SettleCommits, SettleClaims
    <3> QED BY <1>0, <2>1, <3>1, <3>2 DEF ServiceSound, Idle
  <2> QED BY <2>2, <2>3
<1>6. CASE Service
  <2>1. CASE Boot \/ BootFails \/ PrepareRestarts
    BY <1>0, <2>1 DEF Boot, BootFails, PrepareRestarts, ServiceSound, Idle
  <2>2. CASE AutoRecover \/ Shutdown \/ StopAll
    BY <1>0, <2>2 DEF AutoRecover, Shutdown, StopAll, ServiceSound
  <2>3. CASE Crash BY <2>3 DEF Crash, ServiceSound
  <2>4. CASE ShutdownEnds
    <3>1. recorder = NoRecorder BY <2>4 DEF ShutdownEnds, IInv, RecorderSound
    <3>2. stale = NoStale BY <3>1 DEF IInv, StaleSound, NoRecorder
    <3> QED BY <1>0, <2>4, <3>1, <3>2 DEF ShutdownEnds, ServiceSound
  <2> QED BY <1>6, <2>1, <2>2, <2>3, <2>4 DEF Service
<1> QED BY <1>2, <1>3, <1>4, <1>5, <1>6 DEF Next

LEMMA KeepStays ==
  ASSUME IInv, [Next]_vars
  PROVE  KeepSound'
PROOF
<1> USE DEF database, disk, memory
<1>0. call \in [Callers -> Call] /\ KeepSound /\ {"monitor", "ender", "runner", "service"} \subseteq Callers
  BY DEF IInv, TypeOK, Callers
<1>1. CASE Manager
  <2>1. ASSUME NEW c \in Callers, NEW d \in Callers, call'[d].op = "keep",
               \/ Request(c) \/ StartEnter(c) \/ StartRefused(c)
               \/ StartCommit(c) \/ StopEnter(c) \/ StopLeave(c)
        PROVE  call[d].op = "keep"
    <3>1. call[c] \in Call /\ call[d] \in Call BY <1>0
    <3>2. CASE Request(c)
      <4>1. PICK op \in {"start", "stop"} : call' = [call EXCEPT ![c].op = op] BY <3>2 DEF Request
      <4> QED BY <1>0, <2>1, <3>1, <4>1 DEF Call
    <3>3. CASE StartEnter(c)
      <4>1. call' = [call EXCEPT ![c] = NoCall] \/ call' = [call EXCEPT ![c].inside = TRUE]
        BY <3>3 DEF StartEnter, Released
      <4> QED BY <1>0, <2>1, <3>1, <4>1 DEF NoCall, Call
    <3>6. CASE StartCommit(c)
      <4>1. \E new : new.op # "keep" /\ call' = [call EXCEPT ![c] = new]
        BY <3>6 DEF StartCommit, NoCall
      <4> QED BY <1>0, <2>1, <4>1
    <3>5. CASE StartRefused(c)
      <4>1. AfterRefusal(c).op # "keep" BY <3>1 DEF AfterRefusal, NoCall, Call
      <4>2. call' = [call EXCEPT ![c] = AfterRefusal(c)] BY <3>5 DEF StartRefused
      <4> QED BY <1>0, <2>1, <4>1, <4>2
    <3>4. CASE StopEnter(c) \/ StopLeave(c)
      BY <1>0, <2>1, <3>1, <3>4 DEF StopEnter, StopLeave, Released, NoCall, Call
    <3> QED BY <2>1, <3>2, <3>3, <3>4, <3>5, <3>6
  <2>2. service' = service BY <1>1, ManagerFrame
  <2> QED BY <1>0, <1>1, <2>1, <2>2 DEF Manager, ArmAutoRecording, KeepSound
<1>2. CASE Watchers
  <2>1. service' = service BY <1>2, WatchersFrame
  <2>2. ASSUME NEW d \in Callers, call'[d].op = "keep" PROVE call[d].op = "keep"
    <3>1. CASE MonitorCheck \/ MonitorSeesLive
      BY <1>0, <2>2, <3>1 DEF MonitorCheck, MonitorSeesLive, NoCall
    <3>2. CASE MonitorIgnores \/ MonitorBlocks \/ MonitorSeesOffline \/ CompleteOccurrence
      BY <1>0, <2>2, <3>2 DEF MonitorIgnores, MonitorBlocks, MonitorSeesOffline, CompleteOccurrence,
         Released, NoCall
    <3>3. CASE EndRequested BY <1>0, <2>2, <3>3 DEF EndRequested
    <3>4. ASSUME NEW o \in Occurrences, RunDue(o) PROVE call[d].op = "keep"
      BY <1>0, <2>2, <3>4 DEF RunDue
    <3> QED BY <1>2, <3>1, <3>2, <3>3, <3>4 DEF Watchers
  <2> QED BY <1>0, <2>1, <2>2 DEF KeepSound
<1>3. CASE Service
  <2>1. CASE StopAll BY <2>1 DEF StopAll, KeepSound
  <2>2. CASE ShutdownEnds \/ Crash BY <2>2 DEF ShutdownEnds, Crash, KeepSound, NoCall
  <2>3. CASE Boot \/ BootFails \/ PrepareRestarts \/ AutoRecover \/ Shutdown
    BY <1>0, <2>3 DEF Boot, BootFails, PrepareRestarts, AutoRecover, Shutdown, Serving, KeepSound
  <2> QED BY <1>3, <2>1, <2>2, <2>3 DEF Service
<1>4. CASE Settlement
  <2>1. call' = call BY <1>4, SettlementFrame
  <2>2. service' = service \/ service = "settling"
    BY <1>4, SettlementFrame DEF SettleFails
  <2> QED BY <1>0, <2>1, <2>2 DEF KeepSound
<1>5. CASE Recorders \/ UNCHANGED vars
  BY <1>0, <1>5, RecordersFrame DEF KeepSound, vars
<1> QED BY <1>1, <1>2, <1>3, <1>4, <1>5 DEF Next

\* A caller gets into the room through start or stop only, and leaves it as it
\* came in.
LEMMA CallsStay ==
  ASSUME IInv, [Next]_vars, \A c \in Callers : ~StartEnter(c) /\ ~StopEnter(c)
  PROVE  \A d \in Callers : call'[d].inside => call[d].inside /\ call'[d].op = call[d].op
PROOF
<1> USE DEF database, disk, memory
<1>0. call \in [Callers -> Call] BY DEF IInv, TypeOK
<1> SUFFICES ASSUME NEW d \in Callers
             PROVE  call'[d].inside => call[d].inside /\ call'[d].op = call[d].op
  OBVIOUS
<1>1. CASE Manager
  <2>1. ASSUME NEW c \in Callers, Request(c)
        PROVE  call'[d].inside => call[d].inside /\ call'[d].op = call[d].op
    <3>1. PICK op \in {"start", "stop"} : call' = [call EXCEPT ![c].op = op] BY <2>1 DEF Request
    <3>2. call[c] = NoCall BY <2>1 DEF Request
    <3> QED BY <1>0, <3>1, <3>2 DEF NoCall, Call
  <2>2. ASSUME NEW c \in Callers, StartRefused(c)
        PROVE  call'[d].inside => call[d].inside /\ call'[d].op = call[d].op
    <3>1. call'[c].inside = FALSE /\ (d # c => call'[d] = call[d])
      <4>1. call[c] \in Call BY <1>0
      <4> QED BY <1>0, <2>2, <4>1 DEF StartRefused, AfterRefusal, NoCall, Call
    <3> QED BY <3>1
  <2>3. ASSUME NEW c \in Callers, StartCommit(c)
        PROVE  call'[d].inside => call[d].inside /\ call'[d].op = call[d].op
    <3>1. call'[c].inside = FALSE /\ (d # c => call'[d] = call[d])
      BY <1>0, <2>3 DEF StartCommit, NoCall
    <3> QED BY <3>1
  <2>4. ASSUME NEW c \in Callers, StopLeave(c)
        PROVE  call'[d].inside => call[d].inside /\ call'[d].op = call[d].op
    BY <1>0, <2>4 DEF StopLeave, Released, NoCall
  <2> QED BY <1>1, <2>1, <2>2, <2>3, <2>4 DEF Manager, ArmAutoRecording
<1>2. CASE Watchers
  <2>1. PICK c \in Callers : call'[c].inside = FALSE /\ (d # c => call'[d] = call[d])
    <3>1. {"monitor", "ender", "runner"} \subseteq Callers BY DEF Callers
    <3>2. CASE MonitorCheck \/ MonitorSeesLive
      BY <1>0, <3>1, <3>2 DEF MonitorCheck, MonitorSeesLive, NoCall
    <3>3. CASE MonitorIgnores \/ MonitorBlocks \/ MonitorSeesOffline \/ CompleteOccurrence
      BY <1>0, <3>1, <3>3 DEF MonitorIgnores, MonitorBlocks, MonitorSeesOffline, CompleteOccurrence,
         Released, NoCall
    <3>4. CASE EndRequested BY <1>0, <3>1, <3>4 DEF EndRequested
    <3>5. ASSUME NEW o \in Occurrences, RunDue(o)
          PROVE  call'["runner"].inside = FALSE /\ (d # "runner" => call'[d] = call[d])
      BY <1>0, <3>1, <3>5 DEF RunDue
    <3> QED BY <1>2, <3>1, <3>2, <3>3, <3>4, <3>5 DEF Watchers
  <2> QED BY <2>1
<1>3. CASE Service
  <2>1. CASE StopAll BY <1>0, <2>1 DEF StopAll, NoCall, Call
  <2>2. CASE ~StopAll
    <3>1. call' = call \/ call' = [c \in Callers |-> NoCall]
      BY <1>3, <2>2, ServiceFrame DEF ShutdownEnds, Crash
    <3> QED BY <3>1 DEF NoCall
  <2> QED BY <2>1, <2>2
<1> QED BY <1>1, <1>2, <1>3, RecordersFrame, SettlementFrame DEF Next, vars

\* A recording begins with the last transaction of start.
LEMMA RecordersBegin ==
  ASSUME IInv, [Next]_vars, \A c \in Callers : ~StartCommit(c)
  PROVE  IsRunning' => IsRunning
PROOF
<1>1. CASE Manager
  <2>1. ASSUME NEW c \in Callers, StopEnter(c) \/ StopLeave(c) PROVE IsRunning' => IsRunning
    BY <2>1 DEF StopEnter, StopLeave, IsRunning, Stopped
  <2> QED BY <1>1, <2>1, ManagerFrame DEF ArmAutoRecording, IsRunning
<1>2. CASE Recorders
  <2>1. CASE stale # NoStale
    BY <2>1 DEF IInv, StaleSound, IsRunning
  <2>2. CASE stale = NoStale
    BY <1>2, <2>2 DEF Recorders, RecorderOpens, RecorderOpensLate, RecorderOpenFails, SpawnFFmpeg,
       RegisterSegment, DrainAttempt, Ends, LoopEnds, FinishExecution, QueueRecordingEnd, CloseWriter,
       FailReads, FailWrites, FailFails, RecorderLeaves, FFmpegWrites, FFmpegExits, IsRunning, memory
  <2> QED BY <2>1, <2>2
<1>3. CASE Service
  BY <1>3, ServiceFrame DEF Shutdown, Crash, Stopped, NoRecorder, IsRunning
<1> QED BY <1>1, <1>2, <1>3, WatchersFrame, SettlementFrame DEF Next, vars, memory, IsRunning

LEMMA LockStays ==
  ASSUME IInv, [Next]_vars
  PROVE  LockSound'
PROOF
<1> DEFINE Busy(c) == call[c].op = "start" /\ call[c].inside
<1>0. /\ \A c, d \in Callers : call[c].inside /\ call[d].inside => c = d
      /\ service = "up" /\ (\E c \in Callers : Busy(c)) => ~IsRunning
      /\ call \in [Callers -> Call]
  BY DEF IInv, LockSound, TypeOK
<1>1. ASSUME NEW c \in Callers, StartEnter(c) \/ StopEnter(c) PROVE LockSound'
  <2>1. \A d \in Callers : d # c => call'[d] = call[d] /\ ~call[d].inside
    BY <1>0, <1>1 DEF StartEnter, StopEnter, RoomLocked, Released
  <2>2. \A d \in Callers : call'[d].inside => d = c BY <2>1
  <2>3. CASE StartEnter(c)
    <3>1. call'[c].inside => ~(IsRunning /\ Serving)
      BY <1>0, <2>3 DEF StartEnter, Released, NoCall
    <3>2. UNCHANGED <<recorder, service>> BY <2>3 DEF StartEnter
    <3> QED BY <2>2, <3>1, <3>2 DEF LockSound, IsRunning, Serving
  <2>4. CASE StopEnter(c)
    <3>1. call'[c].op # "start"
      <4>1. call' = [call EXCEPT ![c] = NoCall] \/ call' = [call EXCEPT ![c].inside = TRUE]
        BY <2>4 DEF StopEnter, Released
      <4>2. call[c].op # "start" BY <2>4 DEF StopEnter
      <4> QED BY <1>0, <4>1, <4>2 DEF NoCall, Call
    <3> QED BY <2>2, <3>1 DEF LockSound
  <2> QED BY <1>1, <2>3, <2>4
<1>2. ASSUME \A c \in Callers : ~StartEnter(c) /\ ~StopEnter(c) PROVE LockSound'
  <2>1. \A d \in Callers : call'[d].inside => call[d].inside /\ call'[d].op = call[d].op
    BY <1>2, CallsStay
  <2>2. ASSUME NEW c \in Callers, StartCommit(c) PROVE LockSound'
    <3>1. call'[c].inside = FALSE /\ call[c].inside BY <1>0, <2>2 DEF StartCommit, NoCall
    <3>2. \A d \in Callers : ~call'[d].inside BY <1>0, <2>1, <3>1
    <3> QED BY <3>2 DEF LockSound
  <2>3. CASE AutoRecover
    <3>1. \A c \in Callers : ~call[c].inside BY <2>3 DEF AutoRecover, IInv, ServiceSound, NoCall
    <3> QED BY <2>1, <3>1 DEF LockSound
  <2>4. ASSUME ~AutoRecover, \A c \in Callers : ~StartCommit(c) PROVE LockSound'
    <3>1. IsRunning' => IsRunning BY <2>4, RecordersBegin
    <3>2. service' = "up" => service = "up"
      <4>1. CASE Settlement BY <4>1, SettlementFrame DEF SettleFails
      <4>2. CASE Service
        BY <2>4, <4>2 DEF Service, Boot, BootFails, PrepareRestarts, Shutdown, StopAll, ShutdownEnds, Crash
      <4> QED BY <4>1, <4>2, ManagerFrame, WatchersFrame, RecordersFrame DEF Next, vars
    <3> QED BY <1>0, <2>1, <3>1, <3>2 DEF LockSound
  <2> QED BY <2>2, <2>3, <2>4
<1> QED BY <1>1, <1>2

\* Only a start makes a new intent.
LEMMA GenerationsStay ==
  ASSUME IInv, [Next]_vars, \A c \in Callers : ~StartCommit(c)
  PROVE  intent'.gen = intent.gen
PROOF
<1>0. intent \in Intent BY DEF IInv, TypeOK
<1>1. StopIntent.gen = intent.gen BY <1>0, EndsOfIntents DEF StopIntent
<1>2. RecoveryBecomes("blocked").gen = intent.gen /\ RecoveryBecomes("stopped").gen = intent.gen
  BY <1>0 DEF RecoveryBecomes, Intent
<1>3. CASE Manager
  <2>1. ASSUME NEW c \in Callers, StopEnter(c) \/ StopLeave(c) PROVE intent'.gen = intent.gen
    BY <1>1, <2>1 DEF StopEnter, StopLeave
  <2> QED BY <1>1, <1>3, <2>1, ManagerFrame DEF ArmAutoRecording
<1>4. CASE Watchers
  BY <1>2, <1>4, WatchersFrame DEF MonitorBlocks, MonitorSeesOffline
<1>5. CASE Recorders
  <2>1. CASE RecorderOpens \/ RecorderOpenFails
    BY <1>0, <2>1 DEF RecorderOpens, RecorderOpenFails, Intent
  <2>2. CASE RegisterSegment BY <1>0, <2>2 DEF RegisterSegment, Intent
  <2>3. CASE FinishExecution BY <1>0, <2>3, EndsOfIntents DEF FinishExecution
  <2>4. CASE FailWrites BY <2>4 DEF FailWrites, IInv, StaleSound
  <2> QED BY <1>5, <2>1, <2>2, <2>3, <2>4, RecordersFrame
<1>6. CASE SettleCommits BY <1>0, <1>6 DEF SettleCommits, Intent
<1>7. CASE PrepareRestarts
  <2>1. \/ intent' = intent
        \/ \E n, b, s : intent' = [intent EXCEPT !.crashes = n, !.resume = b, !.state = s]
    BY <1>7 DEF PrepareRestarts
  <2> QED BY <1>0, <2>1 DEF Intent
<1>8. CASE AutoRecover
  <2>1. intent' \in {intent, StopIntent} BY <1>8 DEF AutoRecover
  <2> QED BY <1>1, <2>1
<1> QED BY <1>3, <1>4, <1>5, <1>6, <1>7, <1>8, SettlementFrame, ServiceFrame DEF Next, vars, database

\* While a recorder works it stays the one it is, and goes through its phases.
LEMMA RecorderSteps ==
  ASSUME IInv, [Next]_vars, \A c \in Callers : ~StartCommit(c)
  PROVE  \/ recorder' = recorder \/ recorder' = Stopped(recorder) \/ recorder' = NoRecorder
         \/ /\ IsRunning /\ recorder'.gen = recorder.gen
            /\ recorder'.phase \notin {"none", "opening"}
            /\ recorder'.phase \in Early => recorder.phase \in Early /\ recorder'.outcome = recorder.outcome
PROOF
<1> USE DEF memory
<1> DEFINE Goes == /\ IsRunning /\ recorder'.gen = recorder.gen
                   /\ recorder'.phase \notin {"none", "opening"}
                   /\ recorder'.phase \in Early => recorder.phase \in Early /\ recorder'.outcome = recorder.outcome
<1>0. recorder \in Recorder BY DEF IInv, TypeOK
<1>1. CASE Manager
  <2>1. ASSUME NEW c \in Callers, StopEnter(c) \/ StopLeave(c) PROVE recorder' \in {recorder, Stopped(recorder)}
    BY <2>1 DEF StopEnter, StopLeave
  <2> QED BY <1>1, <2>1, ManagerFrame DEF ArmAutoRecording
<1>2. CASE Recorders
  <2>1. CASE FailWrites \/ FailFails
    <3>1. recorder.phase \in {"run_failed", "task_failed"} BY <2>1 DEF FailWrites, FailFails, IInv, StaleSound
    <3>2. Goes BY <1>0, <2>1, <3>1 DEF FailWrites, FailFails, Advance, AfterFail, Recorder, IsRunning, Early
    <3> QED BY <3>2
  <2>2. CASE RecorderOpens \/ SpawnFFmpeg
    <3>1. Goes BY <1>0, <2>2 DEF RecorderOpens, SpawnFFmpeg, Advance, Recorder, IsRunning, Early
    <3> QED BY <3>1
  <2>3. CASE QueueRecordingEnd \/ CloseWriter
    <3>1. Goes BY <1>0, <2>3 DEF QueueRecordingEnd, CloseWriter, Advance, Recorder, IsRunning, Early
    <3> QED BY <3>1
  <2>4. CASE RecorderOpensLate \/ RecorderOpenFails \/ Ends
    <3>1. Goes
      BY <1>0, <2>4 DEF RecorderOpensLate, RecorderOpenFails, Ends, LoopEnds, Outcome, Recorder, IsRunning, Early
    <3> QED BY <3>1
  <2>5. CASE FinishExecution
    <3>1. Goes BY <1>0, <2>5 DEF FinishExecution, Advance, Outcome, AfterFinish, Recorder, IsRunning, Early
    <3> QED BY <3>1
  <2>6. CASE DrainAttempt
    <3>1. Goes BY <1>0, <2>6 DEF DrainAttempt, Advance, Recorder, IsRunning, Early
    <3> QED BY <3>1
  <2>7. CASE RecorderLeaves BY <2>7 DEF RecorderLeaves
  <2>8. CASE RegisterSegment \/ FailReads BY <2>8 DEF RegisterSegment, FailReads
  <2>9. ASSUME NEW g \in Generations, FFmpegWrites(g) \/ FFmpegExits(g) PROVE recorder' = recorder
    BY <2>9 DEF FFmpegWrites, FFmpegExits
  <2> QED BY <1>2, <2>1, <2>2, <2>3, <2>4, <2>5, <2>6, <2>7, <2>8, <2>9 DEF Recorders
<1>3. CASE Service BY <1>3, ServiceFrame DEF Shutdown, Crash
<1> QED BY <1>1, <1>2, <1>3, WatchersFrame, SettlementFrame DEF Next, vars

\* What waits to be recovered waits without a recorder.
LEMMA RecoverySteps ==
  ASSUME IInv, [Next]_vars
  PROVE  \/ recovery' = recovery \/ recovery' = None
         \/ RecorderLeaves \/ AutoRecover
PROOF
<1>1. ASSUME NEW c \in Callers, StartCommit(c) \/ StopEnter(c) \/ StopLeave(c)
      PROVE  recovery' = recovery \/ recovery' = None
  BY <1>1 DEF StartCommit, StopEnter, StopLeave
<1>2. CASE ArmAutoRecording \/ MonitorBlocks \/ MonitorSeesOffline
  BY <1>2 DEF ArmAutoRecording, MonitorBlocks, MonitorSeesOffline
<1>3. CASE Service BY <1>3, ServiceFrame DEF Shutdown, Crash
<1> QED BY <1>1, <1>2, <1>3, ManagerFrame, WatchersFrame, RecordersFrame, SettlementFrame
   DEF Next, vars, memory

\* A session is bound to its intent when it is created, and for good.
LEMMA BindingSteps ==
  ASSUME IInv, [Next]_vars, NEW g \in Generations
  PROVE  \/ execution'[g].bound = execution[g].bound
         \/ RecorderOpens /\ g = recorder.gen
PROOF
<1>0. execution \in [Generations -> Execution] BY DEF IInv, TypeOK
<1>1. CASE RecorderOpens BY <1>0, <1>1 DEF RecorderOpens
<1>2. CASE FinishExecution BY <1>0, <1>2 DEF FinishExecution, Execution
<1>3. CASE QueueRecordingEnd BY <1>0, <1>3 DEF QueueRecordingEnd, Execution
<1>4. CASE FailWrites BY <1>0, <1>4 DEF FailWrites, IInv, StaleSound
<1>5. CASE SettleCommits BY <1>0, <1>5 DEF SettleCommits, Execution
<1> QED BY <1>1, <1>2, <1>3, <1>4, <1>5, ManagerFrame, WatchersFrame, RecordersFrame, SettlementFrame,
      ServiceFrame DEF Next, vars, database

LEMMA RecorderStays ==
  ASSUME IInv, [Next]_vars
  PROVE  RecorderSound'
PROOF
<1>0. /\ intent \in Intent /\ recorder \in Recorder /\ RecorderSound /\ ServiceSound /\ BoundSound
  BY DEF IInv, TypeOK
<1>1. ASSUME NEW c \in Callers, StartCommit(c) PROVE RecorderSound'
  <2>1. /\ recorder' = [NoRecorder EXCEPT !.phase = "opening", !.gen = intent.gen + 1]
        /\ intent'.gen = intent.gen + 1 /\ recovery' = None /\ execution' = execution
        /\ intent.gen + 1 \in Generations
    BY <1>1 DEF StartCommit, database
  <2>2. ~execution[intent.gen + 1].bound
    BY <1>0, <2>1, BoundsAssumption DEF BoundSound, Intent, Generations, None
  <2> QED BY <2>1, <2>2 DEF RecorderSound, IsRunning, NoRecorder, Early
<1>2. ASSUME \A c \in Callers : ~StartCommit(c) PROVE RecorderSound'
  <2>1. intent'.gen = intent.gen BY <1>2, GenerationsStay
  <2>2. recorder' # NoRecorder => recovery' = None
    <3>1. CASE RecorderLeaves BY <3>1 DEF RecorderLeaves
    <3>2. CASE AutoRecover BY <1>0, <3>2 DEF AutoRecover, ServiceSound, memory
    <3>3. ASSUME recovery' = recovery \/ recovery' = None, recovery' # None PROVE recorder' = NoRecorder
      <4>1. ~IsRunning BY <1>0, <3>3 DEF RecorderSound
      <4>2. ~IsRunning' BY <1>2, <4>1, RecordersBegin
      <4>3. recorder = NoRecorder BY <1>0, <4>1 DEF RecorderSound
      <4> QED BY <1>2, <4>1, <4>2, <4>3, RecorderSteps DEF Stopped, NoRecorder, IsRunning
    <3> QED BY <3>1, <3>2, <3>3, RecoverySteps
  <2>3. recorder'.phase = "opening" => recorder.phase = "opening" /\ recorder'.gen = recorder.gen
    BY <1>0, <1>2, RecorderSteps DEF Stopped, NoRecorder, Recorder
  <2>4. recorder'.phase = "opening" =>
          execution'[recorder.gen].bound = execution[recorder.gen].bound
    <3>1. CASE RecorderOpens BY <1>0, <3>1 DEF RecorderOpens, Advance, Recorder
    <3>2. CASE ~RecorderOpens
      BY <1>0, <2>3, <3>2, BindingSteps DEF RecorderSound, IsRunning
    <3> QED BY <3>1, <3>2
  <2>5. recorder'.phase \in Early => recorder'.outcome = "none"
    BY <1>0, <1>2, RecorderSteps DEF RecorderSound, Stopped, NoRecorder, Recorder
  <2>6. recorder' = NoRecorder \/ (IsRunning /\ recorder'.gen = recorder.gen)
    <3>1. CASE ~IsRunning
      BY <1>0, <1>2, <3>1, RecorderSteps DEF RecorderSound, Stopped, NoRecorder, IsRunning
    <3>2. CASE IsRunning BY <1>0, <1>2, <3>2, RecorderSteps DEF Stopped, Recorder
    <3> QED BY <3>1, <3>2
  <2>7. ~IsRunning' => recorder' = NoRecorder
    BY <1>0, <1>2, <2>6, RecorderSteps DEF Stopped, IsRunning, Recorder, NoRecorder
  <2>8. NoRecorder.phase = "none" BY DEF NoRecorder
  <2> QED BY <1>0, <2>1, <2>2, <2>3, <2>4, <2>5, <2>6, <2>7, <2>8 DEF RecorderSound, IsRunning
<1> QED BY <1>1, <1>2

\* Who holds a lock file, and what is left unregistered.
LEMMA HolderSteps ==
  ASSUME IInv, [Next]_vars, NEW g \in Generations
  PROVE  /\ "ffmpeg" \in holders'[g] => "ffmpeg" \in holders[g] \/ (SpawnFFmpeg /\ g = recorder.gen)
         /\ "settler" \in holders'[g] => "settler" \in holders[g] \/ SettleClaims(g)
         /\ \/ "host" \in holders'[g] <=> "host" \in holders[g]
            \/ RecorderOpens \/ CloseWriter \/ Crash
PROOF
<1>0. holders \in [Generations -> SUBSET {"host", "ffmpeg", "settler"}] BY DEF IInv, TypeOK
<1>1. CASE RecorderOpens BY <1>0, <1>1 DEF RecorderOpens
<1>2. CASE SpawnFFmpeg BY <1>0, <1>2 DEF SpawnFFmpeg
<1>3. CASE CloseWriter BY <1>0, <1>3 DEF CloseWriter
<1>4. ASSUME NEW h \in Generations, FFmpegExits(h)
      PROVE  holders'[g] \subseteq holders[g] /\ ("host" \in holders'[g] <=> "host" \in holders[g])
  BY <1>0, <1>4 DEF FFmpegExits
<1>5. ASSUME NEW h \in Generations, SettleClaims(h)
      PROVE  holders'[g] = IF g = h THEN holders[g] \cup {"settler"} ELSE holders[g]
  BY <1>0, <1>5 DEF SettleClaims
<1>6. CASE SettleCommits \/ SettleFails BY <1>0, <1>6 DEF SettleCommits, SettleFails
<1>7. CASE Crash BY <1>0, <1>7 DEF Crash
<1>8. CASE SettleRegisters BY <1>8 DEF SettleRegisters
<1> QED BY <1>1, <1>2, <1>3, <1>4, <1>5, <1>6, <1>7, <1>8, ManagerFrame, WatchersFrame, RecordersFrame,
      ServiceFrame DEF Next, vars, disk, Settlement

LEMMA TailSteps ==
  ASSUME IInv, [Next]_vars, NEW g \in tail'
  PROVE  g \in tail \/ FFmpegWrites(g)
PROOF
<1>1. CASE RegisterSegment \/ DrainAttempt BY <1>1 DEF RegisterSegment, DrainAttempt
<1>2. ASSUME NEW h \in Generations, FFmpegWrites(h) PROVE g \in tail \/ FFmpegWrites(g)
  BY <1>2 DEF FFmpegWrites
<1>3. CASE SettleRegisters BY <1>3 DEF SettleRegisters
<1> QED BY <1>1, <1>2, <1>3, ManagerFrame, WatchersFrame, RecordersFrame, SettlementFrame,
      ServiceFrame DEF Next, vars, disk

\* A start finds no recording.
LEMMA StartsAlone ==
  ASSUME IInv, NEW c \in Callers, StartCommit(c)
  PROVE  ~IsRunning /\ recorder = NoRecorder
PROOF BY DEF StartCommit, Serving, IInv, LockSound, RecorderSound

\* The recorder holds its lock file until it closes it or is lost.
LEMMA HoldSteps ==
  ASSUME IInv, [Next]_vars, ~RecorderOpens, ~CloseWriter, ~Crash
  PROVE  /\ recorder'.phase \in Holds <=> recorder.phase \in Holds
         /\ recorder.phase \in Holds => recorder'.gen = recorder.gen
PROOF
<1> USE DEF memory
<1>0. recorder \in Recorder BY DEF IInv, TypeOK
<1> DEFINE Same == /\ recorder'.phase \in Holds <=> recorder.phase \in Holds
                   /\ recorder.phase \in Holds => recorder'.gen = recorder.gen
<1>1. CASE Manager
  <2>1. ASSUME NEW c \in Callers, StartCommit(c) PROVE Same
    <3>1. recorder'.phase = "opening" BY <2>1 DEF StartCommit, NoRecorder
    <3>2. recorder.phase = "none" BY <2>1, StartsAlone DEF NoRecorder
    <3> QED BY <3>1, <3>2 DEF Holds
  <2>2. ASSUME NEW c \in Callers, StopEnter(c) \/ StopLeave(c) PROVE Same
    BY <1>0, <2>2 DEF StopEnter, StopLeave, Stopped, Recorder
  <2> QED BY <1>1, <2>1, <2>2, ManagerFrame DEF ArmAutoRecording
<1>2. CASE Recorders
  <2>1. CASE FailWrites \/ FailFails
    <3>1. recorder.phase \in {"run_failed", "task_failed"} BY <2>1 DEF FailWrites, FailFails, IInv, StaleSound
    <3>2. recorder'.phase \in {"task_failed", "leaving"}
      BY <1>0, <2>1, <3>1 DEF FailWrites, FailFails, Advance, AfterFail, Recorder
    <3> QED BY <3>1, <3>2 DEF Holds
  <2>2. CASE SpawnFFmpeg \/ QueueRecordingEnd
    BY <1>0, <2>2 DEF SpawnFFmpeg, QueueRecordingEnd, Advance, Recorder, Holds
  <2>3. CASE RecorderOpensLate \/ RecorderOpenFails \/ Ends
    BY <1>0, <2>3 DEF RecorderOpensLate, RecorderOpenFails, Ends, LoopEnds, Outcome, Recorder, Holds
  <2>4. CASE FinishExecution
    BY <1>0, <2>4 DEF FinishExecution, Advance, Outcome, AfterFinish, Recorder, Holds
  <2>5. CASE DrainAttempt BY <1>0, <2>5 DEF DrainAttempt, Advance, Recorder, Holds
  <2>6. CASE RecorderLeaves BY <2>6 DEF RecorderLeaves, NoRecorder, Holds
  <2>7. CASE RegisterSegment \/ FailReads BY <2>7 DEF RegisterSegment, FailReads
  <2>8. ASSUME NEW g \in Generations, FFmpegWrites(g) \/ FFmpegExits(g) PROVE recorder' = recorder
    BY <2>8 DEF FFmpegWrites, FFmpegExits
  <2> QED BY <1>2, <2>1, <2>2, <2>3, <2>4, <2>5, <2>6, <2>7, <2>8 DEF Recorders
<1>3. CASE Service BY <1>0, <1>3, ServiceFrame DEF Shutdown, Stopped, Recorder
<1> QED BY <1>1, <1>2, <1>3, WatchersFrame, SettlementFrame DEF Next, vars

LEMMA HostStays ==
  ASSUME IInv, [Next]_vars
  PROVE  HostSound'
PROOF
<1>0. /\ recorder \in Recorder /\ HostSound
      /\ holders \in [Generations -> SUBSET {"host", "ffmpeg", "settler"}]
  BY DEF IInv, TypeOK
<1>1. CASE RecorderOpens
  BY <1>0, <1>1 DEF RecorderOpens, Advance, HostSound, Holds, Recorder
<1>2. CASE CloseWriter
  <2>1. recorder'.phase \notin Holds BY <1>0, <1>2 DEF CloseWriter, Advance, Holds, Recorder
  <2> QED BY <1>0, <1>2, <2>1 DEF CloseWriter, HostSound
<1>3. CASE Crash BY <1>0, <1>3 DEF Crash, HostSound, NoRecorder, Holds
<1>4. CASE ~RecorderOpens /\ ~CloseWriter /\ ~Crash
  BY <1>0, <1>4, HolderSteps, HoldSteps DEF HostSound
<1> QED BY <1>1, <1>2, <1>3, <1>4

LEMMA BoundStays ==
  ASSUME IInv, [Next]_vars
  PROVE  BoundSound'
PROOF
<1> SUFFICES ASSUME NEW g \in Generations
             PROVE  /\ execution'[g].bound => g <= intent'.gen
                    /\ holders'[g] # {} \/ g \in tail' => execution'[g].bound
  BY DEF BoundSound
<1>0. /\ intent \in Intent /\ intent' \in Intent /\ BoundSound /\ HostSound /\ FFmpegSound /\ g \in Nat
      /\ holders' \in [Generations -> SUBSET {"host", "ffmpeg", "settler"}]
      /\ execution' \in [Generations -> Execution]
  BY BoundsAssumption, TypesStay DEF IInv, TypeOK, Generations
<1>1. intent.gen <= intent'.gen
  <2>1. intent.gen \in Nat /\ intent'.gen \in Nat BY <1>0, BoundsAssumption DEF Intent, Generations, None
  <2>2. \A c \in Callers : StartCommit(c) => intent'.gen = intent.gen + 1 BY DEF StartCommit
  <2> QED BY <2>1, <2>2, GenerationsStay
<1>2. execution[g].bound => execution'[g].bound
  <2>1. CASE RecorderOpens /\ g = recorder.gen
    <3>1. execution'[g].bound = TRUE BY <2>1 DEF RecorderOpens, IInv, TypeOK
    <3> QED BY <3>1
  <2> QED BY <2>1, BindingSteps
<1>3. execution'[g].bound => g <= intent'.gen
  <2>1. CASE execution[g].bound
    <3>1. g <= intent.gen BY <1>0, <2>1 DEF BoundSound
    <3>2. intent.gen \in Nat /\ intent'.gen \in Nat BY <1>0, BoundsAssumption DEF Intent, Generations, None
    <3> QED BY <1>0, <1>1, <3>1, <3>2
  <2>2. CASE RecorderOpens /\ g = recorder.gen
    <3>1. g = intent.gen /\ intent.gen \in Nat BY <1>0, <2>2 DEF RecorderOpens
    <3> QED BY <1>0, <1>1, <3>1, BoundsAssumption DEF Intent, Generations, None
  <2> QED BY <2>1, <2>2, BindingSteps
<1>4. holders'[g] # {} => execution'[g].bound
  <2>1. CASE "ffmpeg" \in holders'[g] /\ "ffmpeg" \notin holders[g]
    <3>1. SpawnFFmpeg /\ g = recorder.gen BY <2>1, HolderSteps
    <3>2. "host" \in holders[g] BY <1>0, <3>1 DEF SpawnFFmpeg, HostSound, Holds
    <3> QED BY <1>0, <1>2, <3>2 DEF BoundSound
  <2>2. CASE "settler" \in holders'[g] /\ "settler" \notin holders[g]
    BY <1>2, <2>2, HolderSteps DEF SettleClaims, Pending
  <2>3. CASE "host" \in holders'[g] /\ "host" \notin holders[g]
    <3>1. RecorderOpens \/ CloseWriter \/ Crash BY <2>3, HolderSteps
    <3>2. ~CloseWriter /\ ~Crash BY <2>3 DEF CloseWriter, Crash, IInv, TypeOK
    <3>3. RecorderOpens BY <3>1, <3>2
    <3>4. g = recorder.gen BY <2>3, <3>3 DEF RecorderOpens, IInv, TypeOK
    <3>5. execution'[g].bound = TRUE BY <3>3, <3>4 DEF RecorderOpens, IInv, TypeOK
    <3> QED BY <3>5
  <2>4. CASE holders[g] # {} BY <1>0, <1>2, <2>4 DEF BoundSound
  <2> QED BY <1>0, <2>1, <2>2, <2>3, <2>4
<1>5. g \in tail' => execution'[g].bound
  <2>1. ASSUME g \in tail' PROVE g \in tail \/ "ffmpeg" \in holders[g]
    BY <2>1, TailSteps DEF FFmpegWrites
  <2> QED BY <1>0, <1>2, <2>1 DEF BoundSound
<1> QED BY <1>3, <1>4, <1>5

\* A recorder exists only in a process that serves or stops, and outside the
\* supervision by its recorder no FFmpeg writes there.
LEMMA RecordersServe == IInv /\ IsRunning => Looping
PROOF BY DEF IInv, TypeOK, ServiceSound, IsRunning, NoRecorder, Looping

LEMMA NoFFmpeg ==
  ASSUME IInv, Looping, NEW g \in Generations, ~(recorder.phase = "supervising" /\ recorder.gen = g)
  PROVE  "ffmpeg" \notin holders[g]
PROOF BY DEF IInv, FFmpegSound, Looping

\* The supervision ends when FFmpeg has exited, or with the process.
LEMMA SupervisionSteps ==
  ASSUME IInv, [Next]_vars, recorder.phase = "supervising"
  PROVE  \/ recorder'.phase = "supervising" /\ recorder'.gen = recorder.gen
         \/ DrainAttempt \/ Crash
PROOF
<1> USE DEF memory
<1> DEFINE Same == recorder'.phase = "supervising" /\ recorder'.gen = recorder.gen
<1>0. recorder \in Recorder /\ stale = NoStale BY DEF IInv, TypeOK, StaleSound
<1>1. CASE Manager
  <2>1. \A c \in Callers : ~StartCommit(c) BY StartsAlone DEF NoRecorder
  <2>2. ASSUME NEW c \in Callers, StopEnter(c) \/ StopLeave(c) PROVE Same
    BY <1>0, <2>2 DEF StopEnter, StopLeave, Stopped, Recorder
  <2> QED BY <1>1, <2>1, <2>2, ManagerFrame DEF ArmAutoRecording
<1>2. CASE Recorders
  BY <1>0, <1>2 DEF Recorders, RecorderOpens, RecorderOpensLate, RecorderOpenFails, SpawnFFmpeg,
     RegisterSegment, Ends, LoopEnds, FinishExecution, QueueRecordingEnd, CloseWriter, FailReads,
     FailWrites, FailFails, RecorderLeaves, FFmpegWrites, FFmpegExits
<1>3. CASE Service BY <1>0, <1>3, ServiceFrame DEF Shutdown, Stopped, Recorder
<1> QED BY <1>1, <1>2, <1>3, WatchersFrame, SettlementFrame DEF Next, vars

LEMMA FFmpegStays ==
  ASSUME IInv, [Next]_vars
  PROVE  FFmpegSound'
PROOF
<1> SUFFICES ASSUME NEW g \in Generations, "ffmpeg" \in holders'[g]
             PROVE  \/ service' \in {"down", "settling"}
                    \/ recorder'.phase = "supervising" /\ recorder'.gen = g
  BY DEF FFmpegSound
<1>0. recorder \in Recorder /\ holders \in [Generations -> SUBSET {"host", "ffmpeg", "settler"}]
  BY DEF IInv, TypeOK
<1>1. CASE SpawnFFmpeg /\ g = recorder.gen BY <1>0, <1>1 DEF SpawnFFmpeg, Advance, Recorder
<1>2. CASE "ffmpeg" \in holders[g]
  <2>1. CASE service \in {"down", "settling"}
    <3>1. execution[g].bound /\ ~execution[g].settled
      BY <1>2 DEF IInv, BoundSound, SettledIsComplete
    <3>2. ~PrepareRestarts BY <3>1 DEF PrepareRestarts, Pending
    <3>3. service' \in {"down", "settling"}
      <4>1. CASE Service
        <5>1. CASE Boot \/ BootFails BY <5>1 DEF Boot, BootFails
        <5>2. CASE AutoRecover \/ Shutdown \/ StopAll \/ ShutdownEnds
          BY <2>1, <5>2 DEF AutoRecover, Shutdown, StopAll, ShutdownEnds, Serving
        <5>3. CASE Crash BY <5>3 DEF Crash
        <5> QED BY <3>2, <4>1, <5>1, <5>2, <5>3 DEF Service
      <4>2. CASE Settlement BY <2>1, <4>2, SettlementFrame DEF SettleFails
      <4> QED BY <2>1, <4>1, <4>2, ManagerFrame, WatchersFrame, RecordersFrame DEF Next, vars
    <3> QED BY <3>3
  <2>2. CASE service \notin {"down", "settling"}
    <3>1. recorder.phase = "supervising" /\ recorder.gen = g BY <1>2, <2>2 DEF IInv, FFmpegSound
    <3>2. ~DrainAttempt BY <1>2, <3>1 DEF DrainAttempt
    <3>3. CASE Crash BY <3>3 DEF Crash
    <3> QED BY <3>1, <3>2, <3>3, SupervisionSteps
  <2> QED BY <2>1, <2>2
<1> QED BY <1>1, <1>2, HolderSteps

LEMMA OneWriterStays ==
  ASSUME IInv, [Next]_vars
  PROVE  OneWriter'
PROOF
<1> SUFFICES ASSUME NEW g \in Generations, NEW h \in Generations, "ffmpeg" \in holders'[g],
                    "host" \in holders'[h] \/ "ffmpeg" \in holders'[h], g # h
             PROVE  FALSE
  BY DEF OneWriter
<1>0. OneWriter /\ HostSound /\ holders \in [Generations -> SUBSET {"host", "ffmpeg", "settler"}]
  BY DEF IInv, TypeOK
<1>1. CASE SpawnFFmpeg
  <2>1. recorder.phase = "recording" /\ Looping BY <1>1, RecordersServe DEF SpawnFFmpeg, IsRunning
  <2>2. "ffmpeg" \notin holders[g] /\ "ffmpeg" \notin holders[h] BY <2>1, NoFFmpeg
  <2>3. g = recorder.gen BY <2>2, HolderSteps
  <2>4. holders'[h] = holders[h] BY <1>0, <1>1, <2>3 DEF SpawnFFmpeg
  <2>5. "host" \in holders[h] BY <2>2, <2>4
  <2> QED BY <1>0, <2>3, <2>5 DEF HostSound
<1>2. CASE RecorderOpens
  <2>1. recorder.phase = "opening" /\ Looping BY <1>2, RecordersServe DEF RecorderOpens, IsRunning
  <2>2. "ffmpeg" \notin holders[g] BY <2>1, NoFFmpeg
  <2>3. SpawnFFmpeg BY <2>2, HolderSteps
  <2> QED BY <2>1, <2>3 DEF SpawnFFmpeg
<1>3. CASE ~SpawnFFmpeg /\ ~RecorderOpens
  <2>1. "ffmpeg" \in holders[g] BY <1>3, HolderSteps
  <2>2. "ffmpeg" \in holders'[h] => "ffmpeg" \in holders[h] BY <1>3, HolderSteps
  <2>3. "host" \in holders'[h] => "host" \in holders[h]
    <3>1. CASE CloseWriter BY <1>0, <3>1 DEF CloseWriter
    <3>2. CASE Crash BY <1>0, <3>2 DEF Crash
    <3> QED BY <1>3, <3>1, <3>2, HolderSteps
  <2> QED BY <1>0, <2>1, <2>2, <2>3 DEF OneWriter
<1> QED BY <1>1, <1>2, <1>3

LEMMA SettlingStays ==
  ASSUME IInv, [Next]_vars
  PROVE  SettlingSound'
PROOF
<1> USE DEF None
<1>0. /\ settling \in Generations \cup {None} /\ recorder \in Recorder /\ 0 \notin Generations
      /\ holders \in [Generations -> SUBSET {"host", "ffmpeg", "settler"}]
      /\ settling # None => holders[settling] = {"settler"}
  BY BoundsAssumption DEF IInv, TypeOK, SettlingSound, Generations
<1>1. ASSUME NEW g \in Generations, SettleClaims(g) PROVE SettlingSound'
  BY <1>0, <1>1 DEF SettleClaims, NobodyWrites, SettlingSound
<1>2. CASE SettleCommits \/ SettleFails \/ Crash BY <1>2 DEF SettleCommits, SettleFails, Crash, SettlingSound
<1>3. ASSUME settling # None, UNCHANGED settling, ~SettleCommits, ~SettleFails, ~Crash,
             \A g \in Generations : ~SettleClaims(g)
      PROVE  holders'[settling] = {"settler"}
  <2>1. settling \in Generations /\ holders[settling] = {"settler"} BY <1>0, <1>3
  <2>2. recorder.phase \in Holds => settling # recorder.gen
    BY <2>1 DEF IInv, HostSound
  <2>3. recorder.phase = "opening" => settling # recorder.gen
    BY <2>1 DEF IInv, RecorderSound, BoundSound
  <2>4. CASE RecorderOpens \/ SpawnFFmpeg \/ CloseWriter
    <3>1. settling # recorder.gen BY <2>2, <2>3, <2>4 DEF RecorderOpens, SpawnFFmpeg, CloseWriter, Holds
    <3> QED BY <1>0, <2>1, <2>4, <3>1 DEF RecorderOpens, SpawnFFmpeg, CloseWriter
  <2>5. ASSUME NEW g \in Generations, FFmpegExits(g) PROVE holders'[settling] = {"settler"}
    BY <1>0, <2>1, <2>5 DEF FFmpegExits
  <2>6. CASE SettleRegisters BY <2>1, <2>6 DEF SettleRegisters
  <2> QED BY <1>3, <2>1, <2>4, <2>5, <2>6, ManagerFrame, WatchersFrame, RecordersFrame, ServiceFrame
     DEF Next, vars, disk, Settlement
<1>4. ASSUME ~SettleCommits, ~SettleFails, ~Crash, \A g \in Generations : ~SettleClaims(g)
      PROVE  settling' = settling
  <2>1. CASE SettleRegisters BY <2>1 DEF SettleRegisters, memory
  <2> QED BY <1>4, <2>1, ManagerFrame, WatchersFrame, RecordersFrame, ServiceFrame
     DEF Next, vars, memory, Settlement
<1> QED BY <1>1, <1>2, <1>3, <1>4 DEF SettlingSound

\* An end is stored for good, and a session is settled by the three who may.
LEMMA SettlingSteps ==
  ASSUME IInv, [Next]_vars, NEW g \in Generations
  PROVE  /\ execution[g].finalized => execution'[g].finalized
         /\ execution'[g].settled =>
              \/ execution[g].settled
              \/ QueueRecordingEnd /\ g = recorder.gen
              \/ SettleCommits /\ g = settling
              \/ FailWrites /\ g = stale.gen /\ stale.execution.settled
PROOF
<1> DEFINE Goal == /\ execution[g].finalized => execution'[g].finalized
                   /\ execution'[g].settled =>
                        \/ execution[g].settled
                        \/ QueueRecordingEnd /\ g = recorder.gen
                        \/ SettleCommits /\ g = settling
                        \/ FailWrites /\ g = stale.gen /\ stale.execution.settled
<1>0. execution \in [Generations -> Execution] /\ execution[g] \in Execution BY DEF IInv, TypeOK
<1>1. CASE RecorderOpens
  <2>1. execution' = [execution EXCEPT ![recorder.gen].bound = TRUE] BY <1>1 DEF RecorderOpens
  <2> QED BY <1>0, <2>1 DEF Execution
<1>2. CASE FinishExecution
  <2>1. execution' = execution \/ execution' = [execution EXCEPT ![recorder.gen].finalized = TRUE]
    BY <1>2 DEF FinishExecution
  <2> QED BY <1>0, <2>1 DEF Execution
<1>3. CASE QueueRecordingEnd
  <2>1. PICK d \in BOOLEAN : execution' = [execution EXCEPT ![recorder.gen].settled = @ \/ d]
    BY <1>3 DEF QueueRecordingEnd
  <2>2. execution'[g].finalized = execution[g].finalized BY <1>0, <2>1 DEF Execution
  <2>3. g # recorder.gen => execution'[g] = execution[g] BY <1>0, <2>1
  <2> QED BY <1>3, <2>2, <2>3
<1>4. CASE FailWrites
  <2>1. execution' = [execution EXCEPT ![stale.gen] = stale.execution] /\ stale # NoStale
    BY <1>4 DEF FailWrites
  <2>2. stale.execution.finalized BY <2>1 DEF IInv, StaleSound
  <2>3. g # stale.gen => execution'[g] = execution[g] BY <1>0, <2>1
  <2>4. g = stale.gen => execution'[g] = stale.execution BY <1>0, <2>1
  <2> QED BY <1>4, <2>2, <2>3, <2>4
<1>5. CASE SettleCommits
  <2>1. execution' = [execution EXCEPT ![settling].finalized = TRUE, ![settling].settled = TRUE]
    BY <1>5 DEF SettleCommits
  <2>2. g # settling => execution'[g] = execution[g] BY <1>0, <2>1
  <2>3. g = settling => execution'[g].finalized = TRUE BY <1>0, <2>1 DEF Execution
  <2> QED BY <1>5, <2>2, <2>3
<1>6. CASE UNCHANGED execution BY <1>6
<1> QED BY <1>1, <1>2, <1>3, <1>4, <1>5, <1>6, ManagerFrame, WatchersFrame, RecordersFrame,
      SettlementFrame, ServiceFrame DEF Next, vars, database

\* A recorder reaches the phases without a tail from one that drained it.
LEMMA DrainSteps ==
  ASSUME IInv, [Next]_vars
  PROVE  /\ recorder'.phase = "recording" => recorder'.gen = recorder.gen /\
              (recorder.phase = "recording" \/ RecorderOpens \/ DrainAttempt)
         /\ recorder'.phase = "ending" /\ ~recorder'.tailPending => recorder'.gen = recorder.gen /\
              (recorder.phase = "recording" \/ (recorder.phase = "ending" /\ ~recorder.tailPending))
         /\ recorder'.phase = "settling" => recorder'.gen = recorder.gen /\
              (recorder.phase = "settling" \/ (recorder.phase = "ending" /\ ~recorder.tailPending))
         /\ recorder'.phase = "settling" /\ recorder.phase # "settling" =>
              FinishExecution /\ execution'[recorder.gen].finalized
PROOF
<1> USE DEF memory
<1> DEFINE Goal ==
       /\ recorder'.phase = "recording" => recorder'.gen = recorder.gen /\
            (recorder.phase = "recording" \/ RecorderOpens \/ DrainAttempt)
       /\ recorder'.phase = "ending" /\ ~recorder'.tailPending => recorder'.gen = recorder.gen /\
            (recorder.phase = "recording" \/ (recorder.phase = "ending" /\ ~recorder.tailPending))
       /\ recorder'.phase = "settling" => recorder'.gen = recorder.gen /\
            (recorder.phase = "settling" \/ (recorder.phase = "ending" /\ ~recorder.tailPending))
       /\ recorder'.phase = "settling" /\ recorder.phase # "settling" =>
            FinishExecution /\ execution'[recorder.gen].finalized
<1>0. recorder \in Recorder /\ execution \in [Generations -> Execution] BY DEF IInv, TypeOK
<1>a. /\ Stopped(recorder).phase = recorder.phase /\ Stopped(recorder).gen = recorder.gen
      /\ Stopped(recorder).tailPending = recorder.tailPending
  BY <1>0 DEF Stopped, Recorder
<1>b. recorder' = recorder \/ recorder' = Stopped(recorder) => Goal BY <1>a
<1>c. recorder'.phase \notin {"recording", "ending", "settling"} => Goal OBVIOUS
<1> HIDE DEF Goal
<1>1. ASSUME Manager PROVE Goal
  <2>1. ASSUME NEW c \in Callers, StartCommit(c) PROVE Goal
    <3>1. recorder'.phase = "opening" BY <2>1 DEF StartCommit, NoRecorder
    <3> QED BY <1>c, <3>1
  <2>2. ASSUME NEW c \in Callers, StopEnter(c) \/ StopLeave(c)
        PROVE  recorder' = recorder \/ recorder' = Stopped(recorder)
    BY <2>2 DEF StopEnter, StopLeave
  <2> QED BY <1>b, <1>1, <2>1, <2>2, ManagerFrame DEF ArmAutoRecording
<1>2. ASSUME Recorders PROVE Goal
  <2>1. CASE FailWrites \/ FailFails
    <3>1. recorder.phase \in {"run_failed", "task_failed"} BY <2>1 DEF FailWrites, FailFails, IInv, StaleSound
    <3>2. recorder'.phase \in {"task_failed", "leaving"}
      BY <1>0, <2>1, <3>1 DEF FailWrites, FailFails, Advance, AfterFail, Recorder
    <3> QED BY <1>c, <3>2
  <2>2. CASE RecorderOpensLate \/ RecorderOpenFails \/ RecorderLeaves \/ SpawnFFmpeg \/ QueueRecordingEnd \/ CloseWriter
    <3>1. CASE RecorderOpensLate \/ RecorderOpenFails
      BY <1>0, <1>c, <3>1 DEF RecorderOpensLate, RecorderOpenFails, Outcome, Recorder
    <3>2. CASE RecorderLeaves BY <1>c, <3>2 DEF RecorderLeaves, NoRecorder
    <3>3. CASE SpawnFFmpeg \/ QueueRecordingEnd
      BY <1>0, <1>c, <3>3 DEF SpawnFFmpeg, QueueRecordingEnd, Advance, Recorder
    <3>4. CASE CloseWriter
      <4>1. recorder'.phase \in {"run_failed", "task_failed", "leaving"}
        BY <1>0, <3>4 DEF CloseWriter, Advance, Recorder
      <4> QED BY <1>c, <4>1
    <3> QED BY <2>2, <3>1, <3>2, <3>3, <3>4
  <2>3. CASE RecorderOpens BY <1>0, <2>3 DEF RecorderOpens, Advance, Recorder, Goal
  <2>4. CASE Ends BY <1>0, <2>4 DEF Ends, LoopEnds, Outcome, Recorder, Goal
  <2>5. CASE DrainAttempt BY <1>0, <2>5 DEF DrainAttempt, Advance, Recorder, Goal
  <2>6. CASE FinishExecution
    <3>1. recorder.phase = "ending" /\ recorder.gen \in Generations
      BY <2>6 DEF FinishExecution, IInv, RecorderSound, IsRunning
    <3>2. \/ /\ execution' = [execution EXCEPT ![recorder.gen].finalized = TRUE]
             /\ recorder' = [recorder EXCEPT !.phase = AfterFinish]
          \/ recorder' = [recorder EXCEPT !.phase = "closing", !.outcome = "failed"]
      BY <2>6 DEF FinishExecution, Advance, Outcome
    <3>3. CASE recorder' = [recorder EXCEPT !.phase = "closing", !.outcome = "failed"]
      BY <1>0, <1>c, <3>3 DEF Recorder
    <3>4. CASE /\ execution' = [execution EXCEPT ![recorder.gen].finalized = TRUE]
               /\ recorder' = [recorder EXCEPT !.phase = AfterFinish]
      <4>1. execution'[recorder.gen].finalized = TRUE BY <1>0, <3>1, <3>4 DEF Execution
      <4>2. recorder'.phase = AfterFinish /\ recorder'.gen = recorder.gen BY <1>0, <3>4 DEF Recorder
      <4> QED BY <2>6, <3>1, <4>1, <4>2 DEF AfterFinish, Goal
    <3> QED BY <3>2, <3>3, <3>4
  <2>7. CASE RegisterSegment \/ FailReads BY <1>b, <2>7 DEF RegisterSegment, FailReads
  <2>8. ASSUME NEW g \in Generations, FFmpegWrites(g) \/ FFmpegExits(g) PROVE Goal
    BY <1>b, <2>8 DEF FFmpegWrites, FFmpegExits
  <2> QED BY <1>2, <2>1, <2>2, <2>3, <2>4, <2>5, <2>6, <2>7, <2>8 DEF Recorders
<1>3. ASSUME Service PROVE Goal
  <2>1. CASE Crash BY <1>c, <2>1 DEF Crash, NoRecorder
  <2> QED BY <1>b, <1>3, <2>1, ServiceFrame DEF Shutdown
<1>4. Goal BY <1>b, <1>1, <1>2, <1>3, WatchersFrame, SettlementFrame DEF Next, vars
<1> QED BY <1>4 DEF Goal

LEMMA DrainedStays ==
  ASSUME IInv, [Next]_vars
  PROVE  DrainedSound'
PROOF
<1> DEFINE Drained == \/ recorder.phase \in {"recording", "settling"}
                      \/ recorder.phase = "ending" /\ ~recorder.tailPending
<1>0. (Drained => recorder.gen \notin tail) BY DEF IInv, DrainedSound
<1> SUFFICES ASSUME Drained' PROVE recorder'.gen \notin tail'
  BY DEF DrainedSound
<1>1. recorder'.gen = recorder.gen /\ (Drained \/ RecorderOpens \/ DrainAttempt) BY DrainSteps
<1>2. CASE RecorderOpens
  <2>1. recorder.gen \notin tail BY <1>2 DEF RecorderOpens, IInv, RecorderSound, BoundSound, IsRunning
  <2> QED BY <1>1, <1>2, <2>1 DEF RecorderOpens
<1>3. CASE DrainAttempt
  <2>1. \/ tail' = tail \ {recorder.gen}
        \/ recorder'.phase = "ending" /\ recorder'.tailPending
    BY <1>3 DEF DrainAttempt, IInv, TypeOK, Recorder
  <2> QED BY <1>1, <2>1
<1>4. CASE Drained
  <2>1. Looping /\ recorder.phase # "supervising" /\ recorder.gen \in Generations
    BY <1>4, RecordersServe DEF IsRunning, IInv, RecorderSound
  <2>2. "ffmpeg" \notin holders[recorder.gen] BY <2>1, NoFFmpeg
  <2> QED BY <1>0, <1>1, <1>4, <2>2, TailSteps DEF FFmpegWrites
<1> QED BY <1>1, <1>2, <1>3, <1>4

LEMMA EndsStay ==
  ASSUME IInv, [Next]_vars
  PROVE  EndsSound'
PROOF
<1>0. EndsSound BY DEF IInv
<1>1. ASSUME NEW g \in Generations, execution'[g].settled PROVE execution'[g].finalized
  <2>1. CASE execution[g].settled BY <1>0, <2>1, SettlingSteps DEF EndsSound
  <2>2. CASE QueueRecordingEnd /\ g = recorder.gen
    BY <1>0, <2>2, SettlingSteps DEF EndsSound, QueueRecordingEnd
  <2>3. CASE SettleCommits /\ g = settling
    <3>1. execution \in [Generations -> Execution] BY DEF IInv, TypeOK
    <3>2. execution'[g].finalized = TRUE BY <2>3, <3>1 DEF SettleCommits, Execution
    <3> QED BY <3>2
  <2>4. CASE FailWrites /\ g = stale.gen
    <3>1. execution'[g] = stale.execution BY <2>4 DEF FailWrites, IInv, TypeOK
    <3> QED BY <2>4, <3>1 DEF FailWrites, IInv, StaleSound
  <2> QED BY <1>1, <2>1, <2>2, <2>3, <2>4, SettlingSteps
<1>2. ASSUME recorder'.phase = "settling" PROVE execution'[recorder'.gen].finalized
  <2>1. recorder'.gen = recorder.gen BY <1>2, DrainSteps
  <2>2. CASE recorder.phase = "settling"
    <3>1. recorder.gen \in Generations BY <2>2 DEF IInv, RecorderSound, IsRunning
    <3> QED BY <1>0, <2>1, <2>2, <3>1, SettlingSteps DEF EndsSound
  <2> QED BY <1>2, <2>1, <2>2, DrainSteps
<1> QED BY <1>1, <1>2 DEF EndsSound

LEMMA SettledStays ==
  ASSUME IInv, [Next]_vars
  PROVE  SettledIsComplete'
PROOF
<1> SUFFICES ASSUME NEW g \in Generations, execution'[g].settled
             PROVE  g \notin tail' /\ "ffmpeg" \notin holders'[g]
  BY DEF SettledIsComplete
<1>1. g \notin tail /\ "ffmpeg" \notin holders[g]
  <2>1. CASE execution[g].settled BY <2>1 DEF IInv, SettledIsComplete
  <2>2. CASE QueueRecordingEnd /\ g = recorder.gen
    <3>1. recorder.phase = "settling" /\ Looping BY <2>2, RecordersServe DEF QueueRecordingEnd, IsRunning
    <3> QED BY <2>2, <3>1, NoFFmpeg DEF IInv, DrainedSound
  <2>3. CASE SettleCommits /\ g = settling
    BY <2>3 DEF SettleCommits, IInv, SettlingSound
  <2>4. CASE FailWrites /\ g = stale.gen /\ stale.execution.settled
    <3>1. /\ recorder.phase \in {"run_failed", "task_failed"} /\ g \notin tail
          /\ recorder.gen = g
      BY <2>4 DEF FailWrites, IInv, StaleSound
    <3>2. Looping BY <3>1, RecordersServe DEF IsRunning
    <3> QED BY <3>1, <3>2, NoFFmpeg
  <2> QED BY <2>1, <2>2, <2>3, <2>4, SettlingSteps
<1>2. g \notin tail' BY <1>1, TailSteps DEF FFmpegWrites
<1>3. ~(SpawnFFmpeg /\ g = recorder.gen)
  <2>1. SUFFICES ASSUME SpawnFFmpeg, g = recorder.gen PROVE FALSE OBVIOUS
  <2>2. ~execution[g].settled /\ recorder.phase = "recording" BY <2>1 DEF SpawnFFmpeg, IInv, EndsSound
  <2>3. execution'[g].settled = execution[g].settled BY <2>1 DEF SpawnFFmpeg, database
  <2> QED BY <2>2, <2>3
<1> QED BY <1>1, <1>2, <1>3, HolderSteps

\* While an unlocked finish waits between its read and its write, the intent it
\* has read changes only if settlement blocks it.
LEMMA StaleSteps ==
  ASSUME IInv, [Next]_vars, stale # NoStale, stale' # NoStale
  PROVE  /\ stale' = stale
         /\ recorder' \in {recorder, Stopped(recorder)}
         /\ \/ UNCHANGED intent
            \/ /\ intent.state \in {"accepted", "running"} /\ intent'.state = "blocked"
               /\ intent'.gen = intent.gen /\ intent'.crashes = intent.crashes
PROOF
<1> USE DEF memory, database
<1> DEFINE Rec == recorder' \in {recorder, Stopped(recorder)}
           Int == \/ UNCHANGED intent
                  \/ /\ intent.state \in {"accepted", "running"} /\ intent'.state = "blocked"
                     /\ intent'.gen = intent.gen /\ intent'.crashes = intent.crashes
<1>0. /\ recorder.phase \in {"run_failed", "task_failed"} /\ IsRunning /\ recovery = None
      /\ intent \in Intent /\ service \in {"up", "stopping"}
  BY RecordersServe DEF IInv, StaleSound, IsRunning, RecorderSound, TypeOK, Looping
<1>1. ASSUME Manager PROVE stale' = stale /\ Rec /\ Int
  <2>1. \A c \in Callers : ~StartCommit(c) /\ ~StopEnter(c) BY <1>0, StartsAlone DEF StopEnter
  <2>2. ASSUME NEW c \in Callers, StopLeave(c) PROVE FALSE BY <1>0, <2>2 DEF StopLeave
  <2> QED BY <1>0, <1>1, <2>1, <2>2, ManagerFrame DEF ArmAutoRecording
<1>2. ASSUME Watchers PROVE stale' = stale /\ Rec /\ Int
  BY <1>0, <1>2, WatchersFrame DEF MonitorBlocks, MonitorSeesOffline, RecoveryBecomes
<1>3. ASSUME Recorders PROVE stale' = stale /\ Rec /\ Int
  <2>1. ~FailWrites /\ ~FailFails /\ ~FailReads BY DEF FailWrites, FailFails, FailReads
  <2>2. /\ ~RecorderOpens /\ ~RecorderOpensLate /\ ~RecorderOpenFails /\ ~SpawnFFmpeg /\ ~RegisterSegment
        /\ ~DrainAttempt /\ ~Ends /\ ~FinishExecution /\ ~QueueRecordingEnd /\ ~CloseWriter /\ ~RecorderLeaves
    BY <1>0 DEF RecorderOpens, RecorderOpensLate, RecorderOpenFails, SpawnFFmpeg, RegisterSegment, DrainAttempt,
       Ends, LoopEnds, FinishExecution, QueueRecordingEnd, CloseWriter, RecorderLeaves
  <2>3. PICK g \in Generations : FFmpegWrites(g) \/ FFmpegExits(g) BY <1>3, <2>1, <2>2 DEF Recorders
  <2> QED BY <2>3 DEF FFmpegWrites, FFmpegExits
<1>4. ASSUME Settlement PROVE stale' = stale /\ Rec /\ Int
  <2>1. CASE SettleCommits
    <3>1. \/ intent' = intent
          \/ Live /\ intent' = [intent EXCEPT !.state = "blocked", !.resume = FALSE]
      BY <2>1 DEF SettleCommits
    <3>2. Int BY <1>0, <3>1 DEF Live, Intent
    <3> QED BY <1>4, <3>2, SettlementFrame
  <2> QED BY <1>4, <2>1, SettlementFrame
<1>5. ASSUME Service PROVE stale' = stale /\ Rec /\ Int
  <2>1. ~PrepareRestarts /\ ~AutoRecover /\ ~Crash BY <1>0 DEF PrepareRestarts, AutoRecover, Crash
  <2> QED BY <1>5, <2>1, ServiceFrame DEF Shutdown
<1>6. CASE UNCHANGED vars BY <1>6 DEF vars
<1>7. stale' = stale /\ Rec /\ Int BY <1>1, <1>2, <1>3, <1>4, <1>5, <1>6 DEF Next
<1> QED BY <1>7

LEMMA StaleStays ==
  ASSUME IInv, [Next]_vars
  PROVE  StaleSound'
PROOF
<1>0. /\ recorder \in Recorder /\ intent \in Intent /\ StaleSound
      /\ execution \in [Generations -> Execution]
  BY DEF IInv, TypeOK
<1>1. CASE stale' = NoStale BY <1>1 DEF StaleSound
<1>2. CASE stale = NoStale /\ stale' # NoStale
  <2>1. FailReads
    <3>1. UNCHANGED stale \/ FailReads \/ FailWrites \/ FailFails \/ Crash
      BY ManagerFrame, WatchersFrame, RecordersFrame, SettlementFrame, ServiceFrame DEF Next, vars, memory
    <3> QED BY <1>2, <3>1 DEF FailWrites, FailFails, Crash
  <2>2. /\ UNCHANGED <<intent, execution, tail, recorder>>
        /\ recorder.phase \in {"run_failed", "task_failed"}
    BY <2>1 DEF FailReads, database, disk
  <2>3. recorder.gen \in Generations BY <2>2 DEF IInv, RecorderSound, IsRunning
  <2>4. /\ stale'.gen = recorder.gen /\ stale'.intent = Finished(intent)
        /\ stale'.execution = [execution[recorder.gen] EXCEPT !.finalized = TRUE]
        /\ stale'.changed = (Finished(intent) # intent)
    BY <2>1, Zenon DEF FailReads
  <2>5. execution[recorder.gen] \in Execution BY <1>0, <2>3
  <2>6. /\ stale'.execution.bound = execution[recorder.gen].bound
        /\ stale'.execution.finalized = TRUE
        /\ stale'.execution.settled = execution[recorder.gen].settled
    BY <2>4, <2>5 DEF Execution
  <2>7. execution[recorder.gen].settled => recorder.gen \notin tail
    BY <2>3 DEF IInv, SettledIsComplete
  <2>8. /\ stale'.intent.gen = intent.gen /\ stale'.intent.crashes = intent.crashes
        /\ stale'.changed =>
             /\ intent.state \in {"accepted", "running", "blocked"}
             /\ stale'.intent.state \in {"stopped", "cooldown", "blocked"}
             /\ stale'.intent.state = "blocked" => recorder.outcome \in {"action", "failed"}
    <3>1. stale'.changed => Finished(intent) # intent BY <2>4, Zenon
    <3>2. /\ Finished(intent).gen = intent.gen /\ Finished(intent).crashes = intent.crashes
          /\ Finished(intent) # intent =>
               /\ intent.state \in {"accepted", "running"}
               /\ Finished(intent).state \in {"stopped", "cooldown", "blocked"}
               /\ Finished(intent).state = "blocked" => recorder.outcome \in {"action", "failed"}
      BY <1>0, EndsOfIntents
    <3> QED BY <2>4, <3>1, <3>2
  <2>9. /\ stale'.execution.bound = execution'[stale'.gen].bound
        /\ stale'.execution.finalized
        /\ stale'.execution.settled => stale'.gen \notin tail'
    BY <2>2, <2>4, <2>6, <2>7
  <2>10. recorder'.phase \in {"run_failed", "task_failed"} /\ stale'.gen = recorder'.gen BY <2>2, <2>4
  <2>11. /\ stale'.intent.gen = intent'.gen /\ stale'.intent.crashes = intent'.crashes
         /\ stale'.changed =>
              /\ intent'.state \in {"accepted", "running", "blocked"}
              /\ stale'.intent.state \in {"stopped", "cooldown", "blocked"}
              /\ stale'.intent.state = "blocked" => recorder'.outcome \in {"action", "failed"}
    BY <2>2, <2>8
  <2> QED BY <2>9, <2>10, <2>11, Zenon DEF StaleSound
<1>3. CASE stale # NoStale /\ stale' # NoStale
  <2>1. /\ stale' = stale /\ recorder' \in {recorder, Stopped(recorder)} BY <1>3, StaleSteps
  <2>2. /\ recorder'.phase = recorder.phase /\ recorder'.gen = recorder.gen
        /\ recorder'.outcome = recorder.outcome
    BY <1>0, <2>1 DEF Stopped, Recorder
  <2>3. /\ recorder.phase \in {"run_failed", "task_failed"} /\ stale.gen = recorder.gen
        /\ recorder.gen \in Generations /\ Looping
    BY <1>0, <1>3, RecordersServe DEF StaleSound, IInv, RecorderSound, IsRunning
  <2>4. execution'[stale.gen].bound = execution[stale.gen].bound
    BY <2>3, BindingSteps DEF RecorderOpens
  <2>5. stale.gen \notin tail => stale.gen \notin tail'
    BY <2>3, NoFFmpeg, TailSteps DEF FFmpegWrites
  <2>6. /\ intent'.gen = intent.gen /\ intent'.crashes = intent.crashes
        /\ intent'.state = intent.state \/ intent'.state = "blocked" BY <1>3, StaleSteps
  <2> QED BY <1>0, <1>3, <2>1, <2>2, <2>3, <2>4, <2>5, <2>6 DEF StaleSound
<1> QED BY <1>1, <1>2, <1>3

\* What the steps make of an intent, other than a start, the charge of a restart
\* and the media that proves a process stable.
LEMMA IntentSteps ==
  ASSUME IInv, [Next]_vars, \A c \in Callers : ~StartCommit(c), ~PrepareRestarts
  PROVE  \/ UNCHANGED intent
         \/ intent'.state = "stopped" /\ intent'.crashes = intent.crashes
         \/ /\ RecorderOpens /\ intent.state = "accepted"
            /\ intent'.state = "running" /\ intent'.crashes = intent.crashes
         \/ /\ MonitorBlocks \/ RecorderOpenFails \/ (SettleCommits /\ service # "settling")
            /\ intent.state # "stopped"
            /\ intent'.state = "blocked" /\ intent'.crashes = intent.crashes
         \/ RegisterSegment /\ intent'.state = intent.state /\ intent'.crashes = 0 /\ lost' = 0
         \/ /\ FinishExecution \/ FailWrites
            /\ intent.state # "stopped"
            /\ intent'.state \in {"stopped", "cooldown", "blocked"} /\ intent'.crashes = intent.crashes
            /\ intent'.state = "blocked" => recorder.outcome \in {"action", "failed"}
PROOF
<1> DEFINE Ended == /\ intent.state # "stopped"
                    /\ intent'.state \in {"stopped", "cooldown", "blocked"} /\ intent'.crashes = intent.crashes
                    /\ intent'.state = "blocked" => recorder.outcome \in {"action", "failed"}
           Stop    == intent'.state = "stopped" /\ intent'.crashes = intent.crashes
           Block   == intent.state # "stopped" /\ intent'.state = "blocked" /\ intent'.crashes = intent.crashes
<1>0. intent \in Intent BY DEF IInv, TypeOK
<1>1. intent' = StopIntent => UNCHANGED intent \/ Stop BY <1>0, EndsOfIntents DEF StopIntent
<1>2. ASSUME Manager PROVE UNCHANGED intent \/ Stop
  <2>1. ASSUME NEW c \in Callers, StopEnter(c) \/ StopLeave(c) PROVE UNCHANGED intent \/ intent' = StopIntent
    BY <2>1 DEF StopEnter, StopLeave
  <2> QED BY <1>1, <1>2, <2>1, ManagerFrame DEF ArmAutoRecording
<1>3. ASSUME Watchers PROVE UNCHANGED intent \/ Stop \/ (MonitorBlocks /\ Block)
  BY <1>0, <1>3, WatchersFrame DEF MonitorBlocks, MonitorSeesOffline, RecoveryBecomes, Intent
<1>4. ASSUME Recorders
      PROVE  \/ UNCHANGED intent
             \/ /\ RecorderOpens /\ intent.state = "accepted"
                /\ intent'.state = "running" /\ intent'.crashes = intent.crashes
             \/ RecorderOpenFails /\ Block
             \/ RegisterSegment /\ intent'.state = intent.state /\ intent'.crashes = 0 /\ lost' = 0
             \/ (FinishExecution \/ FailWrites) /\ Ended
  <2>1. CASE RecorderOpens BY <1>0, <2>1 DEF RecorderOpens, Intent
  <2>2. CASE RecorderOpenFails BY <1>0, <2>2 DEF RecorderOpenFails, Live, Intent
  <2>3. CASE RegisterSegment
    <3>1. UNCHANGED intent \/ (intent' = [intent EXCEPT !.crashes = 0] /\ lost' = 0)
      BY <2>3 DEF RegisterSegment
    <3> QED BY <1>0, <2>3, <3>1 DEF Intent
  <2>4. CASE FinishExecution
    <3>1. UNCHANGED intent \/ intent' = Finished(intent) BY <2>4 DEF FinishExecution
    <3> QED BY <1>0, <2>4, <3>1, EndsOfIntents
  <2>5. CASE FailWrites BY <2>5 DEF FailWrites, IInv, StaleSound
  <2> QED BY <1>4, <2>1, <2>2, <2>3, <2>4, <2>5, RecordersFrame
<1>5. ASSUME Settlement PROVE UNCHANGED intent \/ (SettleCommits /\ service # "settling" /\ Block)
  BY <1>0, <1>5, SettlementFrame DEF SettleCommits, Live, Intent
<1>6. ASSUME Service PROVE UNCHANGED intent \/ Stop
  BY <1>1, <1>6, ServiceFrame DEF AutoRecover
<1> QED BY <1>2, <1>3, <1>4, <1>5, <1>6 DEF Next, vars, database

\* Losses are counted when a recording is lost, and forgotten when a start or
\* stable media forgets its crashes.
LEMMA LostSteps ==
  ASSUME IInv, [Next]_vars, \A c \in Callers : ~StartCommit(c)
  PROVE  \/ lost' = lost
         \/ RegisterSegment /\ lost' = 0
         \/ Crash /\ IsRunning /\ Live /\ lost' = lost + 1
PROOF
<1>1. CASE RegisterSegment BY <1>1 DEF RegisterSegment
<1>2. CASE Crash BY <1>2 DEF Crash
<1>3. CASE ArmAutoRecording BY <1>3 DEF ArmAutoRecording
<1>4. ASSUME NEW c \in Callers, StopEnter(c) \/ StopLeave(c) PROVE lost' = lost
  BY <1>4 DEF StopEnter, StopLeave
<1> QED BY <1>1, <1>2, <1>3, <1>4, ManagerFrame, WatchersFrame, RecordersFrame, SettlementFrame,
      ServiceFrame DEF Next, vars

LEMMA BudgetStays ==
  ASSUME IInv, [Next]_vars
  PROVE  BudgetSound'
PROOF
<1> DEFINE Cold    == {"down", "settling"}
           Charged == Live \/ intent.state = "cooldown" \/ IsRunning => intent.crashes <= MaxRecoveries
           Counted == lost <= intent.crashes + Uncharged
<1>0. /\ intent \in Intent /\ intent' \in Intent /\ lost \in Nat /\ lost' \in Nat
      /\ intent.crashes \in Nat /\ intent'.crashes \in Nat /\ MaxRecoveries \in Nat
      /\ Charged /\ Counted
  BY TypesStay, BoundsAssumption DEF IInv, TypeOK, BudgetSound, Intent
<1>1. ASSUME NEW c \in Callers, StartCommit(c) PROVE BudgetSound'
  <2>1. service' = service /\ service = "up" BY <1>1 DEF StartCommit, Serving
  <2>2. \/ intent'.crashes = 0 /\ lost' = 0
        \/ intent.state = "cooldown" /\ intent'.crashes = intent.crashes /\ lost' = lost
    BY <1>1 DEF StartCommit, Carried
  <2>3. Uncharged = 0 /\ Uncharged' = 0 BY <2>1 DEF Uncharged
  <2> QED BY <1>0, <2>2, <2>3 DEF BudgetSound
<1>2. CASE PrepareRestarts
  <2>1. service = "settling" /\ service' = "restarting" /\ lost' = lost BY <1>2 DEF PrepareRestarts
  <2>2. ~IsRunning' BY <1>2, <2>1 DEF PrepareRestarts, IInv, ServiceSound, IsRunning, NoRecorder, memory
  <2>3. Uncharged' = 0 BY <2>1 DEF Uncharged
  <2>4. CASE Live
    <3> DEFINE spent == intent.crashes + 1
               kept  == spent <= MaxRecoveries
    <3>1. intent' = [intent EXCEPT !.crashes = spent, !.resume = kept,
                                   !.state = IF kept THEN "cooldown" ELSE "blocked"]
      BY <1>2, <2>4 DEF PrepareRestarts
    <3> HIDE DEF spent, kept
    <3>2. intent'.crashes = spent /\ intent'.state = IF kept THEN "cooldown" ELSE "blocked"
      BY <1>0, <3>1 DEF Intent
    <3>3. intent'.crashes = intent.crashes + 1 BY <3>2 DEF spent
    <3>4. intent'.state # "blocked" => intent'.crashes <= MaxRecoveries BY <3>2 DEF kept
    <3>5. ~Live' /\ (intent'.state = "cooldown" => intent'.crashes <= MaxRecoveries)
      BY <3>2, <3>4 DEF Live
    <3>6. Uncharged = 1 BY <2>1, <2>4 DEF Uncharged
    <3> QED BY <1>0, <2>1, <2>2, <2>3, <3>3, <3>5, <3>6 DEF BudgetSound
  <2>5. CASE ~Live
    <3>1. intent' = intent /\ Uncharged = 0 BY <1>2, <2>5 DEF PrepareRestarts, Uncharged
    <3>2. Live' = Live BY <3>1 DEF Live
    <3> QED BY <1>0, <2>1, <2>2, <2>3, <3>1, <3>2 DEF BudgetSound
  <2> QED BY <2>4, <2>5
<1>3. ASSUME \A c \in Callers : ~StartCommit(c), ~PrepareRestarts PROVE BudgetSound'
  <2>1. IsRunning' => IsRunning BY <1>3, RecordersBegin
  <2>2. intent'.crashes = intent.crashes \/ (intent'.crashes = 0 /\ lost' = 0 /\ RegisterSegment)
    BY <1>3, IntentSteps
  <2>3. Live' \/ intent'.state = "cooldown" => Live \/ intent.state = "cooldown" \/ IsRunning
    <3>1. FinishExecution \/ FailWrites => IsRunning
      BY DEF FinishExecution, FailWrites, IsRunning, IInv, StaleSound
    <3> QED BY <1>3, <3>1, IntentSteps DEF Live
  <2>4. Charged'
    <3>1. CASE intent'.crashes = 0 BY <1>0, <3>1
    <3>2. CASE intent'.crashes = intent.crashes BY <1>0, <2>1, <2>3, <3>2
    <3> QED BY <2>2, <3>1, <3>2
  <2>5. Counted'
    <3>0. Uncharged \in {0, 1} /\ Uncharged' \in {0, 1} BY DEF Uncharged
    <3>1. CASE Crash /\ IsRunning /\ Live /\ lost' = lost + 1
      <4>1. intent' = intent /\ service' = "down" BY <3>1 DEF Crash, database
      <4>2. Uncharged' = 1 BY <3>1, <4>1 DEF Uncharged, Live
      <4>3. Uncharged = 0 BY <3>1, RecordersServe DEF Looping, Uncharged
      <4> QED BY <1>0, <3>1, <4>1, <4>2, <4>3
    <3>2. CASE lost' = 0 BY <1>0, <3>0, <3>2
    <3>3. CASE lost' = lost /\ ~RegisterSegment
      <4>1. intent'.crashes = intent.crashes BY <2>2, <3>3
      <4>2. Uncharged <= Uncharged'
        <5>1. CASE service \in Cold
          <6>1. ~Looping BY <5>1 DEF Looping
          <6>2. service' \in Cold
            <7>1. CASE Service
              <8>1. ~AutoRecover /\ ~Shutdown /\ ~StopAll /\ ~ShutdownEnds
                BY <5>1 DEF AutoRecover, Shutdown, StopAll, Serving, ShutdownEnds
              <8> QED BY <1>3, <5>1, <7>1, <8>1 DEF Service, Boot, BootFails, Crash
            <7>2. CASE Settlement BY <5>1, <7>2, SettlementFrame DEF SettleFails
            <7> QED BY <5>1, <7>1, <7>2, ManagerFrame, WatchersFrame, RecordersFrame DEF Next, vars
          <6>3. intent' = intent
            <7>1. CASE Recorders BY <6>1, <7>1, ColdSteps DEF FFmpegWrites, FFmpegExits, database
            <7>2. CASE Settlement
              <8>1. service = "down" => ~SettleCommits BY DEF SettleCommits, IInv, ServiceSound
              <8> QED BY <5>1, <7>2, <8>1, SettlementFrame DEF SettleCommits
            <7>3. CASE Service BY <1>3, <5>1, <7>3, ServiceFrame DEF AutoRecover
            <7> QED BY <6>1, <7>1, <7>2, <7>3, ColdSteps DEF Next, vars, database
          <6>4. Live' = Live BY <6>3 DEF Live
          <6> QED BY <5>1, <6>2, <6>4 DEF Uncharged
        <5>2. CASE service \notin Cold BY <3>0, <5>2 DEF Uncharged
        <5> QED BY <5>1, <5>2
      <4> QED BY <1>0, <3>0, <3>3, <4>1, <4>2
    <3>4. CASE lost' = lost /\ RegisterSegment
      <4>1. intent' = intent \/ lost' = 0 BY <3>4 DEF RegisterSegment
      <4>2. CASE intent' = intent
        <5>1. service' = service BY <3>4 DEF RegisterSegment
        <5>2. Uncharged' = Uncharged BY <4>2, <5>1 DEF Uncharged, Live
        <5> QED BY <1>0, <3>4, <4>2, <5>2
      <4> QED BY <3>2, <4>1, <4>2
    <3> QED BY <1>3, <3>1, <3>2, <3>3, <3>4, LostSteps
  <2> QED BY <2>4, <2>5 DEF BudgetSound
<1> QED BY <1>1, <1>2, <1>3

LEMMA BlockedStays ==
  ASSUME IInv, [Next]_vars
  PROVE  BlockedSound'
PROOF
<1> DEFINE Failing == IsRunning /\ recorder.outcome \in {"action", "failed"}
           Cold    == {"down", "settling", "restarting", "stopping"}
           Held    == room'.held = TRUE
<1>0. /\ intent \in Intent /\ recorder \in Recorder /\ room \in [auto : BOOLEAN, held : BOOLEAN, waitNext : BOOLEAN]
      /\ intent.state = "blocked" => room.held \/ service \in Cold \/ Failing
  BY DEF IInv, TypeOK, BlockedSound
<1> SUFFICES ASSUME intent'.state = "blocked"
             PROVE  Held \/ service' \in Cold \/ Failing'
  BY DEF BlockedSound
<1>1. \A c \in Callers : ~StartCommit(c) BY DEF StartCommit
<1>2. CASE PrepareRestarts BY <1>2 DEF PrepareRestarts
<1>3. CASE Crash BY <1>3 DEF Crash
\* A recorder that fails goes on failing until it leaves and holds the room.
<1>4. ASSUME Failing, ~Crash PROVE Failing' \/ Held
  <2>1. CASE RecorderLeaves BY <1>0, <1>4, <2>1 DEF RecorderLeaves, Holding
  <2>2. CASE ~RecorderLeaves
    <3>1. recorder.phase \notin Early BY <1>4 DEF IInv, RecorderSound
    <3>2. \/ recorder' \in {recorder, Stopped(recorder)}
          \/ \E phase \in Phases \ {"none"} : Advance(phase)
          \/ \E phase \in Phases \ {"none"} : Outcome(phase, "failed")
      <4>1. ASSUME Recorders
            PROVE  \/ recorder' = recorder
                   \/ \E phase \in Phases \ {"none"} : Advance(phase)
                   \/ \E phase \in Phases \ {"none"} : Outcome(phase, "failed")
        <5>1. /\ ~RecorderOpens /\ ~RecorderOpensLate /\ ~RecorderOpenFails /\ ~SpawnFFmpeg
              /\ ~RegisterSegment /\ ~DrainAttempt /\ ~Ends
          BY <3>1 DEF RecorderOpens, RecorderOpensLate, RecorderOpenFails, SpawnFFmpeg, RegisterSegment,
             DrainAttempt, Ends, LoopEnds, Early
        <5>2. CASE FinishExecution BY <5>2 DEF FinishExecution, AfterFinish, Phases
        <5>3. CASE QueueRecordingEnd \/ CloseWriter BY <5>3 DEF QueueRecordingEnd, CloseWriter, Phases
        <5>4. CASE FailWrites \/ FailFails BY <5>4 DEF FailWrites, FailFails, AfterFail, Phases
        <5>5. CASE FailReads BY <5>5 DEF FailReads
        <5>6. ASSUME NEW g \in Generations, FFmpegWrites(g) \/ FFmpegExits(g) PROVE recorder' = recorder
          BY <5>6 DEF FFmpegWrites, FFmpegExits, memory
        <5> QED BY <2>2, <4>1, <5>1, <5>2, <5>3, <5>4, <5>5, <5>6 DEF Recorders
      <4>2. ASSUME Manager PROVE recorder' \in {recorder, Stopped(recorder)}
        <5>1. ASSUME NEW c \in Callers, StopEnter(c) \/ StopLeave(c)
              PROVE  recorder' \in {recorder, Stopped(recorder)}
          BY <5>1 DEF StopEnter, StopLeave
        <5> QED BY <1>1, <4>2, <5>1, ManagerFrame DEF ArmAutoRecording
      <4>3. ASSUME Service PROVE recorder' \in {recorder, Stopped(recorder)}
        BY <1>4, <4>3, ServiceFrame DEF Shutdown
      <4> QED BY <4>1, <4>2, <4>3, WatchersFrame, SettlementFrame DEF Next, vars, memory
    <3>3. CASE recorder' \in {recorder, Stopped(recorder)}
      BY <1>0, <1>4, <3>3 DEF Stopped, Recorder, IsRunning
    <3>4. CASE \E phase \in Phases \ {"none"} : Advance(phase)
      BY <1>0, <1>4, <3>4 DEF Advance, Recorder, IsRunning
    <3>5. CASE \E phase \in Phases \ {"none"} : Outcome(phase, "failed")
      BY <1>0, <1>4, <3>5 DEF Outcome, Recorder, IsRunning
    <3> QED BY <3>2, <3>3, <3>4, <3>5
  <2> QED BY <2>1, <2>2
<1>5. CASE MonitorBlocks BY <1>0, <1>5 DEF MonitorBlocks
<1>6. CASE RecorderOpenFails
  <2>1. recorder'.phase = "leaving" /\ recorder'.outcome = "failed"
    BY <1>0, <1>6 DEF RecorderOpenFails, Outcome, Recorder
  <2> QED BY <2>1 DEF IsRunning
<1>7. CASE SettleCommits /\ intent' # intent
  BY <1>0, <1>7 DEF SettleCommits, Holding
<1>8. CASE (FinishExecution \/ FailWrites) /\ recorder.outcome \in {"action", "failed"}
  <2>1. Failing /\ ~Crash
    <3>1. recorder.phase # "none" BY <1>8 DEF FinishExecution, FailWrites, IInv, StaleSound
    <3>2. ~Crash
      <4>1. CASE FinishExecution BY <4>1 DEF FinishExecution, Crash
      <4>2. CASE FailWrites
        <5>1. crashes' = crashes BY <4>2 DEF FailWrites, bounds
        <5>2. crashes \in Nat BY DEF IInv, TypeOK
        <5> QED BY <5>1, <5>2 DEF Crash
      <4> QED BY <1>8, <4>1, <4>2
    <3> QED BY <1>8, <3>1, <3>2 DEF IsRunning
  <2> QED BY <1>4, <2>1
<1>9. CASE intent.state = "blocked" /\ ~Crash /\ ~PrepareRestarts
  <2>1. CASE Failing BY <1>4, <1>9, <2>1
  <2>2. CASE service \in Cold
    <3>1. CASE AutoRecover
      <4>1. (StopIntent).state = "stopped" BY <1>0, <1>9, EndsOfIntents DEF StopIntent
      <4>2. PICK refused \in BOOLEAN :
              LET open == intent.state \in {"cooldown", "blocked"}
                  drop == open /\ (refused \/ room.held \/ room.waitNext)
                  keep == open /\ ~drop
              IN  /\ intent' = IF drop THEN StopIntent ELSE intent
                  /\ room' = Holding(room, keep /\ intent.state = "blocked")
        BY <3>1 DEF AutoRecover
      <4>3. ~(refused \/ room.held \/ room.waitNext) BY <1>9, <4>1, <4>2
      <4>4. room' = [room EXCEPT !.held = TRUE] BY <1>9, <4>2, <4>3 DEF Holding
      <4> QED BY <1>0, <4>4
    <3>2. CASE ~AutoRecover
      <4>1. CASE Service
        BY <1>9, <2>2, <3>2, <4>1 DEF Service, Boot, BootFails, Shutdown, StopAll, ShutdownEnds
      <4>2. CASE Settlement BY <2>2, <4>2, SettlementFrame DEF SettleFails
      <4> QED BY <2>2, <4>1, <4>2, ManagerFrame, WatchersFrame, RecordersFrame DEF Next, vars
    <3> QED BY <3>1, <3>2
  <2>3. CASE room.held /\ service \notin Cold
    <3>1. ASSUME NEW c \in Callers, StopEnter(c) PROVE Held
      <4>0. call[c].op # "keep" BY <2>3 DEF IInv, KeepSound
      <4>1. UNCHANGED room \/ intent' = StopIntent BY <3>1, <4>0 DEF StopEnter
      <4>2. StopIntent.state = "stopped" BY <1>0, <1>9, EndsOfIntents DEF StopIntent
      <4> QED BY <1>0, <2>3, <4>1, <4>2
    <3>2. ASSUME NEW c \in Callers, StopLeave(c) PROVE Held BY <1>0, <2>3, <3>2 DEF StopLeave
    <3>3. ~ArmAutoRecording
      BY <1>0, <1>9, EndsOfIntents DEF ArmAutoRecording, StopIntent
    <3>4. CASE MonitorBlocks \/ MonitorSeesOffline
      BY <1>0, <2>3, <3>4 DEF MonitorBlocks, MonitorSeesOffline
    <3>5. CASE RecorderLeaves BY <1>0, <2>3, <3>5 DEF RecorderLeaves, Holding
    <3>6. CASE SettleCommits BY <1>0, <2>3, <3>6 DEF SettleCommits, Holding
    <3>7. ~AutoRecover BY <2>3 DEF AutoRecover
    <3>8. UNCHANGED room => Held BY <1>0, <2>3
    <3> QED BY <1>1, <3>1, <3>2, <3>3, <3>4, <3>5, <3>6, <3>7, <3>8, ManagerFrame, WatchersFrame,
          RecordersFrame, SettlementFrame, ServiceFrame DEF Next, vars, database
  <2> QED BY <1>0, <1>9, <2>1, <2>2, <2>3
<1>10. \/ PrepareRestarts \/ Crash \/ MonitorBlocks \/ RecorderOpenFails
       \/ SettleCommits /\ intent' # intent
       \/ (FinishExecution \/ FailWrites) /\ recorder.outcome \in {"action", "failed"}
       \/ intent.state = "blocked"
  <2>1. ASSUME RegisterSegment, intent' # intent, intent'.state = intent.state PROVE intent.state = "blocked"
    BY <2>1
  <2> QED BY <1>1, <2>1, IntentSteps
<1> QED BY <1>2, <1>3, <1>5, <1>6, <1>7, <1>8, <1>9, <1>10

LEMMA RecoveryStays ==
  ASSUME IInv, [Next]_vars
  PROVE  BudgetBoundsRecovery'
PROOF
<1>0. /\ lost \in Nat /\ lost' \in Nat /\ intent.crashes \in Nat /\ MaxRecoveries \in Nat
      /\ BudgetSound /\ BudgetBoundsRecovery
  BY TypesStay, BoundsAssumption DEF IInv, TypeOK, Intent
<1> SUFFICES ASSUME recovery' # None PROVE lost' <= MaxRecoveries
  BY DEF BudgetBoundsRecovery
<1>1. CASE RecorderLeaves
  <2>1. IsRunning /\ lost' = lost BY <1>1 DEF RecorderLeaves, IsRunning
  <2>2. Uncharged = 0 BY <2>1, RecordersServe DEF Looping, Uncharged
  <2> QED BY <1>0, <2>1, <2>2 DEF BudgetSound
<1>2. CASE AutoRecover
  <2>1. recovery = None BY <1>2 DEF AutoRecover, IInv, ServiceSound
  <2>2. intent.state = "cooldown" /\ lost' = lost
    BY <1>2, <2>1 DEF AutoRecover
  <2>3. Uncharged = 0 BY <1>2 DEF AutoRecover, Uncharged
  <2> QED BY <1>0, <2>2, <2>3 DEF BudgetSound
<1>3. CASE recovery' = recovery
  <2>1. lost <= MaxRecoveries BY <1>0, <1>3 DEF BudgetBoundsRecovery
  <2>2. \A c \in Callers : ~StartCommit(c) BY DEF StartCommit
  <2>3. ~Crash BY DEF Crash
  <2> QED BY <1>0, <2>1, <2>2, <2>3, LostSteps
<1> QED BY <1>1, <1>2, <1>3, RecoverySteps

LEMMA InitHolds == Init => IInv
PROOF
<1> SUFFICES ASSUME Init PROVE IInv OBVIOUS
<1> USE DEF Init, NoRecorder, NoCall, NoStale, None
<1>1. TypeOK
  <2>1. intent \in Intent BY DEF Intent, IntentStates
  <2>2. execution \in [Generations -> Execution] BY DEF Execution
  <2>3. room \in [auto : BOOLEAN, held : BOOLEAN, waitNext : BOOLEAN] OBVIOUS
  <2>4. recorder \in Recorder BY DEF Recorder, Phases, Outcomes
  <2>5. call \in [Callers -> Call] BY DEF Call
  <2> QED BY <2>1, <2>2, <2>3, <2>4, <2>5 DEF TypeOK
<1>2. ServiceSound /\ KeepSound /\ LockSound /\ RecorderSound /\ BoundSound
  BY DEF ServiceSound, KeepSound, LockSound, RecorderSound, BoundSound, IsRunning, Early
<1>3. HostSound /\ FFmpegSound /\ SettlingSound /\ DrainedSound /\ EndsSound /\ StaleSound
  BY DEF HostSound, FFmpegSound, SettlingSound, DrainedSound, EndsSound, StaleSound, Holds
<1>4. BudgetSound /\ BudgetBoundsRecovery
  BY BoundsAssumption DEF BudgetSound, BudgetBoundsRecovery, Uncharged, Live, IsRunning
<1>5. BlockedSound /\ SettledIsComplete /\ OneWriter BY DEF BlockedSound, SettledIsComplete, OneWriter
<1> QED BY <1>1, <1>2, <1>3, <1>4, <1>5 DEF IInv

LEMMA StepKeeps == IInv /\ [Next]_vars => IInv'
PROOF
<1> SUFFICES ASSUME IInv, [Next]_vars PROVE IInv' OBVIOUS
<1> QED BY TypesStay, ServiceStays, KeepStays, LockStays, RecorderStays, BoundStays, HostStays, FFmpegStays,
      SettlingStays, DrainedStays, EndsStay, StaleStays, BudgetStays, BlockedStays, SettledStays,
      OneWriterStays, RecoveryStays DEF IInv

-----------------------------------------------------------------------------
\* The theorems.

\* The invariant the others follow from.
THEOREM Invariance == Spec => []IInv
PROOF BY InitHolds, StepKeeps, PTL DEF Spec

\* Intents, executions, recorders, requests and what an unlocked finish has read
\* keep their types.
THEOREM TypeCorrect == Spec => []TypeOK
PROOF
<1>1. IInv => TypeOK BY DEF IInv
<1> QED BY <1>1, Invariance, PTL

\* A session is settled only when nobody writes to it and all its media is
\* registered, whichever of its host, the settlement loop or an unlocked finish
\* has settled it.
THEOREM SettledSessionsAreComplete == Spec => []SettledIsComplete
PROOF
<1>1. IInv => SettledIsComplete BY DEF IInv
<1> QED BY <1>1, Invariance, PTL

\* At most one FFmpeg writes for a room, and beside it no other recording has its
\* lock file open, whatever processes a lost service has left behind.
THEOREM RoomsHaveOneWriter == Spec => []OneWriter
PROOF
<1>1. IInv => OneWriter BY DEF IInv
<1> QED BY <1>1, Invariance, PTL

\* The budget of recoveries bounds how often a recording without stable media is
\* resumed.
THEOREM RecoveriesAreBounded == Spec => []BudgetBoundsRecovery
PROOF
<1>1. IInv => BudgetBoundsRecovery BY DEF IInv
<1> QED BY <1>1, Invariance, PTL

\* A stopped intent stays stopped until a new one replaces it.
THEOREM StopsAreFinal == Spec => StoppedStaysStopped
PROOF
<1>1. ASSUME IInv, [Next]_vars, intent.state = "stopped", intent'.gen = intent.gen
      PROVE  intent'.state = "stopped"
  <2>1. intent.gen \in Nat
    BY <1>1, BoundsAssumption DEF IInv, TypeOK, Intent, Generations, None
  <2>2. \A c \in Callers : ~StartCommit(c) BY <1>1, <2>1 DEF StartCommit
  <2>3. PrepareRestarts => intent' = intent BY <1>1 DEF PrepareRestarts, Live
  <2> QED BY <1>1, <2>2, <2>3, IntentSteps
<1>2. IInv /\ [Next]_vars =>
        [intent.state = "stopped" /\ intent'.gen = intent.gen => intent'.state = "stopped"]_vars
  BY <1>1
<1> QED BY <1>2, Invariance, PTL DEF Spec, StoppedStaysStopped

\* The monitor never starts a blocked room: its block holds the room back by the
\* time a start may look at it.
THEOREM BlocksAreRespected == Spec => BlockedWaitsForPeople
PROOF
<1>1. ASSUME IInv, StartCommit("monitor") PROVE intent.state # "blocked"
  <2>1. "monitor" \in Callers BY DEF Callers
  <2>2. ~IsRunning BY <1>1, <2>1, StartsAlone
  <2>3. ~room.held /\ service = "up" BY <1>1 DEF StartCommit, MayStartAlone, Serving
  <2> QED BY <1>1, <2>2, <2>3 DEF IInv, BlockedSound
<1>2. IInv /\ [Next]_vars => [StartCommit("monitor") => intent.state # "blocked"]_vars
  BY <1>1
<1> QED BY <1>2, Invariance, PTL DEF Spec, BlockedWaitsForPeople
=============================================================================
