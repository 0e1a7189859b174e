------------------------------ MODULE Recording ------------------------------
(***************************************************************************)
(* Recording of one live room: the intent a person, a schedule or the live *)
(* monitor leaves in the database (recording/intents.py), the manager that *)
(* starts and stops recorders under the lock of the room (web/services/    *)
(* rooms.py), the recorder and its FFmpeg (recording/recorder.py), the     *)
(* lock file both hold while they write (writer_ownership.py), settlement  *)
(* of what has ended (settlement.py, recovery.py), occurrences of a        *)
(* schedule, and the start, shutdown and loss of the service.  A           *)
(* generation binds at most one session, so an execution is named by its   *)
(* generation.                                                             *)
(***************************************************************************)
EXTENDS Naturals, FiniteSets

CONSTANTS
  People,           \* requests of people that may be open at the same time
  MaxGenerations,   \* bound: intents accepted
  MaxOccurrences,   \* bound: rows of recording_schedules
  MaxRecoveries,    \* MAX_CRASH_RECOVERIES
  MaxRequests,      \* bound: requests of people
  MaxFaults,        \* bound: writes that fail
  MaxCrashes,       \* bound: losses of the process
  MaxStops          \* bound: shutdowns

ASSUME BoundsAssumption ==
  /\ MaxGenerations \in Nat /\ MaxOccurrences \in Nat /\ MaxRecoveries \in Nat
  /\ MaxRequests \in Nat /\ MaxFaults \in Nat /\ MaxCrashes \in Nat
  /\ MaxStops \in Nat
  /\ People \cap {"monitor", "ender", "runner", "service"} = {}

Generations == 1 .. MaxGenerations
None        == 0
Callers     == People \cup {"monitor", "ender", "runner", "service"}
Occurrences == 1 .. MaxOccurrences

VARIABLES
  intent,      \* recording_intent:v1 of the room
  execution,   \* recording_execution:v1 of each generation
  room,        \* flags of LiveRoom the start of a recording looks at
  occurrence,  \* rows of recording_schedules
  holders,     \* who holds the lock file of each execution
  tail,        \* executions with media on disk that is not registered
  service,     \* where the process is between its start and its end
  recorder,    \* the task in RecorderManager._tasks
  recovery,    \* RecorderManager._recoveries: the generation to recover
  call,        \* start and stop requests of each caller
  settling,    \* the execution the settlement thread works on
  stale,       \* what an unlocked finish has read and will write
  lost,        \* history: executions lost in a row, since the last reset
  requests, faults, crashes, stops

database == <<intent, execution, room, occurrence>>
disk     == <<holders, tail>>
memory   == <<recorder, recovery, call, settling, stale>>
bounds   == <<requests, faults, crashes, stops>>
vars     == <<database, disk, service, memory, lost, bounds>>

IntentStates == {"none", "accepted", "running", "cooldown", "stopped", "blocked"}
Outcomes     == {"none", "stopped", "exhausted", "action", "failed", "cancelled"}
Phases       == {"none", "opening", "recording", "supervising", "ending",
                 "settling", "closing", "run_failed", "task_failed", "leaving"}

Intent   == [state : IntentStates, gen : Generations \cup {None},
             crashes : Nat, resume : BOOLEAN]
Recorder == [phase : Phases, gen : Generations \cup {None}, stop : BOOLEAN,
             outcome : Outcomes, tailPending : BOOLEAN]
Call     == [op : {"none", "start", "stop", "end", "keep", "check", "complete"},
             inside : BOOLEAN, of : Nat]

NoRecorder == [phase |-> "none", gen |-> None, stop |-> FALSE,
               outcome |-> "none", tailPending |-> FALSE]
NoCall     == [op |-> "none", inside |-> FALSE, of |-> None]
NoStale    == [gen |-> None]

Init ==
  /\ intent = [state |-> "none", gen |-> None, crashes |-> 0, resume |-> FALSE]
  /\ execution = [g \in Generations |->
                    [bound |-> FALSE, finalized |-> FALSE, settled |-> FALSE]]
  /\ room \in [auto : BOOLEAN, held : {FALSE}, waitNext : {FALSE}]
  /\ occurrence = [o \in Occurrences |-> IF o = 1 THEN "due" ELSE "absent"]
  /\ holders = [g \in Generations |-> {}]
  /\ tail = {}
  /\ service = "down"
  /\ recorder = NoRecorder
  /\ recovery = None
  /\ call = [c \in Callers |-> NoCall]
  /\ settling = None
  /\ stale = NoStale
  /\ lost = 0
  /\ requests = 0 /\ faults = 0 /\ crashes = 0 /\ stops = 0

-----------------------------------------------------------------------------
(* State functions                                                           *)

Live       == intent.state \in {"accepted", "running"}
IsRunning  == recorder.phase # "none"
RoomLocked == \E c \in Callers : call[c].inside
StoppingWithService == service = "stopping"
Stopping == recorder.stop \/ service = "stopping"

Serving    == service = "up"
Looping    == service \in {"up", "stopping"}   \* loops run until cancelled

\* recovery_requested: a recovery resumes what was interrupted.  The object
\* carries the resume_requested of its intent, which does not change while
\* the object is current.
RecoveryRequested == recovery # None /\ intent.gen = recovery /\ intent.resume

\* What the room allows without a person.
MayStartAlone == (room.auto \/ RecoveryRequested) /\ ~room.held /\ ~room.waitNext

WithdrawnMisspelt(i) == [i EXCEPT !.state = "cancelled", !.resume = FALSE]
Withdrawn(i) == [i EXCEPT !.state = "stopped", !.resume = FALSE]

StopIntent       == IF intent.state = "none" THEN intent ELSE Withdrawn(intent)
Stopped(r)       == IF r.phase = "none" THEN r ELSE [r EXCEPT !.stop = TRUE]
SameIntent(i, g) == i.gen = g /\ execution[g].bound

\* The room is held back until someone acts.
HoldingNever(r, blocked) == r
Holding(r, blocked) == IF blocked THEN [r EXCEPT !.held = TRUE] ELSE r

\* Nobody holds the lock file of an execution, FFmpeg included.
HostIsGone(g) == "host" \notin holders[g]
NobodyWrites(g) == holders[g] = {}

\* The executions that recover and the settlement loop still look for.
PendingFinalized(g) == execution[g].finalized /\ ~execution[g].settled
Pending(g) == execution[g].bound /\ ~execution[g].settled

Released(c) == call' = [call EXCEPT ![c] = NoCall]

Fault == faults < MaxFaults /\ faults' = faults + 1

\* The execution still is the one its intent is about.
FinishAppliesToStopped(i) == SameIntent(i, recorder.gen)
FinishApplies(i) == SameIntent(i, recorder.gen) /\ i.state \in {"accepted", "running"}

\* intents.finish: what becomes of intent i when the execution of the
\* recorder has ended.
Finished(i) ==
  LET shutdown == service = "stopping"
      blocked  == recorder.outcome \in {"action", "failed"}
      again    == recorder.outcome = "exhausted" /\ ~Stopping
  IN  IF ~FinishApplies(i) THEN i
      ELSE [i EXCEPT
              !.state = IF blocked THEN "blocked"
                        ELSE IF shutdown \/ again THEN "cooldown"
                        ELSE "stopped",
              !.resume = shutdown /\ ~blocked]

-----------------------------------------------------------------------------
(* Requests of people                                                        *)

Ask == requests < MaxRequests /\ requests' = requests + 1

\* RecorderManager.start and stop; a request may have to wait for the lock.
Request(c) ==
  /\ Serving
  /\ c \in People
  /\ call[c] = NoCall
  /\ Ask
  /\ \E op \in {"start", "stop"} : call' = [call EXCEPT ![c].op = op]
  /\ UNCHANGED <<database, disk, service, recorder, recovery, settling, stale,
                 lost, faults, crashes, stops>>

\* arm_auto_recording
ArmAutoRecording ==
  /\ Serving
  /\ ~RoomLocked
  /\ ~IsRunning
  /\ Ask
  /\ room' = [auto |-> TRUE, held |-> FALSE, waitNext |-> FALSE]
  /\ intent' = StopIntent
  /\ recovery' = None
  /\ UNCHANGED <<execution, occurrence, disk, service, recorder, call, settling,
                 stale, lost, faults, crashes, stops>>

-----------------------------------------------------------------------------
(* RecorderManager.start                                                     *)

\* start and the first part of _start_locked, to the await of the metadata.
\* While the service shuts down it raises before it looks for a recording.
StartEnter(c) ==
  /\ call[c].op = "start" /\ ~call[c].inside
  /\ ~RoomLocked
  /\ IF \/ IsRunning /\ Serving
        \/ c = "monitor" /\ (recovery # call[c].of \/ ~MayStartAlone)
     THEN Released(c)
     ELSE call' = [call EXCEPT ![c].inside = TRUE]
  /\ UNCHANGED <<database, disk, service, recorder, recovery, settling, stale,
                 lost, bounds>>

\* A start that ends without a recording: the metadata cannot be fetched, the
\* room is gone or not authorized, its source changed or is not available, or
\* the service began to shut down.  The runner completes its occurrence when
\* start raises; the monitor and people try again.
AfterRefusalForgotten(c) == NoCall
AfterRefusal(c) ==
  IF c = "runner" THEN [call[c] EXCEPT !.op = "complete", !.inside = FALSE] ELSE NoCall

StartRefused(c) ==
  /\ call[c].op = "start" /\ call[c].inside
  /\ call' = [call EXCEPT ![c] = AfterRefusal(c)]
  /\ UNCHANGED <<database, disk, service, recorder, recovery, settling, stale,
                 lost, bounds>>

\* complete_schedule_occurrence: the update that claims the row decides, and
\* a recurrent schedule gets its next occurrence.
Completed(rows, o) ==
  IF rows[o] # "due" THEN rows
  ELSE [p \in Occurrences |->
          CASE p = o     -> "triggered"
            [] p = o + 1 -> "due"
            [] OTHER     -> rows[p]]

\* Only a recovery keeps the crashes of the intent before it (accept).
CarriedNever(recovers) == 0
Carried(recovers) == IF recovers THEN intent.crashes ELSE 0

\* The last transaction of _start_locked, and the task it creates.
StartCommit(c) ==
  LET recovers == c = "monitor" /\ call[c].of # None
      o        == call[c].of
      gen      == intent.gen + 1
  IN
  /\ call[c].op = "start" /\ call[c].inside
  /\ Serving
  /\ gen \in Generations
  /\ c = "monitor" => recovery = call[c].of /\ MayStartAlone
  /\ recovers => intent.gen = call[c].of /\ intent.state = "cooldown"
  /\ c = "runner" => occurrence[o] = "due"
  /\ intent' = [state |-> "accepted", gen |-> gen, resume |-> FALSE,
                crashes |-> Carried(recovers)]
  /\ room' = [room EXCEPT !.held = FALSE, !.waitNext = FALSE]
  /\ occurrence' = IF c = "runner" THEN Completed(occurrence, o) ELSE occurrence
  /\ recovery' = None
  /\ recorder' = [NoRecorder EXCEPT !.phase = "opening", !.gen = gen]
  /\ lost' = IF recovers THEN lost ELSE 0
  /\ call' = [call EXCEPT ![c] = IF c = "runner"
                                 THEN [NoCall EXCEPT !.op = "complete", !.of = o]
                                 ELSE NoCall]
  /\ UNCHANGED <<execution, disk, service, settling, stale, bounds>>

-----------------------------------------------------------------------------
(* RecorderManager.stop                                                      *)

\* _stop_locked to the wait for the task: the intent is withdrawn before the
\* recorder hears of it.  stop_if_current gives up when the task it was asked
\* to stop is not the current one.  The stop of the service keeps the intent,
\* and clears the flags like the others.
StopEnter(c) ==
  /\ call[c].op \in {"stop", "end", "keep"} /\ ~call[c].inside
  /\ ~RoomLocked
  /\ stale = NoStale               \* fail does not let the event loop go on
  /\ IF call[c].op = "end" /\ recorder.gen # call[c].of
     THEN Released(c) /\ UNCHANGED <<intent, room, recovery, recorder>>
     ELSE /\ \E hold \in {FALSE} \cup {call[c].op = "stop"} :
               room' = [room EXCEPT !.held = hold, !.waitNext = FALSE]
          /\ intent' = IF call[c].op = "keep" THEN intent ELSE StopIntent
          /\ recovery' = None
          /\ recorder' = Stopped(recorder)
          /\ call' = [call EXCEPT ![c].inside = TRUE]
  /\ UNCHANGED <<execution, occurrence, disk, service, settling, stale, lost, bounds>>

\* The rest of _stop_locked, once the task has ended.  A recording that was
\* too long waits for the next broadcast.
StopLeave(c) ==
  /\ call[c].op \in {"stop", "end", "keep"} /\ call[c].inside
  /\ ~IsRunning
  /\ \E wait \in {FALSE} \cup {call[c].op = "end"} :
       room' = [room EXCEPT !.waitNext = @ \/ wait]
  /\ Released(c)
  /\ UNCHANGED <<intent, execution, occurrence, disk, service, recorder, recovery,
                 settling, stale, lost, bounds>>

-----------------------------------------------------------------------------
(* LiveMonitor and ScheduleRunner                                            *)

\* _check_room to its await, which remembers the recovery it saw.
MonitorCheck ==
  /\ Looping
  /\ call["monitor"] = NoCall
  /\ ~room.held
  /\ call' = [call EXCEPT !["monitor"] = [NoCall EXCEPT !.op = "check", !.of = recovery]]
  /\ UNCHANGED <<database, disk, service, recorder, recovery, settling, stale,
                 lost, bounds>>

\* What the source answered counts if the recovery is still the one seen.
MonitorResumes == /\ call["monitor"].op = "check"
                  /\ call["monitor"].of \in {None, recovery}

\* _apply_snapshot reads the room again.
RoomWatched == ~room.held /\ (room.auto \/ RecoveryRequested)

\* _persist_recovery: only the intent the recovery came from, while it waits.
RecoveryBecomes(state) ==
  IF recovery # None /\ intent.gen = recovery /\ intent.state = "cooldown"
  THEN [intent EXCEPT !.state = state] ELSE intent

\* No answer, an unknown one, or one that has come too late.
MonitorIgnores ==
  /\ call["monitor"].op = "check"
  /\ Released("monitor")
  /\ UNCHANGED <<database, disk, service, recorder, recovery, settling, stale,
                 lost, bounds>>

\* block_recovery: the source will not answer until someone acts.
MonitorBlocks ==
  /\ MonitorResumes
  /\ call["monitor"].of # None
  /\ intent' = RecoveryBecomes("blocked")
  /\ room' = [room EXCEPT !.held = TRUE]
  /\ recovery' = None
  /\ Released("monitor")
  /\ UNCHANGED <<execution, occurrence, disk, service, recorder, settling, stale,
                 lost, bounds>>

\* clear_recovery and release_retry_hold: the broadcast is over.
MonitorSeesOffline ==
  /\ MonitorResumes
  /\ RoomWatched
  /\ intent' = RecoveryBecomes("stopped")
  /\ room' = [room EXCEPT !.waitNext = FALSE]
  /\ recovery' = None
  /\ Released("monitor")
  /\ UNCHANGED <<execution, occurrence, disk, service, recorder, settling, stale,
                 lost, bounds>>

MonitorSeesLive ==
  /\ MonitorResumes
  /\ RoomWatched
  /\ ~room.waitNext /\ ~IsRunning
  /\ call' = [call EXCEPT !["monitor"] = [NoCall EXCEPT !.op = "start", !.of = recovery]]
  /\ UNCHANGED <<database, disk, service, recorder, recovery, settling, stale,
                 lost, bounds>>

\* _delayed_stop and _enforce_duration: stop the task they were made for.
EndRequested ==
  /\ Looping
  /\ call["ender"] = NoCall
  /\ IsRunning
  /\ call' = [call EXCEPT !["ender"] =
                [op |-> "end", inside |-> FALSE, of |-> recorder.gen]]
  /\ UNCHANGED <<database, disk, service, recorder, recovery, settling, stale,
                 lost, bounds>>

\* run_due: a room that records already completes the occurrence.
RunDue(o) ==
  /\ Looping
  /\ call["runner"] = NoCall
  /\ occurrence[o] = "due"
  /\ call' = [call EXCEPT !["runner"] =
                [op |-> IF IsRunning THEN "complete" ELSE "start",
                 inside |-> FALSE, of |-> o]]
  /\ UNCHANGED <<database, disk, service, recorder, recovery, settling, stale,
                 lost, bounds>>

CompleteOccurrence ==
  /\ call["runner"].op = "complete"
  /\ occurrence' = Completed(occurrence, call["runner"].of)
  /\ Released("runner")
  /\ UNCHANGED <<intent, execution, room, disk, service, recorder, recovery,
                 settling, stale, lost, bounds>>

-----------------------------------------------------------------------------
(* Recorder                                                                  *)

Advance(phase) == recorder' = [recorder EXCEPT !.phase = phase]
Outcome(phase, outcome) ==
  recorder' = [recorder EXCEPT !.phase = phase, !.outcome = outcome]

\* run to _create_session, whose first statement takes the write lock: the
\* lock file is created and the session bound to its intent.
RecorderOpens ==
  LET g == recorder.gen IN
  /\ recorder.phase = "opening"
  /\ ~Stopping
  /\ intent.gen = g /\ intent.state = "accepted"
  /\ intent' = [intent EXCEPT !.state = "running"]
  /\ execution' = [execution EXCEPT ![g].bound = TRUE]
  /\ holders' = [holders EXCEPT ![g] = {"host"}]
  /\ Advance("recording")
  /\ UNCHANGED <<room, occurrence, tail, service, recovery, call, settling, stale,
                 lost, bounds>>

\* _run_with_settings returns before there is a session.
RecorderOpensLate ==
  /\ recorder.phase = "opening"
  /\ Stopping
  /\ Outcome("leaving", "stopped")
  /\ UNCHANGED <<database, disk, service, recovery, call, settling, stale, lost, bounds>>

\* The source, the lock file or the session fails, and fail settles the
\* intent that has no session.
RecorderOpenFails ==
  /\ recorder.phase = "opening"
  /\ Fault
  /\ intent' = IF intent.gen = recorder.gen /\ Live
               THEN [intent EXCEPT !.state = "blocked", !.resume = FALSE]
               ELSE intent
  /\ Outcome("leaving", "failed")
  /\ UNCHANGED <<execution, room, occurrence, disk, service, recovery, call,
                 settling, stale, lost, requests, crashes, stops>>

\* adopt_attempt and the start of FFmpeg, which inherits the lock.
SpawnFFmpeg ==
  LET g == recorder.gen IN
  /\ recorder.phase = "recording"
  /\ ~Stopping
  /\ ~execution[g].finalized
  /\ holders' = [holders EXCEPT ![g] = @ \cup {"ffmpeg"}]
  /\ Advance("supervising")
  /\ UNCHANGED <<database, tail, service, recovery, call, settling, stale, lost, bounds>>

FFmpegWrites(g) ==
  /\ "ffmpeg" \in holders[g]
  /\ tail' = tail \cup {g}
  /\ UNCHANGED <<database, holders, service, memory, lost, bounds>>

FFmpegExits(g) ==
  /\ "ffmpeg" \in holders[g]
  /\ holders' = [holders EXCEPT ![g] = @ \ {"ffmpeg"}]
  /\ UNCHANGED <<database, tail, service, memory, lost, bounds>>

\* _register_segment, and stable once enough media came from one process.
RegisterSegment ==
  LET g == recorder.gen IN
  /\ recorder.phase = "supervising"
  /\ g \in tail
  /\ tail' = tail \ {g}
  /\ \E enough \in BOOLEAN :
       LET stable == /\ enough /\ "ffmpeg" \in holders[g] /\ ~Stopping
                     /\ intent.gen = g /\ intent.state = "running"
       IN  /\ intent' = IF stable THEN [intent EXCEPT !.crashes = 0] ELSE intent
           /\ lost' = IF stable THEN 0 ELSE lost
  /\ UNCHANGED <<execution, room, occurrence, holders, service, memory, bounds>>

\* The end of _supervise_process: the process has exited and what it left is
\* registered, or the registration fails and the tail stays pending.
DrainAttempt ==
  LET g == recorder.gen IN
  /\ recorder.phase = "supervising"
  /\ "ffmpeg" \notin holders[g]
  /\ \/ /\ tail' = tail \ {g}
        /\ Advance("recording")
        /\ UNCHANGED faults
     \/ /\ Fault
        /\ recorder' = [recorder EXCEPT !.phase = "ending", !.outcome = "failed",
                                        !.tailPending = TRUE]
        /\ UNCHANGED tail
  /\ UNCHANGED <<database, holders, service, recovery, call, settling, stale, lost,
                 requests, crashes, stops>>

\* The loop of _run_session ends; a stop that has waited too long cancels it.
LoopEnds(outcome) ==
  /\ recorder.phase = "recording"
  /\ CASE outcome = "stopped"   -> Stopping
       [] outcome = "cancelled" -> Stopping
       [] OTHER                 -> TRUE
  /\ Outcome("ending", outcome)
  /\ UNCHANGED <<database, disk, service, recovery, call, settling, stale, lost, bounds>>

\* A recording with a pending tail is left to the settlement loop.
AfterFinishAlways == "settling"
AfterFinish == IF recorder.tailPending THEN "closing" ELSE "settling"

\* _finalize_session to the end of the session: finish under the lock file.
\* A write that fails leaves the end to fail, after the lock file is closed.
FinishExecution ==
  LET g == recorder.gen IN
  /\ recorder.phase = "ending"
  /\ \/ /\ execution' = [execution EXCEPT ![g].finalized = TRUE]
        /\ intent' = Finished(intent)
        /\ Advance(AfterFinish)
        /\ UNCHANGED faults
     \/ /\ Fault
        /\ Outcome("closing", "failed")
        /\ UNCHANGED <<execution, intent>>
  /\ UNCHANGED <<room, occurrence, disk, service, recovery, call, settling, stale,
                 lost, requests, crashes, stops>>

\* The rest of _finalize_session: queue_recording_end, which may find that
\* messages of the room are still to be stored.
QueueRecordingEnd ==
  LET g == recorder.gen IN
  /\ recorder.phase = "settling"
  /\ \E drained \in BOOLEAN :
       execution' = [execution EXCEPT ![g].settled = @ \/ drained]
  /\ Advance("closing")
  /\ UNCHANGED <<intent, room, occurrence, disk, service, recovery, call, settling,
                 stale, lost, bounds>>

\* The lock file is closed; an exception reaches run and then _run_recorder,
\* a cancellation only the latter, and each calls fail.
CloseWriter ==
  LET g == recorder.gen IN
  /\ recorder.phase = "closing"
  /\ holders' = [holders EXCEPT ![g] = @ \ {"host"}]
  /\ Advance(CASE recorder.outcome = "failed"    -> "run_failed"
               [] recorder.outcome = "cancelled" -> "task_failed"
               [] OTHER                          -> "leaving")
  /\ UNCHANGED <<database, tail, service, recovery, call, settling, stale, lost, bounds>>

\* fail: a finish that holds no lock file and does not lock before it reads.
FailReads ==
  LET g == recorder.gen IN
  /\ recorder.phase \in {"run_failed", "task_failed"}
  /\ stale = NoStale
  /\ stale' = [gen |-> g, execution |-> [execution[g] EXCEPT !.finalized = TRUE],
               intent |-> Finished(intent), changed |-> Finished(intent) # intent]
  /\ UNCHANGED <<database, disk, service, recorder, recovery, call, settling, lost, bounds>>

AfterFail == IF recorder.phase = "run_failed" THEN "task_failed" ELSE "leaving"

FailWrites ==
  /\ stale # NoStale
  /\ execution' = [execution EXCEPT ![stale.gen] = stale.execution]
  /\ intent' = IF stale.changed THEN stale.intent ELSE intent
  /\ stale' = NoStale
  /\ Advance(AfterFail)
  /\ UNCHANGED <<room, occurrence, disk, service, recovery, call, settling, lost, bounds>>

FailFails ==
  /\ stale # NoStale
  /\ Fault
  /\ stale' = NoStale
  /\ Advance(AfterFail)
  /\ UNCHANGED <<database, disk, service, recovery, call, settling, lost,
                 requests, crashes, stops>>

\* _finish_recorder: hold the room back after an error, or recover later.
RecorderLeaves ==
  LET again == recorder.outcome = "exhausted" /\ ~Stopping IN
  /\ recorder.phase = "leaving"
  /\ room' = Holding(room, recorder.outcome \in {"action", "failed"})
  /\ recovery' = IF again THEN recorder.gen ELSE recovery
  /\ recorder' = NoRecorder
  /\ UNCHANGED <<intent, execution, occurrence, disk, service, call, settling,
                 stale, lost, bounds>>

-----------------------------------------------------------------------------
(* Settlement                                                                *)

\* SessionWriter.recover: everyone who wrote has exited.  The service does it
\* for all executions before it serves, and the settlement thread from then on.
SettleClaims(g) ==
  /\ service \in {"settling", "up"}
  /\ settling = None
  /\ Pending(g)
  /\ NobodyWrites(g)
  /\ settling' = g
  /\ holders' = [holders EXCEPT ![g] = @ \cup {"settler"}]
  /\ UNCHANGED <<database, tail, service, recorder, recovery, call, stale, lost, bounds>>

SettleRegisters ==
  /\ settling \in tail
  /\ tail' = tail \ {settling}
  /\ UNCHANGED <<database, holders, service, memory, lost, bounds>>

\* The last transaction of recover_owned_recording.  While the service runs,
\* an execution whose end was never stored blocks its intent.
SettleCommits ==
  LET g == settling
      unfinished == /\ SameIntent(intent, g) /\ Live /\ ~execution[g].settled
                    /\ service # "settling"
  IN
  /\ g # None
  /\ g \notin tail
  /\ execution' = [execution EXCEPT ![g].finalized = TRUE, ![g].settled = TRUE]
  /\ intent' = IF unfinished THEN [intent EXCEPT !.state = "blocked", !.resume = FALSE]
               ELSE intent
  /\ room' = Holding(room, unfinished)
  /\ holders' = [holders EXCEPT ![g] = @ \ {"settler"}]
  /\ settling' = None
  /\ UNCHANGED <<occurrence, tail, service, recorder, recovery, call, stale, lost, bounds>>

\* An error leaves the execution to the next page, or ends the start.
SettleFails ==
  LET g == settling IN
  /\ g # None
  /\ Fault
  /\ holders' = [holders EXCEPT ![g] = @ \ {"settler"}]
  /\ settling' = None
  /\ service' = IF service = "settling" THEN "down" ELSE service
  /\ UNCHANGED <<database, tail, recorder, recovery, call, stale, lost,
                 requests, crashes, stops>>

-----------------------------------------------------------------------------
(* The service                                                               *)

Boot ==
  /\ service = "down"
  /\ service' = "settling"
  /\ UNCHANGED <<database, disk, memory, lost, bounds>>

\* recover_pending_recordings fails when someone still writes.
BootFails ==
  /\ service = "settling"
  /\ settling = None
  /\ \E g \in Generations : Pending(g) /\ ~NobodyWrites(g)
  /\ service' = "down"
  /\ UNCHANGED <<database, disk, memory, lost, bounds>>

\* prepare_restarts: an intent without an end costs one unit of its budget.
PrepareRestarts ==
  LET spent == intent.crashes + 1
      kept  == spent <= MaxRecoveries
  IN
  /\ service = "settling"
  /\ settling = None
  /\ \A g \in Generations : ~Pending(g)
  /\ intent' = IF Live THEN [intent EXCEPT !.crashes = spent, !.resume = kept,
                                           !.state = IF kept THEN "cooldown" ELSE "blocked"]
               ELSE intent
  /\ service' = "restarting"
  /\ UNCHANGED <<execution, room, occurrence, disk, memory, lost, bounds>>

\* auto_recover_interrupted_sessions: the room may have changed too much.
AutoRecover ==
  /\ service = "restarting"
  /\ \E refused \in BOOLEAN :
       LET open == intent.state \in {"cooldown", "blocked"}
           drop == open /\ (refused \/ room.held \/ room.waitNext)
           keep == open /\ ~drop
       IN  /\ intent' = IF drop THEN StopIntent ELSE intent
           /\ room' = Holding(room, keep /\ intent.state = "blocked")
           /\ recovery' = IF keep /\ intent.state = "cooldown" THEN intent.gen ELSE recovery
  /\ service' = "up"
  /\ UNCHANGED <<execution, occurrence, disk, recorder, call, settling, stale, lost, bounds>>

\* request_stop: shutdown_event and request_stop_all.
Shutdown ==
  /\ Serving
  /\ stops < MaxStops
  /\ stops' = stops + 1
  /\ service' = "stopping"
  /\ recovery' = None
  /\ recorder' = Stopped(recorder)
  /\ UNCHANGED <<database, disk, call, settling, stale, lost, requests, faults, crashes>>

\* stop_all, when its turn has come: a stop for each task there still is.
StopAll ==
  /\ service = "stopping"
  /\ IsRunning
  /\ call["service"] = NoCall
  /\ call' = [call EXCEPT !["service"].op = "keep"]
  /\ UNCHANGED <<database, disk, service, recorder, recovery, settling, stale,
                 lost, bounds>>

\* Everything that was asked to stop has; what waits is cancelled.
ShutdownEnds ==
  /\ service = "stopping"
  /\ ~IsRunning /\ ~RoomLocked
  /\ call["service"] = NoCall
  /\ settling = None
  /\ service' = "down"
  /\ call' = [c \in Callers |-> NoCall]
  /\ UNCHANGED <<database, disk, recorder, recovery, settling, stale, lost, bounds>>

\* The process is lost.  Its locks go with it, FFmpeg may outlive it.
Crash ==
  /\ service # "down"
  /\ crashes < MaxCrashes
  /\ crashes' = crashes + 1
  /\ service' = "down"
  /\ holders' = [g \in Generations |-> holders[g] \cap {"ffmpeg"}]
  /\ recorder' = NoRecorder
  /\ recovery' = None
  /\ call' = [c \in Callers |-> NoCall]
  /\ settling' = None
  /\ stale' = NoStale
  /\ lost' = IF IsRunning /\ Live THEN lost + 1 ELSE lost
  /\ UNCHANGED <<database, tail, requests, faults, stops>>

-----------------------------------------------------------------------------

Manager ==
  \/ ArmAutoRecording
  \/ \E c \in Callers : \/ Request(c) \/ StartEnter(c) \/ StartRefused(c)
                        \/ StartCommit(c) \/ StopEnter(c) \/ StopLeave(c)

Watchers ==
  \/ MonitorCheck \/ MonitorIgnores \/ MonitorBlocks \/ MonitorSeesOffline
  \/ MonitorSeesLive \/ EndRequested \/ CompleteOccurrence
  \/ \E o \in Occurrences : RunDue(o)

Ends == \E outcome \in Outcomes \ {"none"} : LoopEnds(outcome)

Recorders ==
  \/ RecorderOpens \/ RecorderOpensLate \/ RecorderOpenFails \/ SpawnFFmpeg
  \/ RegisterSegment \/ DrainAttempt \/ Ends \/ FinishExecution
  \/ QueueRecordingEnd \/ CloseWriter \/ FailReads \/ FailWrites \/ FailFails
  \/ RecorderLeaves
  \/ \E g \in Generations : FFmpegWrites(g) \/ FFmpegExits(g)

Settlement ==
  \/ SettleRegisters \/ SettleCommits \/ SettleFails
  \/ \E g \in Generations : SettleClaims(g)

Service ==
  \/ Boot \/ BootFails \/ PrepareRestarts \/ AutoRecover
  \/ Shutdown \/ StopAll \/ ShutdownEnds \/ Crash

Next == Manager \/ Watchers \/ Recorders \/ Settlement \/ Service

Spec == Init /\ [][Next]_vars

(***************************************************************************)
(* Fairness.  The event loop lets what can go on go on, asyncio.Lock wakes *)
(* those that wait in turn, the settlement thread looks at every row again *)
(* and again, a recorder that was told to stop ends FFmpeg and its loop,   *)
(* the guardian of a lost process ends its children, a shutdown cancels    *)
(* the loops that would take the lock again, and someone starts the        *)
(* service again.                                                          *)
(***************************************************************************)
CallGoesOn == \E c \in Callers : StartCommit(c) \/ StartRefused(c) \/ StopLeave(c)

RecorderGoesOn ==
  \/ RecorderOpens \/ RecorderOpensLate \/ (Stopping /\ (DrainAttempt \/ Ends))
  \/ FinishExecution \/ QueueRecordingEnd \/ CloseWriter
  \/ FailReads \/ FailWrites \/ FailFails \/ RecorderLeaves

FFmpegIsEnded == (Stopping \/ ~IsRunning) /\ \E g \in Generations : FFmpegExits(g)

ServiceGoesOn == Boot \/ PrepareRestarts \/ AutoRecover

Fairness ==
  /\ SF_vars(StartEnter("runner")) /\ SF_vars(StopEnter("service"))
  /\ \A o \in Occurrences : WF_vars(RunDue(o))
  /\ WF_vars(CompleteOccurrence)
  /\ WF_vars(CallGoesOn)
  /\ WF_vars(RecorderGoesOn)
  /\ WF_vars(FFmpegIsEnded)
  /\ \A g \in Generations : SF_vars(SettleClaims(g))
  /\ WF_vars(SettleRegisters \/ SettleCommits)
  /\ WF_vars(ServiceGoesOn) /\ SF_vars(ShutdownEnds)

LiveSpec == Spec /\ Fairness
=============================================================================
