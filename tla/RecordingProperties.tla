------------------------- MODULE RecordingProperties -------------------------
(***************************************************************************)
(* What recording promises.                                                *)
(***************************************************************************)
EXTENDS Recording

Execution == [bound : BOOLEAN, finalized : BOOLEAN, settled : BOOLEAN]

\* Types of all variables.
TypeOK ==
  /\ intent \in Intent
  /\ execution \in [Generations -> Execution]
  /\ room \in [auto : BOOLEAN, held : BOOLEAN, waitNext : BOOLEAN]
  /\ occurrence \in [Occurrences -> {"absent", "due", "triggered"}]
  /\ holders \in [Generations -> SUBSET {"host", "ffmpeg", "settler"}]
  /\ tail \subseteq Generations
  /\ service \in {"down", "settling", "restarting", "up", "stopping"}
  /\ recorder \in Recorder
  /\ recovery \in Generations \cup {None}
  /\ call \in [Callers -> Call]
  /\ settling \in Generations \cup {None}
  /\ \/ stale = NoStale
     \/ /\ stale.gen \in Generations /\ stale.execution \in Execution
        /\ stale.intent \in Intent /\ stale.changed \in BOOLEAN
  /\ {lost, requests, faults, crashes, stops} \subseteq Nat

\* A session is settled, and its analysis asked for, only when nobody writes
\* to it any more and all media it left is registered, however its host ended
\* (recover_owned_recording, queue_recording_end).
SettledIsComplete ==
  \A g \in Generations :
    execution[g].settled => g \notin tail /\ "ffmpeg" \notin holders[g]

\* Two recordings of a room never write at the same time: the next one starts
\* when the processes of the one before have exited, also those that outlived
\* a lost service.
OneWriter ==
  \A g, h \in Generations :
    "ffmpeg" \in holders[g] /\ holders[h] \cap {"host", "ffmpeg"} # {} => g = h

\* What a person stopped stays stopped: no late end of the old execution, no
\* settlement and no restart of the service turns its intent into one to
\* recover (intents.finish).
StoppedStaysStopped ==
  [][intent.state = "stopped" /\ intent'.gen = intent.gen
       => intent'.state = "stopped"]_vars

\* The monitor never starts a room whose recording was blocked by an error,
\* before or after a restart: that takes a person or a schedule.
BlockedWaitsForPeople == [][StartCommit("monitor") => intent.state # "blocked"]_vars

\* A recording that is lost again and again before its media is stable is not
\* scheduled to be resumed more often than its budget allows, however starts
\* of recoveries and crashes alternate (prepare_restarts, accept).
BudgetBoundsRecovery == recovery # None => lost <= MaxRecoveries

-----------------------------------------------------------------------------

\* A session whose host is gone is settled: by the host before it closed the
\* lock file, by the settlement loop, or by the next start of the service.
ExecutionsSettle ==
  \A g \in Generations :
    execution[g].bound /\ "host" \notin holders[g] ~> execution[g].settled

\* A recording that was told to stop ends.
StopsEnd == IsRunning /\ recorder.stop ~> ~IsRunning

\* A due occurrence is handled, whatever the room does meanwhile.
OccurrencesEnd ==
  \A o \in Occurrences : occurrence[o] = "due" ~> occurrence[o] # "due"
=============================================================================
