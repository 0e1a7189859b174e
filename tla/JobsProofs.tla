----------------------------- MODULE JobsProofs -----------------------------
(***************************************************************************)
(* The safety properties of the jobs, for every set of jobs and requests,  *)
(* every number of places and every bound.                                 *)
(***************************************************************************)
EXTENDS JobsProperties, FiniteSetTheorems, TLAPS

\* A request between two of its steps is about a job; one that registers has an
\* id of its own that no record has yet, one that schedules has a record.
CallSound(c) ==
  /\ call[c].at # "idle" => call[c].job \in Jobs
  /\ call[c].at = "register" =>
       /\ job[call[c].job].status = "absent"
       /\ \A d \in Callers : call[d].at = "register" /\ call[d].job = call[c].job => d = c
  /\ call[c].at = "schedule" => job[call[c].job].status # "absent"

CallsSound == \A c \in Callers : CallSound(c)

\* Outside the life of the manager nothing runs, and before it takes requests
\* nobody waits for an answer.
Quiet ==
  /\ mode \in {"down", "starting", "closed"} => \A j \in Jobs : ~Alive(j)
  /\ mode \in {"down", "starting"} => \A c \in Callers : call[c].at = "idle"

\* A task is of a job that is registered.
Known == \A j \in Jobs : Alive(j) => job[j].status # "absent"

\* What was in progress when the process ended is on the list of the start.
Listed == \A j \in Jobs : mode = "starting" /\ InProgress(j) => j \in toRecover

\* The handler of an upload starts from a request that has not been served yet.
RunsSound ==
  \A j \in Jobs \ Cancellable :
    /\ job[j].status = "queued" \/ exec[j].at = "claimed" => runs[j] = 0
    /\ runs[j] <= 1

\* An upload that is reported as done is published.
ConfirmSound ==
  \A j \in Jobs \ Cancellable :
    job[j].status = "succeeded" \/ exec[j].at = "returned" => binding[j] = "confirmed"

IInv ==
  /\ TypeOK /\ CallsSound /\ Quiet /\ Known /\ WorkingIsCurrent /\ InProgressIsHeld
  /\ Listed /\ RunsSound /\ ConfirmSound

\* Types.

\* Every function of the store keeps a record well typed; what it makes of the
\* status and of the attempt.
LEMMA EndedRow ==
  ASSUME NEW row \in Row, NEW s \in Active \cup Terminal
  PROVE  /\ Ended(row, s) \in Row
         /\ Ended(row, s).status = s /\ Ended(row, s).attempt = row.attempt
PROOF BY DEF Row, Active, Terminal, Ended

LEMMA NextRow ==
  ASSUME NEW row \in Row
  PROVE  /\ NextAttempt(row) \in Row
         /\ NextAttempt(row).status = "queued" /\ NextAttempt(row).attempt = row.attempt + 1
PROOF
<1>1. row.attempt \in Nat /\ row.attempt + 1 \in Nat BY DEF Row
<1> QED BY <1>1 DEF Row, Active, NextAttempt

LEMMA CancelledRow ==
  ASSUME NEW row \in Row
  PROVE  /\ Cancelled(row) \in Row
         /\ Cancelled(row).status = IF row.status = "queued" THEN "cancelled" ELSE "cancelling"
         /\ Cancelled(row).attempt = row.attempt
PROOF BY DEF Row, Active, Terminal, Ended, Cancelled

LEMMA FailedRow ==
  ASSUME NEW row \in Row, NEW n, NEW b
  PROVE  /\ Failed(row, n, b) \in Row
         /\ Failed(row, n, b).attempt = row.attempt
         /\ row.attempt # n \/ row.status \in Terminal => Failed(row, n, b) = row
         /\ ~(row.attempt # n \/ row.status \in Terminal) =>
              Failed(row, n, b) \in {Ended(row, "cancelled"), Ended(row, "failed")}
         /\ row.status = "cancelling" => Failed(row, n, b) \in {row, Ended(row, "cancelled")}
PROOF
<1>1. Ended(row, "cancelled") \in Row /\ Ended(row, "failed") \in Row
  BY EndedRow DEF Active, Terminal
<1>2. Ended(row, "cancelled").attempt = row.attempt /\ Ended(row, "failed").attempt = row.attempt
  BY EndedRow DEF Active, Terminal
<1> QED BY <1>1, <1>2 DEF Failed, Active, Terminal

\* One row is written, the others stay.
LEMMA RowWritten ==
  ASSUME job \in [Jobs -> Row], NEW j \in Jobs, NEW row \in Row, job' = [job EXCEPT ![j] = row]
  PROVE  job' \in [Jobs -> Row] /\ job'[j] = row /\ \A i \in Jobs : i # j => job'[i] = job[i]
PROOF OBVIOUS

\* One task moves, the others stay.
LEMMA Moved ==
  ASSUME exec \in [Jobs -> Exec], NEW j \in Jobs, NEW p \in Places, Goto(j, p)
  PROVE  /\ exec' \in [Jobs -> Exec]
         /\ exec'[j].at = p /\ exec'[j].attempt = exec[j].attempt
         /\ \A i \in Jobs : i # j => exec'[i] = exec[i]
PROOF
<1>1. exec[j] \in Exec OBVIOUS
<1>2. [exec[j] EXCEPT !.at = p] \in Exec BY <1>1 DEF Exec
<1>3. exec' = [exec EXCEPT ![j] = [exec[j] EXCEPT !.at = p]] BY DEF Goto
<1>4. [exec[j] EXCEPT !.at = p].at = p /\ [exec[j] EXCEPT !.at = p].attempt = exec[j].attempt
  BY <1>1 DEF Exec
<1> QED BY <1>2, <1>3, <1>4

LEMMA MovedToFail ==
  ASSUME exec \in [Jobs -> Exec], NEW j \in Jobs, NEW b \in BOOLEAN, Fails(j, b)
  PROVE  /\ exec' \in [Jobs -> Exec]
         /\ exec'[j].at = "failing" /\ exec'[j].attempt = exec[j].attempt
         /\ \A i \in Jobs : i # j => exec'[i] = exec[i]
PROOF
<1> DEFINE e == [exec[j] EXCEPT !.at = "failing", !.isCancelled = b]
<1>1. exec[j] \in Exec OBVIOUS
<1>2. e \in Exec /\ e.at = "failing" /\ e.attempt = exec[j].attempt BY <1>1 DEF Exec, Places
<1>3. exec' = [exec EXCEPT ![j] = e] BY DEF Fails
<1> HIDE DEF e
<1> QED BY <1>2, <1>3

\* A step of one request that registers nothing, and creates no record, leaves
\* the others sound.
LEMMA CallsStay ==
  ASSUME CallsSound, NEW c \in Callers, \A d \in Callers : d # c => call'[d] = call[d],
         call'[c].at # "register", CallSound(c)',
         \A j \in Jobs : job'[j].status = "absent" <=> job[j].status = "absent"
  PROVE  CallsSound'
PROOF
<1> SUFFICES ASSUME NEW d \in Callers, d # c PROVE CallSound(d)' BY DEF CallsSound
<1>1. call'[d] = call[d] /\ CallSound(d) BY DEF CallsSound
<1>2. \A e \in Callers : call'[e].at = "register" => call'[e] = call[e] OBVIOUS
<1> QED BY <1>1, <1>2 DEF CallSound

\* A step of no request: whether a record exists is what the others rely on.
LEMMA CallsUnmoved ==
  ASSUME CallsSound, UNCHANGED call,
         \A j \in Jobs : job'[j].status = "absent" <=> job[j].status = "absent"
  PROVE  CallsSound'
PROOF
<1> SUFFICES ASSUME NEW d \in Callers PROVE CallSound(d)' BY DEF CallsSound
<1>1. CallSound(d) BY DEF CallsSound
<1> QED BY <1>1 DEF CallSound

-----------------------------------------------------------------------------
\* The steps of the manager, one by one.

\* enqueue takes an id that no record and no other request has.
LEMMA EnqueueKeeps ==
  ASSUME IInv, NEW c \in Callers, NEW j \in Jobs, Enqueue(c, j)
  PROVE  IInv'
PROOF
<1> USE DEF IInv
<1>1. UNCHANGED <<job, binding, exec, event, mode, toRecover, toStop, stopper, runs, missed,
                  lost, crashes, failures>>
  BY DEF Enqueue, store, tasks, service, history, bounds, Asked
<1>2. requests' \in 0 .. MaxRequests
  BY JobsAssumption DEF Enqueue, Asked, TypeOK
<1>3. call' \in [Callers -> Call] /\ \A d \in Callers : d # c => call'[d] = call[d]
  BY DEF Enqueue, Call, TypeOK
<1>4. /\ call'[c] = [at |-> "register", job |-> j, attempt |-> 1]
      /\ mode = "up" /\ job[j].status = "absent"
      /\ \A d \in Callers : call[d].at = "register" => call[d].job # j
  BY DEF Enqueue, TypeOK
<1>5. TypeOK'
  BY <1>1, <1>2, <1>3, <1>4, JobsAssumption DEF TypeOK
<1>6. CallsSound'
  BY <1>1, <1>2, <1>3, <1>4 DEF TypeOK, CallsSound, CallSound
<1>7. Quiet'
  BY <1>1, <1>2, <1>3, <1>4 DEF TypeOK, Quiet, Alive
<1>8. Known' /\ WorkingIsCurrent' /\ InProgressIsHeld' /\ Listed' /\ RunsSound' /\ ConfirmSound'
  BY <1>1, <1>2, <1>3, <1>4 DEF Known, Alive, WorkingIsCurrent, InProgress, InProgressIsHeld,
     Listed, RunsSound, ConfirmSound
<1> QED BY <1>5, <1>6, <1>7, <1>8

\* register writes only an id that has no record, and answers with one that is active.
LEMMA RegisterKeeps ==
  ASSUME IInv, NEW c \in Callers, Register(c)
  PROVE  IInv'
PROOF
<1> USE DEF IInv
<1>1. UNCHANGED <<exec, event, mode, toRecover, toStop, stopper, requests, crashes, failures>>
  BY DEF Register, store, tasks, service, history, bounds, Afresh, Answered
<1>2. call[c].at = "register" /\ call[c].job \in Jobs /\ job[call[c].job].status = "absent"
      /\ mode \notin {"down", "starting"}
  BY DEF Register, CallsSound, CallSound, Quiet, TypeOK
<1>3. call' \in [Callers -> Call] /\ \A d \in Callers : d # c => call'[d] = call[d]
  <2>1. ASSUME NEW i \in Jobs PROVE [at |-> "schedule", job |-> i, attempt |-> job[i].attempt] \in Call
    BY DEF TypeOK, Call, Row
  <2>2. [call[c] EXCEPT !.at = "schedule"] \in Call BY DEF TypeOK, Call
  <2>3. NoCall \in Call BY DEF NoCall, Call
  <2> QED BY <2>1, <2>2, <2>3 DEF Register, Answered, Twins, TypeOK
<1>4. \/ /\ job' = [job EXCEPT ![call[c].job] = FirstRow]
         /\ binding' = [binding EXCEPT ![call[c].job] = "none"] /\ runs' = [runs EXCEPT ![call[c].job] = 0]
         /\ missed' \subseteq Jobs /\ lost' = lost \ {call[c].job}
         /\ call'[c].at = "schedule" /\ call'[c].job = call[c].job
      \/ /\ UNCHANGED <<job, binding, runs, missed, lost>>
         /\ \/ call'[c].at = "idle"
            \/ call'[c].at = "schedule" /\ call'[c].job \in Jobs /\ job[call'[c].job].status \in Active
  BY <1>2 DEF Register, Afresh, Answered, Twins, NoCall, Call, TypeOK, store, history
<1>5. FirstRow \in Row /\ FirstRow.status = "queued"
  BY DEF FirstRow, Row, Active
<1>6. TypeOK'
  BY <1>1, <1>2, <1>3, <1>4, <1>5, JobsAssumption DEF TypeOK
<1>7. CallsSound'
  BY <1>1, <1>2, <1>3, <1>4, <1>5 DEF TypeOK, CallsSound, CallSound, Active
<1>8. Quiet'
  BY <1>1, <1>2, <1>3, <1>4, <1>5 DEF TypeOK, Quiet, Alive
<1>9. Known'
  BY <1>1, <1>2, <1>3, <1>4, <1>5 DEF TypeOK, Known, Alive
<1>10. WorkingIsCurrent'
  BY <1>1, <1>2, <1>3, <1>4, <1>5, Known DEF TypeOK, WorkingIsCurrent, InProgress, Known, Alive
<1>11. InProgressIsHeld'
  BY <1>1, <1>2, <1>3, <1>4, <1>5 DEF TypeOK, InProgressIsHeld, InProgress
<1>12. Listed'
  BY <1>1, <1>2, <1>3, <1>4, <1>5 DEF TypeOK, Listed, InProgress
<1>13. RunsSound'
  BY <1>1, <1>2, <1>3, <1>4, <1>5 DEF TypeOK, RunsSound
<1>14. ConfirmSound'
  BY <1>1, <1>2, <1>3, <1>4, <1>5, Known DEF TypeOK, ConfirmSound, Known, Alive
<1> QED BY <1>6, <1>7, <1>8, <1>9, <1>10, <1>11, <1>12, <1>13, <1>14

\* _schedule puts a task only where there is none, and never while the manager stops.
LEMMA ScheduleKeeps ==
  ASSUME IInv, NEW c \in Callers, Schedule(c)
  PROVE  IInv'
PROOF
<1> USE DEF IInv
<1>1. UNCHANGED <<job, binding, event, mode, toRecover, toStop, stopper, runs, lost, requests,
                  crashes, failures>>
  BY DEF Schedule, store, tasks, service, history, bounds, Answered
<1>2. call[c].at = "schedule" /\ call[c].job \in Jobs /\ job[call[c].job].status # "absent"
      /\ mode \notin {"down", "starting"}
  BY DEF Schedule, CallsSound, CallSound, Quiet, TypeOK
<1>3. call'[c].at = "idle" /\ call' \in [Callers -> Call]
      /\ \A d \in Callers : d # c => call'[d] = call[d]
  BY DEF Schedule, Answered, NoCall, Call, TypeOK
<1>4. Created(call[c].attempt) \in Exec /\ Created(call[c].attempt).at = "waiting"
  BY DEF Created, Exec, Places, Call, TypeOK
<1>5. \/ UNCHANGED exec
      \/ /\ ~Stopping /\ exec[call[c].job].at = "none"
         /\ exec' = [exec EXCEPT ![call[c].job] = Created(call[c].attempt)]
  BY DEF Schedule, Alive, TypeOK
<1>6. missed' \subseteq Jobs
  BY <1>2 DEF Schedule, TypeOK
<1>7. TypeOK'
  BY <1>1, <1>2, <1>3, <1>4, <1>5, <1>6, JobsAssumption DEF TypeOK
<1>8. CallsSound'
  BY <1>1, <1>2, <1>3, <1>4, <1>5, <1>6 DEF TypeOK, CallsSound, CallSound
<1>9. Quiet'
  BY <1>1, <1>2, <1>3, <1>4, <1>5, <1>6 DEF TypeOK, Quiet, Alive, Stopping
<1>10. Known'
  BY <1>1, <1>2, <1>3, <1>4, <1>5, <1>6 DEF TypeOK, Known, Alive
<1>11. WorkingIsCurrent'
  BY <1>1, <1>2, <1>3, <1>4, <1>5, <1>6 DEF TypeOK, WorkingIsCurrent, InProgress
<1>12. InProgressIsHeld'
  BY <1>1, <1>2, <1>3, <1>4, <1>5, <1>6 DEF TypeOK, InProgressIsHeld, InProgress
<1>13. RunsSound'
  BY <1>1, <1>2, <1>3, <1>4, <1>5, <1>6 DEF TypeOK, RunsSound
<1>14. ConfirmSound'
  BY <1>1, <1>2, <1>3, <1>4, <1>5, <1>6 DEF TypeOK, ConfirmSound
<1>15. Listed'
  BY <1>1, <1>2, <1>3, <1>4, <1>5, <1>6 DEF Listed, InProgress
<1> QED BY <1>7, <1>8, <1>9, <1>10, <1>11, <1>12, <1>13, <1>14, <1>15

\* retry asks about a job that has a record.
LEMMA AskRetryKeeps ==
  ASSUME IInv, NEW c \in Callers, NEW j \in Jobs, AskRetry(c, j)
  PROVE  IInv'
PROOF
<1> USE DEF IInv
<1>1. UNCHANGED <<job, binding, exec, event, mode, toRecover, toStop, stopper, runs, missed,
                  lost, crashes, failures>>
  BY DEF AskRetry, store, tasks, service, history, bounds, Asked
<1>2. requests' \in 0 .. MaxRequests
  BY JobsAssumption DEF AskRetry, Asked, TypeOK
<1>3. call' \in [Callers -> Call] /\ \A d \in Callers : d # c => call'[d] = call[d]
  BY DEF AskRetry, Call, TypeOK
<1>4. /\ call'[c] = [at |-> "retry", job |-> j, attempt |-> 0]
      /\ mode = "up" /\ job[j].status # "absent"
  BY DEF AskRetry, TypeOK
<1>5. TypeOK'
  BY <1>1, <1>2, <1>3, <1>4, JobsAssumption DEF TypeOK
<1>6. CallsSound'
  BY <1>1, <1>2, <1>3, <1>4 DEF TypeOK, CallsSound, CallSound
<1>7. Quiet'
  BY <1>1, <1>2, <1>3, <1>4 DEF TypeOK, Quiet, Alive
<1>8. Known' /\ WorkingIsCurrent' /\ InProgressIsHeld' /\ Listed' /\ RunsSound' /\ ConfirmSound'
  BY <1>1, <1>2, <1>3, <1>4 DEF Known, Alive, WorkingIsCurrent, InProgress, InProgressIsHeld,
     Listed, RunsSound, ConfirmSound
<1> QED BY <1>5, <1>6, <1>7, <1>8

\* A row that may be retried has no handler at work: one that is would be in progress.
LEMMA RetryKeeps ==
  ASSUME IInv, NEW c \in Callers, Retry(c)
  PROVE  IInv'
PROOF
<1> USE DEF IInv
<1>1. UNCHANGED <<exec, event, mode, toRecover, toStop, stopper, requests, crashes, failures>>
  BY DEF Retry, store, tasks, service, history, bounds, Afresh, Answered
<1>2. call[c].at = "retry" /\ call[c].job \in Jobs /\ mode \notin {"down", "starting"}
  BY DEF Retry, CallsSound, CallSound, Quiet, TypeOK
<1>3. call' \in [Callers -> Call] /\ \A d \in Callers : d # c => call'[d] = call[d]
  <2>1. [at |-> "schedule", job |-> call[c].job, attempt |-> job[call[c].job].attempt + 1] \in Call
    BY <1>2 DEF TypeOK, Call, Row
  <2>2. NoCall \in Call BY DEF NoCall, Call
  <2> QED BY <2>1, <2>2 DEF Retry, Answered, TypeOK
<1>4. NextAttempt(job[call[c].job]) \in Row /\ NextAttempt(job[call[c].job]).status = "queued"
  BY <1>2, NextRow DEF TypeOK
<1>5. \/ /\ job[call[c].job].status \in {"failed", "cancelled"}
         /\ job' = [job EXCEPT ![call[c].job] = NextAttempt(job[call[c].job])]
         /\ binding' = [binding EXCEPT ![call[c].job] = "none"] /\ runs' = [runs EXCEPT ![call[c].job] = 0]
         /\ missed' \subseteq Jobs /\ lost' = lost \ {call[c].job}
         /\ call'[c].at = "schedule" /\ call'[c].job = call[c].job
      \/ UNCHANGED <<job, binding, runs, missed, lost>> /\ call'[c].at = "idle"
  BY <1>2 DEF Retry, MayRetry, Afresh, Answered, NoCall, TypeOK, store, history
<1>6. TypeOK'
  BY <1>1, <1>2, <1>3, <1>4, <1>5, JobsAssumption DEF TypeOK
<1>7. CallsSound'
  <2>1. CallSound(c)' BY <1>1, <1>2, <1>3, <1>4, <1>5 DEF CallSound, TypeOK
  <2>2. \A i \in Jobs : job'[i].status = "absent" <=> job[i].status = "absent"
    BY <1>2, <1>4, <1>5 DEF TypeOK
  <2> QED BY <1>3, <1>5, <2>1, <2>2, CallsStay
<1>8. Quiet'
  BY <1>1, <1>2, <1>3, <1>4, <1>5 DEF TypeOK, Quiet, Alive
<1>9. Known'
  BY <1>1, <1>2, <1>3, <1>4, <1>5 DEF TypeOK, Known, Alive
<1>10. WorkingIsCurrent'
  BY <1>1, <1>2, <1>3, <1>4, <1>5 DEF TypeOK, WorkingIsCurrent, InProgress
<1>11. InProgressIsHeld'
  BY <1>1, <1>2, <1>3, <1>4, <1>5 DEF TypeOK, InProgressIsHeld, InProgress
<1>12. Listed'
  BY <1>1, <1>2, <1>3, <1>4, <1>5 DEF TypeOK, Listed, InProgress
<1>13. RunsSound'
  BY <1>1, <1>2, <1>3, <1>4, <1>5 DEF TypeOK, RunsSound
<1>14. ConfirmSound'
  BY <1>1, <1>2, <1>3, <1>4, <1>5 DEF TypeOK, ConfirmSound, WorkingIsCurrent, InProgress
<1> QED BY <1>6, <1>7, <1>8, <1>9, <1>10, <1>11, <1>12, <1>13, <1>14

\* cancel ends what is queued and asks what runs to end.
LEMMA CancelKeeps ==
  ASSUME IInv, NEW c \in Callers, NEW j \in Jobs, Cancel(c, j)
  PROVE  IInv'
PROOF
<1> USE DEF IInv
<1>1. UNCHANGED <<binding, exec, event, mode, toRecover, toStop, stopper, runs, missed, lost,
                  crashes, failures>>
  BY DEF Cancel, store, tasks, service, history, bounds, Asked
<1>2. requests' \in 0 .. MaxRequests
  BY JobsAssumption DEF Cancel, Asked, TypeOK
<1>3. call' \in [Callers -> Call] /\ \A d \in Callers : d # c => call'[d] = call[d]
  BY DEF Cancel, Call, TypeOK
<1>4. call'[c].at = "signal" /\ call'[c].job = j /\ mode \notin {"down", "starting"}
      /\ job[j].status \in Active
  BY DEF Cancel, MayCancel, TypeOK
<1>5. /\ Cancelled(job[j]) \in Row /\ Cancelled(job[j]).attempt = job[j].attempt
      /\ Cancelled(job[j]).status = IF job[j].status = "queued" THEN "cancelled" ELSE "cancelling"
  BY CancelledRow DEF TypeOK
<1>6. job' = [job EXCEPT ![j] = Cancelled(job[j])]
  BY DEF Cancel
<1>7. TypeOK'
  BY <1>1, <1>2, <1>3, <1>4, <1>5, <1>6, JobsAssumption DEF TypeOK
<1>8. CallsSound'
  <2>1. CallSound(c)' BY <1>1, <1>3, <1>4, <1>5, <1>6 DEF CallSound, Active, TypeOK
  <2>2. \A i \in Jobs : job'[i].status = "absent" <=> job[i].status = "absent"
    BY <1>4, <1>5, <1>6 DEF Active, TypeOK
  <2> QED BY <1>3, <1>4, <2>1, <2>2, CallsStay
<1>9. Quiet'
  BY <1>1, <1>2, <1>3, <1>4, <1>5, <1>6 DEF TypeOK, Quiet, Alive
<1>10. Known'
  BY <1>1, <1>2, <1>3, <1>4, <1>5, <1>6 DEF TypeOK, Known, Alive, Active
<1>11. WorkingIsCurrent'
  BY <1>1, <1>2, <1>3, <1>4, <1>5, <1>6 DEF TypeOK, WorkingIsCurrent, InProgress, Active
<1>12. InProgressIsHeld'
  BY <1>1, <1>2, <1>3, <1>4, <1>5, <1>6 DEF TypeOK, InProgressIsHeld, InProgress, Active
<1>13. Listed'
  BY <1>1, <1>2, <1>3, <1>4, <1>5, <1>6 DEF TypeOK, Listed, InProgress
<1>14. RunsSound'
  BY <1>1, <1>2, <1>3, <1>4, <1>5, <1>6 DEF TypeOK, RunsSound
<1>15. ConfirmSound'
  BY <1>1, <1>2, <1>3, <1>4, <1>5, <1>6 DEF TypeOK, ConfirmSound
<1> QED BY <1>7, <1>8, <1>9, <1>10, <1>11, <1>12, <1>13, <1>14, <1>15

\* The event of a handler is set.
LEMMA SignalKeeps ==
  ASSUME IInv, NEW c \in Callers, Signal(c)
  PROVE  IInv'
PROOF
<1> USE DEF IInv
<1>1. UNCHANGED <<job, binding, exec, mode, toRecover, toStop, stopper, runs, missed, lost,
                  requests, crashes, failures>>
  BY DEF Signal, store, tasks, service, history, bounds, Signalled, Answered
<1>2. event' \in [Jobs -> {"none", "clear", "set"}]
  BY DEF Signal, Signalled, TypeOK
<1>3. call'[c].at = "idle" /\ call' \in [Callers -> Call]
      /\ \A d \in Callers : d # c => call'[d] = call[d]
  BY DEF Signal, Answered, NoCall, Call, TypeOK
<1>4. TypeOK'
  BY <1>1, <1>2, <1>3, JobsAssumption DEF TypeOK
<1>5. CallsSound'
  BY <1>1, <1>2, <1>3 DEF TypeOK, CallsSound, CallSound
<1>6. Quiet'
  BY <1>1, <1>2, <1>3 DEF TypeOK, Quiet, Alive
<1>7. Known' /\ WorkingIsCurrent' /\ InProgressIsHeld' /\ Listed' /\ RunsSound' /\ ConfirmSound'
  BY <1>1, <1>2, <1>3 DEF Known, Alive, WorkingIsCurrent, InProgress, InProgressIsHeld, Listed,
     RunsSound, ConfirmSound
<1> QED BY <1>4, <1>5, <1>6, <1>7

\* A task that gets its place goes on, or ends at once.
LEMMA AcquireKeeps ==
  ASSUME IInv, NEW j \in Jobs, Acquire(j)
  PROVE  IInv'
PROOF
<1> USE DEF IInv
<1>1. UNCHANGED <<job, binding, event, call, mode, toRecover, toStop, stopper, runs, missed,
                  lost, requests, crashes, failures>>
  BY DEF Acquire, store, tasks, service, history, bounds
<1>2. /\ exec' \in [Jobs -> Exec]
      /\ exec[j].at = "waiting" /\ exec'[j].at \in {"ending", "claiming"} /\ exec'[j].attempt = exec[j].attempt
      /\ \A i \in Jobs : i # j => exec'[i] = exec[i]
  BY Moved DEF Acquire, TypeOK, Places
<1>3. TypeOK'
  BY <1>1, <1>2, JobsAssumption DEF TypeOK
<1>4. Quiet'
  BY <1>1, <1>2 DEF TypeOK, Quiet, Alive
<1>5. Known'
  BY <1>1, <1>2 DEF TypeOK, Known, Alive
<1>6. WorkingIsCurrent'
  BY <1>1, <1>2 DEF TypeOK, WorkingIsCurrent, InProgress
<1>7. InProgressIsHeld'
  BY <1>1, <1>2 DEF TypeOK, InProgressIsHeld, InProgress
<1>8. RunsSound'
  BY <1>1, <1>2 DEF TypeOK, RunsSound
<1>9. ConfirmSound'
  BY <1>1, <1>2 DEF TypeOK, ConfirmSound
<1>10. CallsSound' /\ Listed'
  BY <1>1, <1>2 DEF CallsSound, CallSound, Listed, InProgress
<1> QED BY <1>3, <1>4, <1>5, <1>6, <1>7, <1>8, <1>9, <1>10

\* claim takes a row that waits for this attempt; the others stay.
LEMMA ClaimKeeps ==
  ASSUME IInv, NEW j \in Jobs, Claim(j)
  PROVE  IInv'
PROOF
<1> USE DEF IInv
<1>1. UNCHANGED <<binding, event, call, mode, toRecover, toStop, stopper, runs, missed, lost,
                  requests, crashes, failures>>
  BY DEF Claim, store, tasks, service, history, bounds
<1>2. /\ exec' \in [Jobs -> Exec]
      /\ exec[j].at = "claiming" /\ exec'[j].at \in {"claimed", "ending"} /\ exec'[j].attempt = exec[j].attempt
      /\ \A i \in Jobs : i # j => exec'[i] = exec[i]
  BY Moved DEF Claim, TypeOK, Places
<1>3. \/ /\ job[j].status = "queued" /\ job[j].attempt = exec[j].attempt /\ exec'[j].at = "claimed"
         /\ job' = [job EXCEPT ![j] = Ended(job[j], "running")]
      \/ exec'[j].at = "ending" /\ UNCHANGED job
  <2>1. [job[j] EXCEPT !.status = "running"] = Ended(job[j], "running") BY DEF Ended
  <2>2. CASE IsIn(job[j], exec[j].attempt, {"queued"})
    BY <2>1, <2>2, Moved DEF Claim, IsIn, Places, TypeOK
  <2>3. CASE ~IsIn(job[j], exec[j].attempt, {"queued"})
    BY <2>3, Moved DEF Claim, Places, TypeOK
  <2> QED BY <2>2, <2>3
<1>4. /\ Ended(job[j], "running") \in Row
      /\ Ended(job[j], "running").status = "running" /\ Ended(job[j], "running").attempt = job[j].attempt
  BY EndedRow DEF TypeOK, Active
<1>5. TypeOK'
  BY <1>1, <1>2, <1>3, <1>4, JobsAssumption DEF TypeOK
<1>6. CallsSound'
  <2>1. \A i \in Jobs : job'[i].status = "absent" <=> job[i].status = "absent"
    BY <1>3, <1>4 DEF TypeOK, Active, Terminal
  <2> QED BY <1>1, <2>1, CallsUnmoved
<1>7. Quiet'
  BY <1>1, <1>2, <1>3, <1>4 DEF TypeOK, Quiet, Alive
<1>8. Known'
  BY <1>1, <1>2, <1>3, <1>4 DEF TypeOK, Known, Alive
<1>9. WorkingIsCurrent'
  BY <1>1, <1>2, <1>3, <1>4 DEF TypeOK, WorkingIsCurrent, InProgress
<1>10. InProgressIsHeld'
  <2> SUFFICES ASSUME NEW i \in Jobs, job'[i].status \in {"running", "cancelling"}, i \notin lost,
                       mode \in {"up", "stopping", "closing", "closed"}
                PROVE  exec'[i].attempt = job'[i].attempt
                       /\ exec'[i].at \in {"claimed", "working", "returned", "failing"}
    BY <1>1 DEF InProgressIsHeld, InProgress
  <2>1. CASE i # j BY <1>2, <1>3, <2>1 DEF InProgressIsHeld, InProgress, TypeOK
  <2>2. CASE i = j
    <3>1. ~(job'[j] = job[j]) BY <1>2, <2>2 DEF InProgressIsHeld, InProgress
    <3>2. job[j].attempt = exec[j].attempt /\ job'[j] = Ended(job[j], "running") /\ exec'[j].at = "claimed"
      BY <3>1, <1>3 DEF TypeOK
    <3> QED BY <3>2, <1>2, <1>4, <2>2
  <2> QED BY <2>1, <2>2
<1>11. Listed'
  BY <1>1, <1>2, <1>3, <1>4, Quiet DEF TypeOK, Listed, InProgress, Quiet, Alive
<1>12. RunsSound'
  BY <1>1, <1>2, <1>3, <1>4 DEF TypeOK, RunsSound
<1>13. ConfirmSound'
  BY <1>1, <1>2, <1>3, <1>4 DEF TypeOK, ConfirmSound
<1> QED BY <1>5, <1>6, <1>7, <1>8, <1>9, <1>10, <1>11, <1>12, <1>13

\* A transaction that fails ends the attempt.
LEMMA ClaimBreaksKeeps ==
  ASSUME IInv, NEW j \in Jobs, ClaimBreaks(j)
  PROVE  IInv'
PROOF
<1> USE DEF IInv
<1>1. UNCHANGED <<job, binding, event, call, mode, toRecover, toStop, stopper, runs, missed,
                  lost, requests, crashes>>
  BY DEF ClaimBreaks, store, tasks, service, history, bounds, Breaks
<1>2. failures' \in 0 .. MaxFailures
  BY JobsAssumption DEF ClaimBreaks, Breaks, TypeOK
<1>3. /\ exec' \in [Jobs -> Exec]
      /\ exec[j].at = "claiming" /\ exec'[j].at = "failing" /\ exec'[j].attempt = exec[j].attempt
      /\ \A i \in Jobs : i # j => exec'[i] = exec[i]
  BY MovedToFail DEF ClaimBreaks, TypeOK
<1>4. TypeOK'
  BY <1>1, <1>2, <1>3, JobsAssumption DEF TypeOK
<1>5. Quiet'
  BY <1>1, <1>2, <1>3 DEF TypeOK, Quiet, Alive
<1>6. Known'
  BY <1>1, <1>2, <1>3 DEF TypeOK, Known, Alive
<1>7. WorkingIsCurrent'
  BY <1>1, <1>2, <1>3 DEF TypeOK, WorkingIsCurrent, InProgress
<1>8. InProgressIsHeld'
  BY <1>1, <1>2, <1>3 DEF TypeOK, InProgressIsHeld, InProgress
<1>9. RunsSound'
  BY <1>1, <1>2, <1>3 DEF TypeOK, RunsSound
<1>10. ConfirmSound'
  BY <1>1, <1>2, <1>3 DEF TypeOK, ConfirmSound
<1>11. CallsSound' /\ Listed'
  BY <1>1, <1>2, <1>3 DEF CallsSound, CallSound, Listed, InProgress
<1> QED BY <1>4, <1>5, <1>6, <1>7, <1>8, <1>9, <1>10, <1>11

\* A handler starts, or the attempt is given up for the stop.
LEMMA BeginKeeps ==
  ASSUME IInv, NEW j \in Jobs, Begin(j)
  PROVE  IInv'
PROOF
<1> USE DEF IInv
<1>1. UNCHANGED <<job, binding, call, mode, toRecover, toStop, stopper, missed, lost, requests,
                  crashes, failures>>
  BY DEF Begin, store, tasks, service, history, bounds
<1>2. /\ exec' \in [Jobs -> Exec]
      /\ exec[j].at = "claimed" /\ exec'[j].at \in {"working", "failing"} /\ exec'[j].attempt = exec[j].attempt
      /\ \A i \in Jobs : i # j => exec'[i] = exec[i]
  <2>1. CASE Stopping BY <2>1, MovedToFail DEF Begin, TypeOK
  <2>2. CASE ~Stopping BY <2>2, Moved DEF Begin, TypeOK, Places
  <2> QED BY <2>1, <2>2
<1>3. event' \in [Jobs -> {"none", "clear", "set"}]
  BY DEF Begin, TypeOK
<1>4. runs[j] + 1 \in Nat
  BY DEF TypeOK
<1>5. /\ runs' \in [Jobs -> Nat] /\ runs'[j] \in {runs[j], runs[j] + 1}
      /\ \A i \in Jobs : i # j => runs'[i] = runs[i]
  BY <1>4 DEF Begin, TypeOK
<1>6. TypeOK'
  BY <1>1, <1>2, <1>3, <1>4, <1>5, JobsAssumption DEF TypeOK
<1>7. Quiet'
  BY <1>1, <1>2, <1>3, <1>4, <1>5 DEF TypeOK, Quiet, Alive
<1>8. Known'
  BY <1>1, <1>2, <1>3, <1>4, <1>5 DEF TypeOK, Known, Alive
<1>9. WorkingIsCurrent'
  BY <1>1, <1>2, <1>3, <1>4, <1>5 DEF TypeOK, WorkingIsCurrent, InProgress
<1>10. InProgressIsHeld'
  BY <1>1, <1>2, <1>3, <1>4, <1>5 DEF TypeOK, InProgressIsHeld, InProgress
<1>11. RunsSound'
  <2> SUFFICES ASSUME NEW i \in Jobs \ Cancellable
                PROVE  (job[i].status = "queued" \/ exec'[i].at = "claimed" => runs'[i] = 0) /\ runs'[i] <= 1
    BY <1>1 DEF RunsSound
  <2>1. CASE i = j
    <3>1. job[j].status # "queued" /\ runs[j] = 0 BY <1>2, <2>1 DEF RunsSound, WorkingIsCurrent, InProgress
    <3> QED BY <3>1, <1>2, <1>5, <2>1
  <2>2. CASE i # j BY <1>2, <1>5, <2>2 DEF RunsSound
  <2> QED BY <2>1, <2>2
<1>12. ConfirmSound'
  BY <1>1, <1>2, <1>3, <1>4, <1>5 DEF TypeOK, ConfirmSound
<1>13. CallsSound' /\ Listed'
  BY <1>1, <1>2, <1>3, <1>4, <1>5 DEF CallsSound, CallSound, Listed, InProgress
<1> QED BY <1>6, <1>7, <1>8, <1>9, <1>10, <1>11, <1>12, <1>13

\* A domain stores its result with the success.
LEMMA PublishKeeps ==
  ASSUME IInv, NEW j \in Jobs, Publish(j)
  PROVE  IInv'
PROOF
<1> USE DEF IInv
<1>1. UNCHANGED <<binding, exec, event, call, mode, toRecover, toStop, stopper, runs, missed,
                  lost, requests, crashes, failures>>
  BY DEF Publish, store, tasks, service, history, bounds
<1>2. /\ exec[j].at = "working" /\ j \in Cancellable /\ job[j].status = "running"
      /\ job' = [job EXCEPT ![j] = Ended(job[j], "succeeded")]
  BY DEF Publish, IsIn
<1>3. /\ Ended(job[j], "succeeded") \in Row
      /\ Ended(job[j], "succeeded").status = "succeeded" /\ Ended(job[j], "succeeded").attempt = job[j].attempt
  BY EndedRow DEF TypeOK, Terminal
<1>4. TypeOK'
  BY <1>1, <1>2, <1>3, JobsAssumption DEF TypeOK
<1>5. CallsSound'
  <2>1. \A i \in Jobs : job'[i].status = "absent" <=> job[i].status = "absent"
    BY <1>2, <1>3 DEF TypeOK, Active, Terminal
  <2> QED BY <1>1, <2>1, CallsUnmoved
<1>6. Quiet'
  BY <1>1, <1>2, <1>3 DEF TypeOK, Quiet, Alive
<1>7. Known'
  BY <1>1, <1>2, <1>3 DEF TypeOK, Known, Alive
<1>8. WorkingIsCurrent'
  BY <1>1, <1>2, <1>3 DEF TypeOK, WorkingIsCurrent, InProgress
<1>9. InProgressIsHeld'
  BY <1>1, <1>2, <1>3 DEF TypeOK, InProgressIsHeld, InProgress
<1>10. Listed'
  BY <1>1, <1>2, <1>3 DEF TypeOK, Listed, InProgress
<1>11. RunsSound'
  BY <1>1, <1>2, <1>3 DEF TypeOK, RunsSound
<1>12. ConfirmSound'
  BY <1>1, <1>2, <1>3 DEF TypeOK, ConfirmSound
<1> QED BY <1>4, <1>5, <1>6, <1>7, <1>8, <1>9, <1>10, <1>11, <1>12

\* A row that has succeeded has a confirmed binding, which bind does not touch.
LEMMA BindKeeps ==
  ASSUME IInv, NEW j \in Jobs, Bind(j)
  PROVE  IInv'
PROOF
<1> USE DEF IInv
<1>1. UNCHANGED <<job, exec, event, call, mode, toRecover, toStop, stopper, runs, missed, lost,
                  requests, crashes, failures>>
  BY DEF Bind, store, tasks, service, history, bounds
<1>2. /\ binding[j] = "none" /\ exec[j].at = "working"
      /\ \E fact \in {"bound", "confirmed"} : binding' = [binding EXCEPT ![j] = fact]
  BY DEF Bind
<1>3. TypeOK'
  BY <1>1, <1>2, JobsAssumption DEF TypeOK
<1>4. ConfirmSound'
  BY <1>1, <1>2 DEF TypeOK, ConfirmSound
<1>5. CallsSound' /\ Quiet' /\ Known' /\ WorkingIsCurrent' /\ InProgressIsHeld' /\ Listed' /\ RunsSound'
  BY <1>1, <1>2 DEF CallsSound, CallSound, Quiet, Alive, Known, WorkingIsCurrent, InProgress,
     InProgressIsHeld, Listed, RunsSound
<1> QED BY <1>3, <1>4, <1>5

\* An upload returns only if it is published.
LEMMA ReturnKeeps ==
  ASSUME IInv, NEW j \in Jobs, Return(j)
  PROVE  IInv'
PROOF
<1> USE DEF IInv
<1>1. UNCHANGED <<job, binding, event, call, mode, toRecover, toStop, stopper, runs, missed,
                  lost, requests, crashes, failures>>
  BY DEF Return, store, tasks, service, history, bounds
<1>2. /\ exec' \in [Jobs -> Exec]
      /\ exec[j].at = "working" /\ exec'[j].at = "returned" /\ exec'[j].attempt = exec[j].attempt
      /\ \A i \in Jobs : i # j => exec'[i] = exec[i]
  BY Moved DEF Return, TypeOK, Places
<1>3. j \in Cancellable \/ binding[j] = "confirmed"
  BY DEF Return
<1>4. TypeOK'
  BY <1>1, <1>2, <1>3, JobsAssumption DEF TypeOK
<1>5. Quiet'
  BY <1>1, <1>2, <1>3 DEF TypeOK, Quiet, Alive
<1>6. Known'
  BY <1>1, <1>2, <1>3 DEF TypeOK, Known, Alive
<1>7. WorkingIsCurrent'
  BY <1>1, <1>2, <1>3 DEF TypeOK, WorkingIsCurrent, InProgress
<1>8. InProgressIsHeld'
  BY <1>1, <1>2, <1>3 DEF TypeOK, InProgressIsHeld, InProgress
<1>9. RunsSound'
  BY <1>1, <1>2, <1>3 DEF TypeOK, RunsSound
<1>10. ConfirmSound'
  BY <1>1, <1>2, <1>3 DEF TypeOK, ConfirmSound
<1>11. CallsSound' /\ Listed'
  BY <1>1, <1>2, <1>3 DEF CallsSound, CallSound, Listed, InProgress
<1> QED BY <1>4, <1>5, <1>6, <1>7, <1>8, <1>9, <1>10, <1>11

\* A handler that has noticed ends as cancelled.
LEMMA NoticeKeeps ==
  ASSUME IInv, NEW j \in Jobs, Notice(j)
  PROVE  IInv'
PROOF
<1> USE DEF IInv
<1>1. UNCHANGED <<job, binding, event, call, mode, toRecover, toStop, stopper, runs, missed,
                  lost, requests, crashes, failures>>
  BY DEF Notice, store, tasks, service, history, bounds
<1>2. /\ exec' \in [Jobs -> Exec]
      /\ exec[j].at = "working" /\ exec'[j].at = "failing" /\ exec'[j].attempt = exec[j].attempt
      /\ \A i \in Jobs : i # j => exec'[i] = exec[i]
  BY MovedToFail DEF Notice, TypeOK
<1>3. TypeOK'
  BY <1>1, <1>2, JobsAssumption DEF TypeOK
<1>4. Quiet'
  BY <1>1, <1>2 DEF TypeOK, Quiet, Alive
<1>5. Known'
  BY <1>1, <1>2 DEF TypeOK, Known, Alive
<1>6. WorkingIsCurrent'
  BY <1>1, <1>2 DEF TypeOK, WorkingIsCurrent, InProgress
<1>7. InProgressIsHeld'
  BY <1>1, <1>2 DEF TypeOK, InProgressIsHeld, InProgress
<1>8. RunsSound'
  BY <1>1, <1>2 DEF TypeOK, RunsSound
<1>9. ConfirmSound'
  BY <1>1, <1>2 DEF TypeOK, ConfirmSound
<1>10. CallsSound' /\ Listed'
  BY <1>1, <1>2 DEF CallsSound, CallSound, Listed, InProgress
<1> QED BY <1>3, <1>4, <1>5, <1>6, <1>7, <1>8, <1>9, <1>10

\* A handler that raises ends as failed.
LEMMA RaiseKeeps ==
  ASSUME IInv, NEW j \in Jobs, Raise(j)
  PROVE  IInv'
PROOF
<1> USE DEF IInv
<1>1. UNCHANGED <<job, binding, event, call, mode, toRecover, toStop, stopper, runs, missed,
                  lost, requests, crashes, failures>>
  BY DEF Raise, store, tasks, service, history, bounds
<1>2. /\ exec' \in [Jobs -> Exec]
      /\ exec[j].at = "working" /\ exec'[j].at = "failing" /\ exec'[j].attempt = exec[j].attempt
      /\ \A i \in Jobs : i # j => exec'[i] = exec[i]
  BY MovedToFail DEF Raise, TypeOK
<1>3. TypeOK'
  BY <1>1, <1>2, JobsAssumption DEF TypeOK
<1>4. Quiet'
  BY <1>1, <1>2 DEF TypeOK, Quiet, Alive
<1>5. Known'
  BY <1>1, <1>2 DEF TypeOK, Known, Alive
<1>6. WorkingIsCurrent'
  BY <1>1, <1>2 DEF TypeOK, WorkingIsCurrent, InProgress
<1>7. InProgressIsHeld'
  BY <1>1, <1>2 DEF TypeOK, InProgressIsHeld, InProgress
<1>8. RunsSound'
  BY <1>1, <1>2 DEF TypeOK, RunsSound
<1>9. ConfirmSound'
  BY <1>1, <1>2 DEF TypeOK, ConfirmSound
<1>10. CallsSound' /\ Listed'
  BY <1>1, <1>2 DEF CallsSound, CallSound, Listed, InProgress
<1> QED BY <1>3, <1>4, <1>5, <1>6, <1>7, <1>8, <1>9, <1>10

\* The success of an upload is that of a handler that has returned.
LEMMA FinishKeeps ==
  ASSUME IInv, NEW j \in Jobs, Finish(j)
  PROVE  IInv'
PROOF
<1> USE DEF IInv
<1>1. UNCHANGED <<binding, event, call, mode, toRecover, toStop, stopper, runs, missed, lost,
                  requests, crashes, failures>>
  BY DEF Finish, store, tasks, service, history, bounds
<1>2. /\ exec' \in [Jobs -> Exec]
      /\ exec[j].at = "returned" /\ exec'[j].at \in {"ending", "failing"} /\ exec'[j].attempt = exec[j].attempt
      /\ \A i \in Jobs : i # j => exec'[i] = exec[i]
  <2>1. CASE Goto(j, "ending") BY <2>1, Moved DEF Finish, TypeOK, Places
  <2>2. CASE Fails(j, TRUE) BY <2>2, MovedToFail DEF Finish, TypeOK
  <2> QED BY <2>1, <2>2 DEF Finish
<1>3. \/ job' = job /\ (job[j].status = "succeeded" \/ exec'[j].at = "failing")
      \/ job[j].status = "running" /\ job' = [job EXCEPT ![j] = Ended(job[j], "succeeded")]
  BY MovedToFail DEF Finish, IsIn, TypeOK
<1>4. /\ Ended(job[j], "succeeded") \in Row
      /\ Ended(job[j], "succeeded").status = "succeeded" /\ Ended(job[j], "succeeded").attempt = job[j].attempt
  BY EndedRow DEF TypeOK, Terminal
<1>5. TypeOK'
  BY <1>1, <1>2, <1>3, <1>4, JobsAssumption DEF TypeOK
<1>6. CallsSound'
  <2>1. \A i \in Jobs : job'[i].status = "absent" <=> job[i].status = "absent"
    BY <1>3, <1>4 DEF TypeOK, Active, Terminal
  <2> QED BY <1>1, <2>1, CallsUnmoved
<1>7. Quiet'
  BY <1>1, <1>2, <1>3, <1>4 DEF TypeOK, Quiet, Alive
<1>8. Known'
  BY <1>1, <1>2, <1>3, <1>4 DEF TypeOK, Known, Alive
<1>9. WorkingIsCurrent'
  BY <1>1, <1>2, <1>3, <1>4 DEF TypeOK, WorkingIsCurrent, InProgress
<1>10. InProgressIsHeld'
  BY <1>1, <1>2, <1>3, <1>4 DEF TypeOK, InProgressIsHeld, InProgress
<1>11. Listed'
  BY <1>1, <1>2, <1>3, <1>4 DEF TypeOK, Listed, InProgress
<1>12. RunsSound'
  BY <1>1, <1>2, <1>3, <1>4 DEF TypeOK, RunsSound
<1>13. ConfirmSound'
  BY <1>1, <1>2, <1>3, <1>4 DEF TypeOK, ConfirmSound
<1> QED BY <1>5, <1>6, <1>7, <1>8, <1>9, <1>10, <1>11, <1>12, <1>13

\* fail leaves a row of this attempt ended.
LEMMA FailKeeps ==
  ASSUME IInv, NEW j \in Jobs, Fail(j)
  PROVE  IInv'
PROOF
<1> USE DEF IInv
<1>1. UNCHANGED <<binding, event, call, mode, toRecover, toStop, stopper, runs, missed, lost,
                  requests, crashes, failures>>
  BY DEF Fail, store, tasks, service, history, bounds
<1>2. /\ exec' \in [Jobs -> Exec]
      /\ exec[j].at = "failing" /\ exec'[j].at = "ending" /\ exec'[j].attempt = exec[j].attempt
      /\ \A i \in Jobs : i # j => exec'[i] = exec[i]
  BY Moved DEF Fail, TypeOK, Places
<1>3. job' = [job EXCEPT ![j] = Failed(job[j], exec[j].attempt, exec[j].isCancelled)]
  BY DEF Fail
<1>4. \E row \in Row :
        /\ job' = [job EXCEPT ![j] = row] /\ row.attempt = job[j].attempt
        /\ \/ row = job[j] /\ (row.attempt # exec[j].attempt \/ row.status \in Terminal)
           \/ row.status \in {"cancelled", "failed"}
  <2>1. job[j] \in Row BY DEF TypeOK
  <2>2. Ended(job[j], "cancelled").status = "cancelled" /\ Ended(job[j], "failed").status = "failed"
    BY <2>1, EndedRow DEF Terminal
  <2> DEFINE row == Failed(job[j], exec[j].attempt, exec[j].isCancelled)
  <2>3. /\ row \in Row /\ row.attempt = job[j].attempt
        /\ \/ row = job[j] /\ (row.attempt # exec[j].attempt \/ row.status \in Terminal)
           \/ row \in {Ended(job[j], "cancelled"), Ended(job[j], "failed")}
    BY <2>1, FailedRow
  <2>4. job' = [job EXCEPT ![j] = row] BY <1>3
  <2> HIDE DEF row
  <2> QED BY <2>2, <2>3, <2>4
<1>5. job[j].status # "absent"
  BY <1>2 DEF Known, Alive
<1>6. TypeOK'
  BY <1>1, <1>2, <1>3, <1>4, <1>5, JobsAssumption DEF TypeOK
<1>7. CallsSound'
  <2>1. \A i \in Jobs : job'[i].status = "absent" <=> job[i].status = "absent"
    BY <1>4, <1>5 DEF TypeOK, Active, Terminal
  <2> QED BY <1>1, <2>1, CallsUnmoved
<1>8. Quiet'
  BY <1>1, <1>2, <1>3, <1>4, <1>5 DEF TypeOK, Quiet, Alive
<1>9. Known'
  BY <1>1, <1>2, <1>3, <1>4, <1>5 DEF TypeOK, Known, Alive
<1>10. WorkingIsCurrent'
  BY <1>1, <1>2, <1>3, <1>4, <1>5 DEF TypeOK, WorkingIsCurrent, InProgress
<1>11. InProgressIsHeld'
  BY <1>1, <1>2, <1>3, <1>4, <1>5 DEF TypeOK, InProgressIsHeld, InProgress, Terminal
<1>12. Listed'
  BY <1>1, <1>2, <1>3, <1>4, <1>5 DEF TypeOK, Listed, InProgress, Terminal
<1>13. RunsSound'
  BY <1>1, <1>2, <1>3, <1>4, <1>5 DEF TypeOK, RunsSound
<1>14. ConfirmSound'
  BY <1>1, <1>2, <1>3, <1>4, <1>5 DEF TypeOK, ConfirmSound
<1> QED BY <1>6, <1>7, <1>8, <1>9, <1>10, <1>11, <1>12, <1>13, <1>14

\* A write of the end that fails leaves the row to the next start.
LEMMA EndBreaksKeeps ==
  ASSUME IInv, NEW j \in Jobs, EndBreaks(j)
  PROVE  IInv'
PROOF
<1> USE DEF IInv
<1>1. UNCHANGED <<job, binding, event, call, mode, toRecover, toStop, stopper, runs, missed,
                  requests, crashes>>
  BY DEF EndBreaks, store, tasks, service, history, bounds, Breaks
<1>2. failures' \in 0 .. MaxFailures
  BY JobsAssumption DEF EndBreaks, Breaks, TypeOK
<1>3. /\ exec' \in [Jobs -> Exec]
      /\ exec[j].at \in {"returned", "failing"} /\ exec'[j].at = "ending" /\ exec'[j].attempt = exec[j].attempt
      /\ \A i \in Jobs : i # j => exec'[i] = exec[i]
  BY Moved DEF EndBreaks, TypeOK, Places
<1>4. lost' = lost \cup {j}
  BY DEF EndBreaks
<1>5. TypeOK'
  BY <1>1, <1>2, <1>3, <1>4, JobsAssumption DEF TypeOK
<1>6. Quiet'
  BY <1>1, <1>2, <1>3, <1>4 DEF TypeOK, Quiet, Alive
<1>7. Known'
  BY <1>1, <1>2, <1>3, <1>4 DEF TypeOK, Known, Alive
<1>8. WorkingIsCurrent'
  BY <1>1, <1>2, <1>3, <1>4 DEF TypeOK, WorkingIsCurrent, InProgress
<1>9. InProgressIsHeld'
  BY <1>1, <1>2, <1>3, <1>4 DEF TypeOK, InProgressIsHeld, InProgress
<1>10. RunsSound'
  BY <1>1, <1>2, <1>3, <1>4 DEF TypeOK, RunsSound
<1>11. ConfirmSound'
  BY <1>1, <1>2, <1>3, <1>4 DEF TypeOK, ConfirmSound
<1>12. CallsSound' /\ Listed'
  BY <1>1, <1>2, <1>3, <1>4 DEF CallsSound, CallSound, Listed, InProgress
<1> QED BY <1>5, <1>6, <1>7, <1>8, <1>9, <1>10, <1>11, <1>12

\* A task ends when its row has ended, or is lost.
LEMMA ExitKeeps ==
  ASSUME IInv, NEW j \in Jobs, Exit(j)
  PROVE  IInv'
PROOF
<1> USE DEF IInv
<1>1. UNCHANGED <<job, binding, call, mode, toRecover, toStop, stopper, runs, missed, lost,
                  requests, crashes, failures>>
  BY DEF Exit, store, tasks, service, history, bounds
<1>2. /\ exec[j].at = "ending" /\ exec' = [exec EXCEPT ![j] = NoExec]
      /\ NoExec \in Exec /\ NoExec.at = "none"
  BY DEF Exit, NoExec, Exec, Places
<1>3. event' \in [Jobs -> {"none", "clear", "set"}]
  BY DEF Exit, TypeOK
<1>4. TypeOK'
  BY <1>1, <1>2, <1>3, JobsAssumption DEF TypeOK
<1>5. Quiet'
  BY <1>1, <1>2, <1>3 DEF TypeOK, Quiet, Alive
<1>6. Known'
  BY <1>1, <1>2, <1>3 DEF TypeOK, Known, Alive
<1>7. WorkingIsCurrent'
  BY <1>1, <1>2, <1>3 DEF TypeOK, WorkingIsCurrent, InProgress
<1>8. InProgressIsHeld'
  BY <1>1, <1>2, <1>3 DEF TypeOK, InProgressIsHeld, InProgress
<1>9. RunsSound'
  BY <1>1, <1>2, <1>3 DEF TypeOK, RunsSound
<1>10. ConfirmSound'
  BY <1>1, <1>2, <1>3 DEF TypeOK, ConfirmSound
<1>11. CallsSound' /\ Listed'
  BY <1>1, <1>2, <1>3 DEF CallsSound, CallSound, Listed, InProgress
<1> QED BY <1>4, <1>5, <1>6, <1>7, <1>8, <1>9, <1>10, <1>11

\* A bound upload is published.
LEMMA ConfirmKeeps ==
  ASSUME IInv, NEW j \in Jobs, Confirm(j)
  PROVE  IInv'
PROOF
<1> USE DEF IInv
<1>1. UNCHANGED <<job, exec, event, call, mode, toRecover, toStop, stopper, runs, missed, lost,
                  requests, crashes, failures>>
  BY DEF Confirm, store, tasks, service, history, bounds
<1>2. binding[j] = "bound" /\ binding' = [binding EXCEPT ![j] = "confirmed"]
  BY DEF Confirm
<1>3. TypeOK'
  BY <1>1, <1>2, JobsAssumption DEF TypeOK
<1>4. ConfirmSound'
  BY <1>1, <1>2 DEF TypeOK, ConfirmSound
<1>5. CallsSound' /\ Quiet' /\ Known' /\ WorkingIsCurrent' /\ InProgressIsHeld' /\ Listed' /\ RunsSound'
  BY <1>1, <1>2 DEF CallsSound, CallSound, Quiet, Alive, Known, WorkingIsCurrent, InProgress,
     InProgressIsHeld, Listed, RunsSound
<1> QED BY <1>3, <1>4, <1>5

\* Only a binding that is not confirmed is taken away.
LEMMA ClaimAgainKeeps ==
  ASSUME IInv, NEW j \in Jobs, ClaimAgain(j)
  PROVE  IInv'
PROOF
<1> USE DEF IInv
<1>1. UNCHANGED <<job, exec, event, call, mode, toRecover, toStop, stopper, runs, missed, lost,
                  requests, crashes, failures>>
  BY DEF ClaimAgain, store, tasks, service, history, bounds
<1>2. binding[j] = "bound" /\ binding' = [binding EXCEPT ![j] = "none"]
  BY DEF ClaimAgain
<1>3. TypeOK'
  BY <1>1, <1>2, JobsAssumption DEF TypeOK
<1>4. ConfirmSound'
  BY <1>1, <1>2 DEF TypeOK, ConfirmSound
<1>5. CallsSound' /\ Quiet' /\ Known' /\ WorkingIsCurrent' /\ InProgressIsHeld' /\ Listed' /\ RunsSound'
  BY <1>1, <1>2 DEF CallsSound, CallSound, Quiet, Alive, Known, WorkingIsCurrent, InProgress,
     InProgressIsHeld, Listed, RunsSound
<1> QED BY <1>3, <1>4, <1>5

\* The start lists what is in progress.
LEMMA StartKeeps ==
  ASSUME IInv, Start
  PROVE  IInv'
PROOF
<1> USE DEF IInv
<1>1. UNCHANGED <<job, binding, exec, event, call, toStop, stopper, runs, missed, lost, requests,
                  crashes, failures>>
  BY DEF Start, store, tasks, service, history, bounds
<1>2. mode = "down" /\ mode' = "starting" /\ toRecover' = {j \in Jobs : job[j].status \in Active}
  BY DEF Start
<1>3. TypeOK'
  BY <1>1, <1>2, JobsAssumption DEF TypeOK, Modes
<1>4. Quiet'
  BY <1>1, <1>2 DEF TypeOK, Quiet, Alive
<1>5. InProgressIsHeld'
  BY <1>1, <1>2 DEF TypeOK, InProgressIsHeld, InProgress
<1>6. Listed'
  BY <1>1, <1>2 DEF TypeOK, Listed, InProgress, Active
<1>7. CallsSound' /\ Known' /\ WorkingIsCurrent' /\ RunsSound' /\ ConfirmSound'
  BY <1>1, <1>2 DEF CallsSound, CallSound, Known, Alive, WorkingIsCurrent, InProgress, RunsSound,
     ConfirmSound
<1> QED BY <1>3, <1>4, <1>5, <1>6, <1>7

\* Recovery ends what was in progress, an upload as its binding says.
LEMMA RecoverKeeps ==
  ASSUME IInv, NEW j \in Jobs, Recover(j)
  PROVE  IInv'
PROOF
<1> USE DEF IInv
<1>1. UNCHANGED <<binding, exec, event, call, mode, toStop, stopper, runs, missed, requests,
                  crashes, failures>>
  BY DEF Recover, store, tasks, service, history, bounds
<1>2. /\ mode = "starting" /\ toRecover' = toRecover \ {j} /\ lost' = lost \ {j}
      /\ job' = [job EXCEPT ![j] = Recovered(job[j], j \in Cancellable, binding[j] = "confirmed")]
  BY DEF Recover
<1>3. \E row \in Row :
        /\ job' = [job EXCEPT ![j] = row]
        /\ row.status \notin {"running", "cancelling"} /\ (row.status = "absent" <=> job[j].status = "absent")
        /\ j \notin Cancellable =>
             /\ row.status = "queued" => job[j].status = "queued"
             /\ row.status = "succeeded" => job[j].status = "succeeded" \/ binding[j] = "confirmed"
  <2>1. job[j] \in Row /\ job[j].status \in {"absent"} \cup Active \cup Terminal BY DEF TypeOK, Row
  <2>2. \A s \in Active \cup Terminal : Ended(job[j], s).status = s BY <2>1, EndedRow
  <2>3. NextAttempt(job[j]).status = "queued" BY <2>1, NextRow
  <2> DEFINE row == Recovered(job[j], j \in Cancellable, binding[j] = "confirmed")
  <2>4. /\ row \in Row
        /\ job[j].status \notin {"running", "cancelling"} => row = job[j]
        /\ job[j].status = "cancelling" => row.status = "cancelled"
        /\ job[j].status = "running" /\ j \in Cancellable => row.status = "queued"
        /\ job[j].status = "running" /\ j \notin Cancellable =>
             row.status = IF binding[j] = "confirmed" THEN "succeeded" ELSE "failed"
    <3>1. CASE job[j].status = "cancelling" BY <3>1, <2>1, <2>2, EndedRow DEF Recovered, Active, Terminal
    <3>2. CASE job[j].status = "running" /\ j \in Cancellable BY <3>2, <2>1, <2>3, NextRow DEF Recovered
    <3>3. CASE job[j].status = "running" /\ j \notin Cancellable
      BY <3>3, <2>1, <2>2, EndedRow DEF Recovered, Active, Terminal
    <3>4. CASE job[j].status \notin {"running", "cancelling"} BY <3>4, <2>1 DEF Recovered
    <3> QED BY <3>1, <3>2, <3>3, <3>4
  <2>5. job' = [job EXCEPT ![j] = row] BY <1>2
  <2> HIDE DEF row
  <2>6. /\ row.status \notin {"running", "cancelling"} /\ (row.status = "absent" <=> job[j].status = "absent")
        /\ j \notin Cancellable =>
             /\ row.status = "queued" => job[j].status = "queued"
             /\ row.status = "succeeded" => job[j].status = "succeeded" \/ binding[j] = "confirmed"
    BY <2>1, <2>4 DEF Active, Terminal
  <2> QED BY <2>4, <2>5, <2>6
<1>4. \A i \in Jobs : exec[i].at = "none"
  BY <1>2 DEF Quiet, Alive
<1>5. TypeOK'
  BY <1>1, <1>2, <1>3, <1>4, JobsAssumption DEF TypeOK
<1>6. CallsSound'
  <2>1. \A i \in Jobs : job'[i].status = "absent" <=> job[i].status = "absent"
    BY <1>3 DEF TypeOK, Active, Terminal
  <2> QED BY <1>1, <2>1, CallsUnmoved
<1>7. Quiet'
  BY <1>1, <1>2, <1>3, <1>4 DEF TypeOK, Quiet, Alive
<1>8. Known'
  BY <1>1, <1>2, <1>3, <1>4 DEF TypeOK, Known, Alive
<1>9. WorkingIsCurrent'
  BY <1>1, <1>2, <1>3, <1>4 DEF TypeOK, WorkingIsCurrent, InProgress
<1>10. InProgressIsHeld'
  BY <1>1, <1>2, <1>3, <1>4 DEF TypeOK, InProgressIsHeld, InProgress
<1>11. Listed'
  BY <1>1, <1>2, <1>3, <1>4 DEF TypeOK, Listed, InProgress
<1>12. RunsSound'
  BY <1>1, <1>2, <1>3, <1>4 DEF TypeOK, RunsSound
<1>13. ConfirmSound'
  BY <1>1, <1>2, <1>3, <1>4 DEF TypeOK, ConfirmSound
<1> QED BY <1>5, <1>6, <1>7, <1>8, <1>9, <1>10, <1>11, <1>12, <1>13

\* After recovery nothing is in progress; what is queued gets a task.
LEMMA StartedKeeps ==
  ASSUME IInv, Started
  PROVE  IInv'
PROOF
<1> USE DEF IInv
<1>1. UNCHANGED <<job, binding, event, call, toRecover, toStop, stopper, runs, lost, requests,
                  crashes, failures>>
  BY DEF Started, store, tasks, service, history, bounds
<1>2. /\ mode = "starting" /\ mode' = "up" /\ toRecover = {} /\ missed' = {}
      /\ exec' = [j \in Jobs |-> IF job[j].status = "queued" THEN Created(job[j].attempt) ELSE NoExec]
  BY DEF Started
<1>3. /\ NoExec \in Exec /\ NoExec.at = "none"
      /\ \A j \in Jobs : Created(job[j].attempt) \in Exec /\ Created(job[j].attempt).at = "waiting"
  BY DEF NoExec, Created, Exec, Places, Row, TypeOK
<1>4. \A j \in Jobs : ~InProgress(j)
  BY <1>2 DEF Listed
<1>5. TypeOK'
  BY <1>1, <1>2, <1>3, <1>4, JobsAssumption DEF TypeOK, Modes
<1>6. Quiet'
  BY <1>1, <1>2, <1>3, <1>4 DEF TypeOK, Quiet, Alive
<1>7. Known'
  BY <1>1, <1>2, <1>3, <1>4 DEF TypeOK, Known, Alive
<1>8. WorkingIsCurrent'
  BY <1>1, <1>2, <1>3, <1>4 DEF TypeOK, WorkingIsCurrent, InProgress
<1>9. InProgressIsHeld'
  BY <1>1, <1>2, <1>3, <1>4 DEF TypeOK, InProgressIsHeld, InProgress
<1>10. Listed'
  BY <1>1, <1>2, <1>3, <1>4 DEF TypeOK, Listed, InProgress
<1>11. RunsSound'
  BY <1>1, <1>2, <1>3, <1>4 DEF TypeOK, RunsSound
<1>12. ConfirmSound'
  BY <1>1, <1>2, <1>3, <1>4 DEF TypeOK, ConfirmSound
<1>13. CallsSound'
  BY <1>1, <1>2, <1>3, <1>4 DEF CallsSound, CallSound
<1> QED BY <1>5, <1>6, <1>7, <1>8, <1>9, <1>10, <1>11, <1>12, <1>13

\* A stop that is asked for changes no record and no task.
LEMMA RequestStopKeeps ==
  ASSUME IInv, RequestStop
  PROVE  IInv'
PROOF
<1> USE DEF IInv
<1>1. UNCHANGED <<job, binding, exec, call, toRecover, toStop, stopper, runs, missed, lost,
                  crashes, failures>>
  BY DEF RequestStop, store, tasks, service, history, bounds, Asked
<1>2. requests' \in 0 .. MaxRequests
  BY JobsAssumption DEF RequestStop, Asked, TypeOK
<1>3. mode = "up" /\ mode' = "stopping" /\ event' \in [Jobs -> {"none", "clear", "set"}]
  BY DEF RequestStop, TypeOK
<1>4. TypeOK'
  BY <1>1, <1>2, <1>3, JobsAssumption DEF TypeOK, Modes
<1>5. Quiet'
  BY <1>1, <1>2, <1>3 DEF TypeOK, Quiet, Alive
<1>6. InProgressIsHeld'
  BY <1>1, <1>2, <1>3 DEF TypeOK, InProgressIsHeld, InProgress
<1>7. Listed'
  BY <1>1, <1>2, <1>3 DEF TypeOK, Listed, InProgress
<1>8. CallsSound' /\ Known' /\ WorkingIsCurrent' /\ RunsSound' /\ ConfirmSound'
  BY <1>1, <1>2, <1>3 DEF CallsSound, CallSound, Known, Alive, WorkingIsCurrent, InProgress,
     RunsSound, ConfirmSound
<1> QED BY <1>4, <1>5, <1>6, <1>7, <1>8

\* Nor does the list of the tasks.
LEMMA BeginCloseKeeps ==
  ASSUME IInv, BeginClose
  PROVE  IInv'
PROOF
<1> USE DEF IInv
<1>1. UNCHANGED <<job, binding, exec, event, call, toRecover, stopper, runs, missed, lost,
                  requests, crashes, failures>>
  BY DEF BeginClose, store, tasks, service, history, bounds
<1>2. mode = "stopping" /\ mode' = "closing" /\ toStop' \subseteq Jobs
  BY DEF BeginClose
<1>3. TypeOK'
  BY <1>1, <1>2, JobsAssumption DEF TypeOK, Modes
<1>4. Quiet'
  BY <1>1, <1>2 DEF TypeOK, Quiet, Alive
<1>5. InProgressIsHeld'
  BY <1>1, <1>2 DEF TypeOK, InProgressIsHeld, InProgress
<1>6. Listed'
  BY <1>1, <1>2 DEF TypeOK, Listed, InProgress
<1>7. CallsSound' /\ Known' /\ WorkingIsCurrent' /\ RunsSound' /\ ConfirmSound'
  BY <1>1, <1>2 DEF CallsSound, CallSound, Known, Alive, WorkingIsCurrent, InProgress, RunsSound,
     ConfirmSound
<1> QED BY <1>3, <1>4, <1>5, <1>6, <1>7

\* Nor does a visit.
LEMMA VisitKeeps ==
  ASSUME IInv, NEW j \in Jobs, Visit(j)
  PROVE  IInv'
PROOF
<1> USE DEF IInv
<1>1. UNCHANGED <<job, binding, exec, event, call, mode, toRecover, runs, missed, lost, requests,
                  crashes, failures>>
  BY DEF Visit, store, tasks, service, history, bounds
<1>2. toStop' \subseteq Jobs /\ stopper' \in Jobs \cup {NoJob}
  BY DEF Visit, TypeOK
<1>3. TypeOK'
  BY <1>1, <1>2, JobsAssumption DEF TypeOK
<1>4. CallsSound' /\ Quiet' /\ Known' /\ WorkingIsCurrent' /\ InProgressIsHeld' /\ Listed'
      /\ RunsSound' /\ ConfirmSound'
  BY <1>1, <1>2 DEF CallsSound, CallSound, Quiet, Alive, Known, WorkingIsCurrent, InProgress,
     InProgressIsHeld, Listed, RunsSound, ConfirmSound
<1> QED BY <1>3, <1>4

\* The stop cancels what runs, as a person would.
LEMMA StopCancelKeeps ==
  ASSUME IInv, StopCancel
  PROVE  IInv'
PROOF
<1> USE DEF IInv
<1>1. UNCHANGED <<binding, exec, call, mode, toRecover, toStop, runs, missed, lost, requests,
                  crashes, failures>>
  BY DEF StopCancel, store, tasks, service, history, bounds
<1>2. event' \in [Jobs -> {"none", "clear", "set"}] /\ stopper' = NoJob
  BY DEF StopCancel, Signalled, TypeOK
<1>3. \/ UNCHANGED job
      \/ \E j \in Jobs : job[j].status \in Active /\ job' = [job EXCEPT ![j] = Cancelled(job[j])]
  BY DEF StopCancel, MayCancel, TypeOK
<1>4. \A j \in Jobs :
        /\ Cancelled(job[j]) \in Row /\ Cancelled(job[j]).attempt = job[j].attempt
        /\ Cancelled(job[j]).status = IF job[j].status = "queued" THEN "cancelled" ELSE "cancelling"
  BY CancelledRow DEF TypeOK
<1>5. TypeOK'
  BY <1>1, <1>2, <1>3, <1>4, JobsAssumption DEF TypeOK
<1>6. CallsSound'
  <2>1. \A i \in Jobs : job'[i].status = "absent" <=> job[i].status = "absent"
    BY <1>3, <1>4 DEF TypeOK, Active, Terminal
  <2> QED BY <1>1, <2>1, CallsUnmoved
<1>7. Quiet'
  BY <1>1, <1>2, <1>3, <1>4 DEF TypeOK, Quiet, Alive
<1>8. Known'
  BY <1>1, <1>2, <1>3, <1>4 DEF TypeOK, Known, Alive, Active
<1>9. WorkingIsCurrent'
  BY <1>1, <1>2, <1>3, <1>4 DEF TypeOK, WorkingIsCurrent, InProgress, Active
<1>10. InProgressIsHeld'
  BY <1>1, <1>2, <1>3, <1>4 DEF TypeOK, InProgressIsHeld, InProgress, Active
<1>11. Listed'
  BY <1>1, <1>2, <1>3, <1>4 DEF TypeOK, Listed, InProgress, Active
<1>12. RunsSound'
  BY <1>1, <1>2, <1>3, <1>4 DEF TypeOK, RunsSound
<1>13. ConfirmSound'
  BY <1>1, <1>2, <1>3, <1>4 DEF TypeOK, ConfirmSound
<1> QED BY <1>5, <1>6, <1>7, <1>8, <1>9, <1>10, <1>11, <1>12, <1>13

\* The manager closes when no task is left.
LEMMA CloseKeeps ==
  ASSUME IInv, Close
  PROVE  IInv'
PROOF
<1> USE DEF IInv
<1>1. UNCHANGED <<job, binding, exec, event, call, toRecover, toStop, stopper, runs, missed,
                  lost, requests, crashes, failures>>
  BY DEF Close, store, tasks, service, history, bounds
<1>2. mode = "closing" /\ mode' = "closed" /\ \A j \in Jobs : ~Alive(j)
  BY DEF Close
<1>3. TypeOK'
  BY <1>1, <1>2, JobsAssumption DEF TypeOK, Modes
<1>4. Quiet'
  BY <1>1, <1>2 DEF TypeOK, Quiet, Alive
<1>5. InProgressIsHeld'
  BY <1>1, <1>2 DEF TypeOK, InProgressIsHeld, InProgress
<1>6. Listed'
  BY <1>1, <1>2 DEF TypeOK, Listed, InProgress
<1>7. CallsSound' /\ Known' /\ WorkingIsCurrent' /\ RunsSound' /\ ConfirmSound'
  BY <1>1, <1>2 DEF CallsSound, CallSound, Known, Alive, WorkingIsCurrent, InProgress, RunsSound,
     ConfirmSound
<1> QED BY <1>3, <1>4, <1>5, <1>6, <1>7

\* The process ends after a stop: the records stay.
LEMMA LeaveKeeps ==
  ASSUME IInv, Leave
  PROVE  IInv'
PROOF
<1> USE DEF IInv
<1>1. UNCHANGED <<job, binding, runs, missed, lost, requests, crashes, failures>>
  BY DEF Leave, store, tasks, service, history, bounds, Gone
<1>2. crashes' \in 0 .. MaxCrashes
  BY JobsAssumption DEF Leave, TypeOK, bounds
<1>3. /\ mode' = "down" /\ exec' = [j \in Jobs |-> NoExec] /\ call' = [c \in Callers |-> NoCall]
      /\ event' = [j \in Jobs |-> "none"] /\ toRecover' = {} /\ toStop' = {} /\ stopper' = NoJob
  BY DEF Leave, Gone
<1>4. NoExec \in Exec /\ NoExec.at = "none" /\ NoCall \in Call /\ NoCall.at = "idle"
  BY DEF NoExec, Exec, Places, NoCall, Call
<1>5. TypeOK'
  BY <1>1, <1>2, <1>3, <1>4, JobsAssumption DEF TypeOK, Modes
<1>6. CallsSound'
  BY <1>1, <1>2, <1>3, <1>4 DEF TypeOK, CallsSound, CallSound
<1>7. Quiet'
  BY <1>1, <1>2, <1>3, <1>4 DEF TypeOK, Quiet, Alive
<1>8. Known'
  BY <1>1, <1>2, <1>3, <1>4 DEF TypeOK, Known, Alive
<1>9. WorkingIsCurrent'
  BY <1>1, <1>2, <1>3, <1>4 DEF TypeOK, WorkingIsCurrent, InProgress
<1>10. InProgressIsHeld'
  BY <1>1, <1>2, <1>3, <1>4 DEF TypeOK, InProgressIsHeld, InProgress
<1>11. Listed'
  BY <1>1, <1>2, <1>3, <1>4 DEF TypeOK, Listed, InProgress
<1>12. RunsSound'
  BY <1>1, <1>2, <1>3, <1>4 DEF TypeOK, RunsSound
<1>13. ConfirmSound'
  BY <1>1, <1>2, <1>3, <1>4 DEF TypeOK, ConfirmSound
<1> QED BY <1>5, <1>6, <1>7, <1>8, <1>9, <1>10, <1>11, <1>12, <1>13

\* It ends in the middle of something: the records stay.
LEMMA CrashKeeps ==
  ASSUME IInv, Crash
  PROVE  IInv'
PROOF
<1> USE DEF IInv
<1>1. UNCHANGED <<job, binding, runs, missed, lost, requests, failures>>
  BY DEF Crash, store, tasks, service, history, bounds, Gone
<1>2. crashes' \in 0 .. MaxCrashes
  BY JobsAssumption DEF Crash, TypeOK, bounds
<1>3. /\ mode' = "down" /\ exec' = [j \in Jobs |-> NoExec] /\ call' = [c \in Callers |-> NoCall]
      /\ event' = [j \in Jobs |-> "none"] /\ toRecover' = {} /\ toStop' = {} /\ stopper' = NoJob
  BY DEF Crash, Gone
<1>4. NoExec \in Exec /\ NoExec.at = "none" /\ NoCall \in Call /\ NoCall.at = "idle"
  BY DEF NoExec, Exec, Places, NoCall, Call
<1>5. TypeOK'
  BY <1>1, <1>2, <1>3, <1>4, JobsAssumption DEF TypeOK, Modes
<1>6. CallsSound'
  BY <1>1, <1>2, <1>3, <1>4 DEF TypeOK, CallsSound, CallSound
<1>7. Quiet'
  BY <1>1, <1>2, <1>3, <1>4 DEF TypeOK, Quiet, Alive
<1>8. Known'
  BY <1>1, <1>2, <1>3, <1>4 DEF TypeOK, Known, Alive
<1>9. WorkingIsCurrent'
  BY <1>1, <1>2, <1>3, <1>4 DEF TypeOK, WorkingIsCurrent, InProgress
<1>10. InProgressIsHeld'
  BY <1>1, <1>2, <1>3, <1>4 DEF TypeOK, InProgressIsHeld, InProgress
<1>11. Listed'
  BY <1>1, <1>2, <1>3, <1>4 DEF TypeOK, Listed, InProgress
<1>12. RunsSound'
  BY <1>1, <1>2, <1>3, <1>4 DEF TypeOK, RunsSound
<1>13. ConfirmSound'
  BY <1>1, <1>2, <1>3, <1>4 DEF TypeOK, ConfirmSound
<1> QED BY <1>5, <1>6, <1>7, <1>8, <1>9, <1>10, <1>11, <1>12, <1>13

-----------------------------------------------------------------------------
\* Every step.

LEMMA InitHolds == Init => IInv
PROOF
<1> SUFFICES ASSUME Init PROVE IInv OBVIOUS
<1>1. NoRow \in Row /\ NoRow.status = "absent" BY DEF NoRow, Row
<1>2. NoExec \in Exec /\ NoExec.at = "none" BY DEF NoExec, Exec, Places
<1>3. NoCall \in Call /\ NoCall.at = "idle" BY DEF NoCall, Call
<1>4. TypeOK BY <1>1, <1>2, <1>3, JobsAssumption DEF Init, TypeOK, Modes
<1>5. CallsSound /\ Quiet /\ Known BY <1>2, <1>3 DEF Init, CallsSound, CallSound, Quiet, Known, Alive
<1>6. WorkingIsCurrent /\ InProgressIsHeld /\ Listed
  BY <1>1, <1>2 DEF Init, WorkingIsCurrent, InProgressIsHeld, Listed, InProgress
<1>7. RunsSound /\ ConfirmSound BY <1>1, <1>2, JobsAssumption DEF Init, RunsSound, ConfirmSound
<1> QED BY <1>4, <1>5, <1>6, <1>7 DEF IInv

LEMMA StepKeeps == IInv /\ [Next]_vars => IInv'
PROOF
<1> SUFFICES ASSUME IInv, [Next]_vars PROVE IInv' OBVIOUS
<1>1. ASSUME NEW c \in Callers, CallStep(c) PROVE IInv'
  BY <1>1, RegisterKeeps, ScheduleKeeps, RetryKeeps, SignalKeeps DEF CallStep
<1>2. ASSUME NEW c \in Callers, NEW j \in Jobs, Enqueue(c, j) \/ AskRetry(c, j) \/ Cancel(c, j) PROVE IInv'
  BY <1>2, EnqueueKeeps, AskRetryKeeps, CancelKeeps
<1>3. ASSUME NEW j \in Jobs, TaskStep(j) PROVE IInv'
  BY <1>3, ClaimKeeps, BeginKeeps, ReturnKeeps, NoticeKeeps, RaiseKeeps, FinishKeeps, FailKeeps, ExitKeeps
     DEF TaskStep
<1>4. ASSUME NEW j \in Jobs, Acquire(j) \/ ClaimBreaks(j) \/ EndBreaks(j) PROVE IInv'
  BY <1>4, AcquireKeeps, ClaimBreaksKeeps, EndBreaksKeeps
<1>5. ASSUME NEW j \in Jobs, Publish(j) \/ Bind(j) \/ Confirm(j) \/ ClaimAgain(j) PROVE IInv'
  BY <1>5, PublishKeeps, BindKeeps, ConfirmKeeps, ClaimAgainKeeps
<1>6. ASSUME Starting \/ RequestStop PROVE IInv'
  BY <1>6, StartKeeps, RecoverKeeps, StartedKeeps, RequestStopKeeps DEF Starting
<1>7. ASSUME Closing \/ Crash PROVE IInv'
  BY <1>7, BeginCloseKeeps, VisitKeeps, StopCancelKeeps, CloseKeeps, LeaveKeeps,
     CrashKeeps DEF Closing
<1>8. CASE UNCHANGED vars
  <2>1. UNCHANGED <<job, binding, exec, event, call, mode, toRecover, toStop, stopper, runs, missed, lost,
                    requests, crashes, failures>>
    BY <1>8 DEF vars, store, tasks, service, history, bounds
  <2> QED BY <2>1 DEF IInv, TypeOK, CallsSound, CallSound, Quiet, Known, Alive, WorkingIsCurrent,
                      InProgressIsHeld, InProgress, Listed, RunsSound, ConfirmSound
<1> QED BY <1>1, <1>2, <1>3, <1>4, <1>5, <1>6, <1>7, <1>8 DEF Next

\* What a step may make of the record of one job.
Stands(j) ==
  /\ job[j].status = "succeeded" => job'[j] = job[j]
  /\ job[j].status \in {"failed", "cancelled"} => job'[j] \in {job[j], NextAttempt(job[j])}
  /\ job[j].status = "cancelling" => job'[j] \in {job[j], Ended(job[j], "cancelled")}

\* A record that is written was waiting or in progress, but for a retry; in
\* cancellation only the end as cancelled is written.
LEMMA Written ==
  ASSUME TypeOK, NEW j \in Jobs, NEW row,
         job' = [job EXCEPT ![j] = row],
         \/ job[j].status \in {"absent", "queued", "running"}
         \/ row = job[j]
         \/ job[j].status \in {"failed", "cancelled"} /\ row = NextAttempt(job[j])
         \/ job[j].status = "cancelling" /\ row = Ended(job[j], "cancelled")
  PROVE  \A i \in Jobs : Stands(i)
PROOF
<1> SUFFICES ASSUME NEW i \in Jobs PROVE Stands(i) OBVIOUS
<1>1. CASE i # j BY <1>1 DEF Stands, TypeOK
<1>2. CASE i = j BY <1>2 DEF Stands, TypeOK
<1> QED BY <1>1, <1>2

LEMMA RecordsStand ==
  ASSUME IInv, [Next]_vars
  PROVE  \A j \in Jobs : Stands(j)
PROOF
<1> USE DEF IInv
<1>0. ASSUME UNCHANGED job PROVE \A j \in Jobs : Stands(j) BY <1>0 DEF Stands
<1>1. ASSUME NEW c \in Callers, Register(c) PROVE \A j \in Jobs : Stands(j)
  <2>1. call[c].job \in Jobs /\ job[call[c].job].status = "absent"
    BY <1>1 DEF Register, CallsSound, CallSound
  <2>2. UNCHANGED job \/ job' = [job EXCEPT ![call[c].job] = FirstRow] BY <1>1 DEF Register, store
  <2> QED BY <2>1, <2>2, <1>0, Written
<1>2. ASSUME NEW c \in Callers, Retry(c) PROVE \A j \in Jobs : Stands(j)
  <2>1. call[c].job \in Jobs BY <1>2 DEF Retry, CallsSound, CallSound
  <2>2. \/ UNCHANGED job
        \/ /\ job[call[c].job].status \in {"failed", "cancelled"}
           /\ job' = [job EXCEPT ![call[c].job] = NextAttempt(job[call[c].job])]
    BY <1>2 DEF Retry, MayRetry, store
  <2> QED BY <2>1, <2>2, <1>0, Written
<1>3. ASSUME NEW j \in Jobs, MayCancel(job[j], TRUE), job' = [job EXCEPT ![j] = Cancelled(job[j])]
      PROVE  \A i \in Jobs : Stands(i)
  <2>1. job[j] \in Row BY DEF TypeOK
  <2>2. CASE job[j].status = "cancelling"
    <3>1. Ended(job[j], "cancelling") = job[j] BY <2>1, <2>2 DEF Ended, Row
    <3> QED BY <1>3, <2>2, <3>1, Written DEF Cancelled
  <2>3. CASE job[j].status \in {"queued", "running"} BY <1>3, <2>3, Written
  <2> QED BY <1>3, <2>2, <2>3 DEF MayCancel, Active
<1>4. ASSUME NEW c \in Callers, NEW j \in Jobs, Cancel(c, j) PROVE \A i \in Jobs : Stands(i)
  BY <1>3, <1>4 DEF Cancel, MayCancel
<1>5. ASSUME StopCancel PROVE \A j \in Jobs : Stands(j)
  BY <1>0, <1>3, <1>5 DEF StopCancel, TypeOK
<1>6. ASSUME NEW j \in Jobs, Claim(j) PROVE \A i \in Jobs : Stands(i)
  <2>1. \/ UNCHANGED job
        \/ job[j].status = "queued" /\ job' = [job EXCEPT ![j] = [job[j] EXCEPT !.status = "running"]]
    BY <1>6 DEF Claim, IsIn
  <2> QED BY <2>1, <1>0, Written
<1>7. ASSUME NEW j \in Jobs, Publish(j) \/ Finish(j) PROVE \A i \in Jobs : Stands(i)
  <2>1. \/ UNCHANGED job
        \/ job[j].status = "running" /\ job' = [job EXCEPT ![j] = Ended(job[j], "succeeded")]
    BY <1>7 DEF Publish, Finish, IsIn
  <2> QED BY <2>1, <1>0, Written
<1>8. ASSUME NEW j \in Jobs, Fail(j) PROVE \A i \in Jobs : Stands(i)
  <2> DEFINE row == Failed(job[j], exec[j].attempt, exec[j].isCancelled)
  <2>1. job[j] \in Row BY DEF TypeOK
  <2>2. job[j].status \in {"absent", "queued", "running", "cancelling"} \cup Terminal
    BY <2>1 DEF Row, Active
  <2>3. /\ job[j].status \in Terminal => row = job[j]
        /\ job[j].status = "cancelling" => row = job[j] \/ row = Ended(job[j], "cancelled")
    BY <2>1, FailedRow
  <2>4. job' = [job EXCEPT ![j] = row] BY <1>8 DEF Fail
  <2> HIDE DEF row
  <2> QED BY <2>2, <2>3, <2>4, Written
<1>9. ASSUME NEW j \in Jobs, Recover(j) PROVE \A i \in Jobs : Stands(i)
  <2> DEFINE row == Recovered(job[j], j \in Cancellable, binding[j] = "confirmed")
  <2>1. job[j] \in Row BY DEF TypeOK
  <2>2. /\ job[j].status \notin {"running", "cancelling"} => row = job[j]
        /\ job[j].status = "cancelling" => row = Ended(job[j], "cancelled")
    BY DEF Recovered
  <2>3. job' = [job EXCEPT ![j] = row] BY <1>9 DEF Recover
  <2> HIDE DEF row
  <2> QED BY <2>2, <2>3, Written
<1>10. ASSUME NEW c \in Callers, NEW j \in Jobs,
              Schedule(c) \/ Signal(c) \/ Enqueue(c, j) \/ AskRetry(c, j) PROVE UNCHANGED job
  BY <1>10 DEF Schedule, Signal, Enqueue, AskRetry, store
<1>11. ASSUME NEW c \in Callers, Schedule(c) \/ Signal(c) PROVE UNCHANGED job
  BY <1>11 DEF Schedule, Signal, store
<1>12. ASSUME NEW j \in Jobs,
              \/ Acquire(j) \/ ClaimBreaks(j) \/ Begin(j) \/ Return(j) \/ Notice(j) \/ Raise(j)
              \/ EndBreaks(j) \/ Exit(j) \/ Bind(j) \/ Confirm(j) \/ ClaimAgain(j) \/ Visit(j)
       PROVE  UNCHANGED job
  BY <1>12 DEF Acquire, ClaimBreaks, Begin, Return, Notice, Raise, EndBreaks, Exit, Bind, Confirm,
               ClaimAgain, Visit, store
<1>13. ASSUME Start \/ Started \/ RequestStop \/ BeginClose \/ Close \/ Leave \/ Crash \/ UNCHANGED vars
       PROVE  UNCHANGED job
  BY <1>13 DEF Start, Started, RequestStop, BeginClose, Close, Leave, Crash, Gone, vars, store
<1>14. ASSUME NEW c \in Callers, CallStep(c) PROVE \A j \in Jobs : Stands(j)
  BY <1>14, <1>0, <1>1, <1>2, <1>11 DEF CallStep
<1>15. ASSUME NEW j \in Jobs, TaskStep(j) PROVE \A i \in Jobs : Stands(i)
  BY <1>15, <1>0, <1>6, <1>7, <1>8, <1>12 DEF TaskStep
<1> QED BY <1>0, <1>4, <1>5, <1>7, <1>9, <1>10, <1>12, <1>13, <1>14, <1>15 DEF Next, Starting, Closing
-----------------------------------------------------------------------------
\* The theorems.

\* The invariant the others follow from.
THEOREM Invariance == Spec => []IInv
PROOF BY InitHolds, StepKeeps, PTL DEF Spec

\* Records, tasks, events and requests keep their types.
THEOREM TypeCorrect == Spec => []TypeOK
PROOF
<1>1. IInv => TypeOK BY DEF IInv
<1> QED BY <1>1, Invariance, PTL

\* An execution whose handler may run is the one its record names, whatever
\* requests, stops and restarts come between.
THEOREM OnlyTheCurrentAttemptWorks == Spec => []WorkingIsCurrent
PROOF
<1>1. IInv => WorkingIsCurrent BY DEF IInv
<1> QED BY <1>1, Invariance, PTL

\* A record in progress has the task that ends it, unless the write of its end
\* has failed.
THEOREM ProgressIsHeld == Spec => []InProgressIsHeld
PROOF
<1>1. IInv => InProgressIsHeld BY DEF IInv
<1> QED BY <1>1, Invariance, PTL

\* An upload is started at most once for each time it is asked for.
THEOREM NoUploadRunsTwice == Spec => []UploadsRunOnce
PROOF
<1>1. IInv => UploadsRunOnce BY DEF IInv, RunsSound, UploadsRunOnce
<1> QED BY <1>1, Invariance, PTL

\* An upload job that has succeeded is bound to a publication that is confirmed.
THEOREM SuccessMeansPublished == Spec => []SuccessIsConfirmed
PROOF
<1>1. IInv => SuccessIsConfirmed BY DEF IInv, ConfirmSound, SuccessIsConfirmed
<1> QED BY <1>1, Invariance, PTL

\* A success is final, a failure or a cancellation is left only for a new
\* attempt, and what is being cancelled ends cancelled or stays.
THEOREM RecordsOfOutcomesStand == Spec => OutcomesStand
PROOF
<1>1. ASSUME IInv, [Next]_vars
      PROVE  \A j \in Jobs :
               /\ job[j].status = "succeeded" => job'[j] = job[j]
               /\ job[j].status \in {"failed", "cancelled"} => job'[j] \in {job[j], NextAttempt(job[j])}
               /\ job[j].status = "cancelling" => job'[j] \in {job[j], Ended(job[j], "cancelled")}
  BY <1>1, RecordsStand DEF Stands
<1>2. IInv /\ [Next]_vars =>
        [\A j \in Jobs :
           /\ job[j].status = "succeeded" => job'[j] = job[j]
           /\ job[j].status \in {"failed", "cancelled"} => job'[j] \in {job[j], NextAttempt(job[j])}
           /\ job[j].status = "cancelling" => job'[j] \in {job[j], Ended(job[j], "cancelled")}]_vars
  BY <1>1
<1> QED BY <1>2, Invariance, PTL DEF Spec, OutcomesStand
=============================================================================
